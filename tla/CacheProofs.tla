------------------------------ MODULE CacheProofs ------------------------------
(***************************************************************************)
(* What TLAPS proves of PagedCache, for any number of blocks and requests, *)
(* any prompts and any interleaving of the event loop's fetches with the   *)
(* worker thread's stores; that the linked list of free blocks is a queue; *)
(* and of SmallCaches, for any entries and limits.                         *)
(***************************************************************************)
EXTENDS PagedCache, FreeQueueList, SmallCaches, QueueLemmas

--------------------------------------------------------------------------------
(* Types, and what the operators of the model do.                            *)

\* A block has a legacy hash that tells all that its contents were computed for.
ChunksTell ==
  \A p, q \in Prompts : \A i \in 1..Len(p), j \in 1..Len(q) :
    p[i] \notin Partial /\ q[j] \notin Partial /\ LegacyHash[p[i]] = LegacyHash[q[j]]
      => i = j /\ SubSeq(p, 1, i) = SubSeq(q, 1, j)

\* Block tables, and what is under way on either thread.
Tables == [ids : Seq(Blocks), num : Nat]
Takes == [at : {"take"}, r : CacheUsers, n : Nat, ids : Seq(Blocks)]
Looks == [at : {"index"}, r : CacheUsers]
Stores == [at : {"find"}, r : CacheUsers, all : Prompts, next : Nat \ {0}]
Cows == [at : {"cow"}, r : CacheUsers, i : Nat \ {0}]

PagedTyped ==
  /\ freeQueue \in Seq(Blocks) /\ allocated \subseteq Blocks
  /\ refCount \in [Blocks -> Nat] /\ cacheData \in [Blocks -> Seq(Chunks)]
  /\ hashToBlock \in [DOMAIN hashToBlock -> Blocks]
  /\ tables \in [DOMAIN tables -> Tables] /\ DOMAIN tables \subseteq CacheUsers
  /\ prefixIndex \in [DOMAIN prefixIndex -> Seq(Blocks)]
  /\ entries \subseteq CacheUsers
  /\ asked \in [CacheUsers -> Seq(Chunks)] /\ DOMAIN got = CacheUsers
  /\ fetchCall = NoCall \/ fetchCall \in Looks \/ fetchCall \in Takes
  /\ storeCall = NoCall \/ storeCall \in Stores
  /\ cowCall = NoCall \/ cowCall \in Cows

--------------------------------------------------------------------------------
\* Updating a dictionary, entry by entry.
LEMMA DictUpdated ==
  ASSUME NEW V, NEW d, d \in [DOMAIN d -> V], NEW k, NEW v \in V
  PROVE  /\ DOMAIN DictWith(d, k, v) = DOMAIN d \cup {k}
         /\ DictWith(d, k, v) \in [DOMAIN DictWith(d, k, v) -> V]
         /\ DictWith(d, k, v)[k] = v
         /\ \A x \in DOMAIN d : x # k => DictWith(d, k, v)[x] = d[x]
         /\ DOMAIN DictWithout(d, k) = DOMAIN d \ {k}
         /\ DictWithout(d, k) \in [DOMAIN DictWithout(d, k) -> V]
         /\ \A x \in DOMAIN d : x # k => DictWithout(d, k)[x] = d[x]
  BY DEF DictWith, DictWithout

\* The same for a key that is dropped.
LEMMA DictReduced ==
  ASSUME NEW V, NEW d, d \in [DOMAIN d -> V], NEW k
  PROVE  /\ DOMAIN DictWithout(d, k) = DOMAIN d \ {k}
         /\ DictWithout(d, k) \in [DOMAIN DictWithout(d, k) -> V]
         /\ \A x \in DOMAIN d : x # k => DictWithout(d, k)[x] = d[x]
  BY DEF DictWithout

\* find_shared_prefix comes to an end: the chunks it counts are found, the next is not.
LEMMA SharedFound ==
  ASSUME NEW p \in Seq(Chunks)
  PROVE  /\ SharedLength(p) \in 0..Len(p)
         /\ \A i \in 1..SharedLength(p) : FoundChunk(p[i])
<1> DEFINE T == {n \in 0..Len(p) : n < Len(p) => ~FoundChunk(p[n + 1])}
           P(n) == /\ \A i \in 1..n : FoundChunk(p[i])
                   /\ n < Len(p) => ~FoundChunk(p[n + 1])
<1>1. Len(p) \in Nat
  OBVIOUS
<1>2. T \in SUBSET Nat /\ Len(p) \in T
  BY <1>1
<1>3. PICK m \in T : \A k \in T : m <= k
  <2> HIDE DEF T
  <2> QED BY <1>2, LeastNatural
<1>4. ASSUME NEW i \in 1..m PROVE FoundChunk(p[i])
  <2>1. i - 1 \in 0..Len(p) /\ i - 1 < m /\ i - 1 < Len(p) /\ (i - 1) + 1 = i
    BY <1>1, <1>3
  <2>2. i - 1 \notin T
    <3> HIDE DEF T
    <3> QED BY <1>2, <1>3, <2>1
  <2> QED BY <2>1, <2>2
<1>5. P(m) /\ m \in 0..Len(p)
  BY <1>3, <1>4
<1>6. SharedLength(p) = CHOOSE n \in 0..Len(p) : P(n)
  BY DEF SharedLength
<1> HIDE DEF P, T
<1>7. SharedLength(p) \in 0..Len(p) /\ P(SharedLength(p))
  BY <1>5, <1>6
<1> QED BY <1>7 DEF P

\* The greatest of some numbers up to a bound.
LEMMA Greatest ==
  ASSUME NEW n \in Nat, NEW K \in SUBSET (1..n), K # {}
  PROVE  \E m \in K : \A k \in K : k <= m
<1> DEFINE T == {n - k : k \in K}
<1>1. T \in SUBSET Nat /\ T # {}
  <2>1. \A k \in K : n - k \in Nat
    BY \A k \in K : k \in 1..n
  <2> QED BY <2>1
<1>2. PICK m \in T : \A k \in T : m <= k
  <2> HIDE DEF T
  <2> QED BY <1>1, LeastNatural
<1>3. PICK j \in K : m = n - j
  BY <1>2
<1>4. ASSUME NEW k \in K PROVE k <= j
  <2>1. n - k \in T
    OBVIOUS
  <2>2. m <= n - k
    <3> HIDE DEF T
    <3> QED BY <1>2, <2>1
  <2> QED BY <1>3, <2>2
<1> QED BY <1>4

--------------------------------------------------------------------------------
\* How often b is among the first n of ids.
PlacesTo(b, ids, n) == {i \in 1..n : ids[i] = b}

\* One place more or none.
LEMMA OnePlaceMore ==
  ASSUME NEW b, NEW ids, NEW n \in Nat
  PROVE  /\ IsFiniteSet(PlacesTo(b, ids, n)) /\ Cardinality(PlacesTo(b, ids, n)) \in Nat
         /\ Cardinality(PlacesTo(b, ids, n)) <= n
         /\ ids[n + 1] = b => Cardinality(PlacesTo(b, ids, n + 1)) =
                                Cardinality(PlacesTo(b, ids, n)) + 1
         /\ ids[n + 1] # b => PlacesTo(b, ids, n + 1) = PlacesTo(b, ids, n)
<1>1. IsFiniteSet(1..n) /\ Cardinality(1..n) = n
  BY Places
<1>2. PlacesTo(b, ids, n) \in SUBSET (1..n)
  BY DEF PlacesTo
<1>3. /\ IsFiniteSet(PlacesTo(b, ids, n)) /\ Cardinality(PlacesTo(b, ids, n)) \in Nat
      /\ Cardinality(PlacesTo(b, ids, n)) <= n
  BY <1>1, <1>2, FS_Subset, FS_CardinalityType
<1>4. ASSUME ids[n + 1] = b
      PROVE  Cardinality(PlacesTo(b, ids, n + 1)) = Cardinality(PlacesTo(b, ids, n)) + 1
  <2>1. PlacesTo(b, ids, n + 1) = PlacesTo(b, ids, n) \cup {n + 1}
    BY <1>4 DEF PlacesTo
  <2>2. n + 1 \notin PlacesTo(b, ids, n)
    BY DEF PlacesTo
  <2> QED BY <1>3, <2>1, <2>2, FS_AddElement
<1>5. ids[n + 1] # b => PlacesTo(b, ids, n + 1) = PlacesTo(b, ids, n)
  BY DEF PlacesTo
<1> QED BY <1>3, <1>4, <1>5

\* Occurrences counts them, in the whole and in a prefix.
LEMMA OccurrencesArePlaces ==
  ASSUME NEW B, NEW ids \in Seq(B), NEW b
  PROVE  /\ Occurrences(b, ids) = Cardinality(PlacesTo(b, ids, Len(ids)))
         /\ \A n \in 0..Len(ids) :
              Occurrences(b, SubSeq(ids, 1, n)) = Cardinality(PlacesTo(b, ids, n))
         /\ IsFiniteSet(PlacesTo(b, ids, Len(ids))) /\ Occurrences(b, ids) \in Nat
         /\ b \notin ToSet(ids) => Occurrences(b, ids) = 0
         /\ b \in ToSet(ids) => Occurrences(b, ids) > 0
<1>1. Len(ids) \in Nat /\ DOMAIN ids = 1..Len(ids)
  OBVIOUS
<1>2. Occurrences(b, ids) = Cardinality(PlacesTo(b, ids, Len(ids)))
  BY <1>1 DEF Occurrences, PlacesTo
<1>3. ASSUME NEW n \in 0..Len(ids)
      PROVE  Occurrences(b, SubSeq(ids, 1, n)) = Cardinality(PlacesTo(b, ids, n))
  <2>1. /\ DOMAIN SubSeq(ids, 1, n) = 1..n
        /\ \A i \in 1..n : SubSeq(ids, 1, n)[i] = ids[i]
    BY <1>1
  <2>2. {i \in DOMAIN SubSeq(ids, 1, n) : SubSeq(ids, 1, n)[i] = b} = PlacesTo(b, ids, n)
    BY <2>1 DEF PlacesTo
  <2> QED BY <2>2 DEF Occurrences
<1>4. IsFiniteSet(PlacesTo(b, ids, Len(ids))) /\ Occurrences(b, ids) \in Nat
  BY <1>1, <1>2, OnePlaceMore
<1>5. b \notin ToSet(ids) => PlacesTo(b, ids, Len(ids)) = {}
  BY <1>1 DEF ToSet, PlacesTo
<1>6. b \in ToSet(ids) => PlacesTo(b, ids, Len(ids)) # {}
  BY <1>1 DEF ToSet, PlacesTo
<1> QED BY <1>2, <1>3, <1>4, <1>5, <1>6, FS_EmptySet

\* The place at which b comes for the c-th time: there is one and only one.
LEMMA LastPlace ==
  ASSUME NEW B, NEW ids \in Seq(B), NEW b, NEW c \in Nat, c > 0
  PROVE  /\ c <= Occurrences(b, ids) =>
              \E i \in DOMAIN ids : ids[i] = b /\ Occurrences(b, SubSeq(ids, 1, i)) = c
         /\ \A i, j \in DOMAIN ids :
              ids[i] = b /\ ids[j] = b /\ i < j =>
                Occurrences(b, SubSeq(ids, 1, i)) # Occurrences(b, SubSeq(ids, 1, j))
<1> DEFINE C(n) == Cardinality(PlacesTo(b, ids, n))
<1>1. /\ Len(ids) \in Nat /\ DOMAIN ids = 1..Len(ids) /\ Occurrences(b, ids) = C(Len(ids))
      /\ \A n \in 0..Len(ids) : Occurrences(b, SubSeq(ids, 1, n)) = C(n)
  BY OccurrencesArePlaces
<1>2. \A n \in Nat : C(n) \in Nat /\ C(n) <= n /\ IsFiniteSet(PlacesTo(b, ids, n))
  BY OnePlaceMore
<1>3. ASSUME c <= Occurrences(b, ids)
      PROVE  \E i \in DOMAIN ids : ids[i] = b /\ Occurrences(b, SubSeq(ids, 1, i)) = c
  <2> DEFINE T == {n \in 0..Len(ids) : c <= C(n)}
  <2>1. T \in SUBSET Nat /\ Len(ids) \in T
    BY <1>1, <1>3
  <2>2. PICK m \in T : \A k \in T : m <= k
    <3> HIDE DEF T
    <3> QED BY <2>1, LeastNatural
  <2>3. m \in 0..Len(ids) /\ c <= C(m) /\ C(m) <= m /\ C(m) \in Nat
    <3>1. m \in 0..Len(ids) /\ c <= C(m) /\ m \in Nat
      BY <1>1, <2>2
    <3> HIDE DEF C
    <3> QED BY <1>2, <3>1
  <2> HIDE DEF C
  <2>4. m \in 1..Len(ids) /\ m - 1 \in Nat /\ (m - 1) + 1 = m /\ m - 1 \in 0..Len(ids)
    BY <1>1, <2>3
  <2>5. m - 1 \notin T
    <3>1. m - 1 < m
      BY <2>4
    <3> HIDE DEF T
    <3> QED BY <2>1, <2>2, <2>4, <3>1
  <2>6. C(m - 1) < c /\ C(m - 1) \in Nat
    BY <1>2, <2>4, <2>5
  <2>7. /\ ids[m] = b => C(m) = C(m - 1) + 1
        /\ ids[m] # b => C(m) = C(m - 1)
    <3>1. /\ ids[(m - 1) + 1] = b => C((m - 1) + 1) = C(m - 1) + 1
          /\ ids[(m - 1) + 1] # b => C((m - 1) + 1) = C(m - 1)
      BY <2>4, OnePlaceMore DEF C
    <3> QED BY <2>4, <3>1
  <2>8. ids[m] = b /\ C(m) = c
    BY <2>3, <2>6, <2>7
  <2> QED BY <1>1, <2>4, <2>8
<1>4. ASSUME NEW i \in DOMAIN ids, NEW j \in DOMAIN ids, ids[i] = b, ids[j] = b, i < j
      PROVE  Occurrences(b, SubSeq(ids, 1, i)) # Occurrences(b, SubSeq(ids, 1, j))
  <2>1. /\ PlacesTo(b, ids, i) \in SUBSET PlacesTo(b, ids, j)
        /\ j \in PlacesTo(b, ids, j) /\ j \notin PlacesTo(b, ids, i)
    BY <1>1, <1>4 DEF PlacesTo
  <2>2. IsFiniteSet(PlacesTo(b, ids, j))
    BY <1>1, <1>2
  <2>3. C(i) # C(j)
    BY <2>1, <2>2, FS_Subset, FS_CardinalityType
  <2> QED BY <1>1, <2>3
<1> QED BY <1>3, <1>4

\* What delete_block_table puts in the queue: the blocks whose last reference it takes,
\* each once.
LEMMA BlocksReturned ==
  ASSUME NEW ids \in Seq(Blocks), refCount \in [Blocks -> Nat]
  PROVE  /\ LastUse(ids) \in Seq(Blocks) /\ IsInjective(LastUse(ids))
         /\ ToSet(LastUse(ids)) = {b \in ReturnedBlocks(ids) : refCount[b] > 0}
<1> DEFINE at == [i \in DOMAIN ids |-> i]
           last == {i \in DOMAIN ids : Occurrences(ids[i], SubSeq(ids, 1, i)) = refCount[ids[i]]}
           places == Selected(at, last)
           L == [k \in DOMAIN places |-> ids[places[k]]]
<1>1. LastUse(ids) = L
  BY DEF LastUse
<1>2. /\ Len(ids) \in Nat /\ DOMAIN ids = 1..Len(ids) /\ \A i \in DOMAIN ids : ids[i] \in Blocks
  OBVIOUS
<1>3. at \in Seq(Nat) /\ DOMAIN at = DOMAIN ids /\ \A i \in DOMAIN ids : at[i] = i
  BY <1>2
<1>4. IsInjective(at) /\ ToSet(at) = DOMAIN ids
  BY <1>3 DEF IsInjective, ToSet
<1> HIDE DEF at
<1>5. places \in Seq(Nat) /\ ToSet(places) = DOMAIN ids \cap last /\ IsInjective(places)
  BY <1>3, <1>4, SelectedQueue
<1>6. \A i \in last : i \in DOMAIN ids
  OBVIOUS
<1>7. \A i \in last : Occurrences(ids[i], SubSeq(ids, 1, i)) = refCount[ids[i]]
  OBVIOUS
<1>8. \A i \in DOMAIN ids : Occurrences(ids[i], SubSeq(ids, 1, i)) = refCount[ids[i]] => i \in last
  OBVIOUS
<1> HIDE DEF last, places
<1>9. \A k \in DOMAIN places : places[k] \in last /\ places[k] \in DOMAIN ids
  BY <1>5, <1>6 DEF ToSet
<1>10. \A i \in last : \E k \in DOMAIN places : places[k] = i
  BY <1>5, <1>6 DEF ToSet
<1>11. L \in Seq(Blocks) /\ DOMAIN L = DOMAIN places /\ \A k \in DOMAIN L : L[k] = ids[places[k]]
  <2>1. DOMAIN places = 1..Len(places) /\ Len(places) \in Nat
    BY <1>5
  <2> QED BY <1>2, <1>9, <2>1
<1> HIDE DEF L
<1>12. ASSUME NEW i \in last
       PROVE  ids[i] \in ReturnedBlocks(ids) /\ refCount[ids[i]] > 0
  <2>1. ids[i] \in ToSet(ids) /\ ids[i] \in Blocks /\ i \in 1..Len(ids)
    BY <1>2, <1>6 DEF ToSet
  <2>2. refCount[ids[i]] = Cardinality(PlacesTo(ids[i], ids, i))
    BY <1>2, <1>7, <2>1, OccurrencesArePlaces
  <2>3. PlacesTo(ids[i], ids, i) \in SUBSET PlacesTo(ids[i], ids, Len(ids)) /\ i \in PlacesTo(ids[i], ids, i)
    BY <1>2, <2>1 DEF PlacesTo
  <2>4. /\ Occurrences(ids[i], ids) = Cardinality(PlacesTo(ids[i], ids, Len(ids)))
        /\ IsFiniteSet(PlacesTo(ids[i], ids, Len(ids)))
    BY OccurrencesArePlaces
  <2>5. /\ Cardinality(PlacesTo(ids[i], ids, i)) <= Cardinality(PlacesTo(ids[i], ids, Len(ids)))
        /\ IsFiniteSet(PlacesTo(ids[i], ids, i))
    BY <2>3, <2>4, FS_Subset
  <2>6. Cardinality(PlacesTo(ids[i], ids, i)) > 0
    BY <2>3, <2>5, FS_EmptySet, FS_CardinalityType
  <2> QED BY <2>1, <2>2, <2>4, <2>5, <2>6 DEF ReturnedBlocks
<1>13. ASSUME NEW b \in ReturnedBlocks(ids), refCount[b] > 0
       PROVE  \E i \in last : ids[i] = b
  <2>1. b \in ToSet(ids) /\ refCount[b] <= Occurrences(b, ids) /\ b \in Blocks
    BY <1>2 DEF ReturnedBlocks, ToSet
  <2>2. refCount[b] \in Nat
    BY <2>1
  <2>3. PICK i \in DOMAIN ids : ids[i] = b /\ Occurrences(b, SubSeq(ids, 1, i)) = refCount[b]
    BY <1>13, <2>1, <2>2, LastPlace
  <2> QED BY <1>8, <2>3
<1>14. ASSUME NEW k \in DOMAIN L, NEW l \in DOMAIN L, L[k] = L[l]
       PROVE  k = l
  <2> DEFINE i == places[k]
             j == places[l]
             b == L[k]
  <2>1. /\ i \in last /\ j \in last /\ i \in DOMAIN ids /\ j \in DOMAIN ids
        /\ ids[i] = b /\ ids[j] = b
    BY <1>9, <1>11, <1>14
  <2>2. Occurrences(b, SubSeq(ids, 1, i)) = refCount[b] /\ Occurrences(b, SubSeq(ids, 1, j)) = refCount[b]
    BY <1>7, <2>1
  <2>3. refCount[b] \in Nat /\ refCount[b] > 0
    BY <1>2, <1>12, <2>1
  <2> HIDE DEF i, j, b
  <2>4. \A x, y \in DOMAIN ids : ids[x] = b /\ ids[y] = b /\ x < y =>
          Occurrences(b, SubSeq(ids, 1, x)) # Occurrences(b, SubSeq(ids, 1, y))
    BY <2>3, LastPlace
  <2>6. ~(i < j) /\ ~(j < i)
    BY <2>1, <2>2, <2>4
  <2>5. i = j
    BY <1>2, <2>1, <2>6
  <2> QED BY <1>5, <1>11, <2>5 DEF IsInjective, i, j
<1>15. ToSet(L) = {b \in ReturnedBlocks(ids) : refCount[b] > 0}
  <2>1. ASSUME NEW k \in DOMAIN L PROVE L[k] \in ReturnedBlocks(ids) /\ refCount[L[k]] > 0
    BY <1>9, <1>11, <1>12
  <2>2. ASSUME NEW b \in ReturnedBlocks(ids), refCount[b] > 0 PROVE \E k \in DOMAIN L : L[k] = b
    <3>1. PICK i \in last : ids[i] = b
      BY <1>13, <2>2
    <3>2. PICK k \in DOMAIN places : places[k] = i
      BY <1>10
    <3> QED BY <1>11, <3>1, <3>2
  <2> QED BY <2>1, <2>2 DEF ToSet
<1>16. IsInjective(L)
  BY <1>14 DEF IsInjective
<1> QED BY <1>1, <1>11, <1>15, <1>16

\* A prefix of a sequence is one of the same elements.
LEMMA PrefixOfSequence ==
  ASSUME NEW S, NEW s \in Seq(S), NEW n \in 0..Len(s)
  PROVE  SubSeq(s, 1, n) \in Seq(S)
  OBVIOUS

\* The cache starts empty.
LEMMA PagedTypedInit ==
  ASSUME PagedAssumption, PagedInit
  PROVE  PagedTyped
<1>1. freeQueue \in Seq(Blocks) /\ allocated \subseteq Blocks
  BY DEF PagedInit, PagedAssumption, Blocks
<1>2. refCount \in [Blocks -> Nat] /\ cacheData \in [Blocks -> Seq(Chunks)]
  BY DEF PagedInit
<1>3. asked \in [CacheUsers -> Seq(Chunks)] /\ DOMAIN got = CacheUsers
  BY DEF PagedInit
<1>4. hashToBlock \in [DOMAIN hashToBlock -> Blocks] /\ tables \in [DOMAIN tables -> Tables]
      /\ DOMAIN tables \subseteq CacheUsers /\ prefixIndex \in [DOMAIN prefixIndex -> Seq(Blocks)]
  <2>1. DOMAIN <<>> = {} /\ <<>> = [x \in {} |-> x]
    OBVIOUS
  <2> QED BY <2>1 DEF PagedInit
<1> QED BY <1>1, <1>2, <1>3, <1>4 DEF PagedInit, PagedTyped

\* A function on the first numbers is a sequence.
LEMMA SequenceOf ==
  ASSUME NEW S, NEW n \in Nat, NEW f \in [1..n -> S]
  PROVE  f \in Seq(S) /\ Len(f) = n /\ DOMAIN f = 1..n
  OBVIOUS

\* A request gets a table.
LEMMA TableGiven ==
  ASSUME tables \in [DOMAIN tables -> Tables], DOMAIN tables \subseteq CacheUsers,
         NEW r \in CacheUsers, NEW t \in Tables, NEW new, new = DictWith(tables, r, t)
  PROVE  /\ new \in [DOMAIN new -> Tables] /\ DOMAIN new \subseteq CacheUsers
         /\ DOMAIN new = DOMAIN tables \cup {r} /\ new[r] = t
         /\ \A q \in DOMAIN tables : q # r => new[q] = tables[q]
<1>1. /\ DOMAIN new = DOMAIN tables \cup {r}
      /\ new \in [DOMAIN new -> Tables] /\ new[r] = t
      /\ \A q \in DOMAIN tables : q # r => new[q] = tables[q]
  BY DEF DictWith
<1> QED BY <1>1

\* The table of a request, with one more block.
LEMMA TableGrows ==
  ASSUME tables \in [DOMAIN tables -> Tables], NEW r \in DOMAIN tables, NEW b \in Blocks
  PROVE  /\ [tables EXCEPT ![r].ids = Append(@, b), ![r].num = @ + 1] \in [DOMAIN tables -> Tables]
         /\ [tables EXCEPT ![r].ids = Append(@, b), ![r].num = @ + 1][r]
              = [ids |-> Append(tables[r].ids, b), num |-> tables[r].num + 1]
         /\ \A q \in DOMAIN tables : q # r =>
              [tables EXCEPT ![r].ids = Append(@, b), ![r].num = @ + 1][q] = tables[q]
<1> DEFINE t == [ids |-> Append(tables[r].ids, b), num |-> tables[r].num + 1]
           new == [tables EXCEPT ![r].ids = Append(@, b), ![r].num = @ + 1]
<1>1. /\ tables[r] = [ids |-> tables[r].ids, num |-> tables[r].num]
      /\ tables[r].ids \in Seq(Blocks) /\ tables[r].num \in Nat
  <2>1. tables[r] \in Tables
    OBVIOUS
  <2> QED BY <2>1 DEF Tables
<1>2. Append(tables[r].ids, b) \in Seq(Blocks) /\ tables[r].num + 1 \in Nat
  BY <1>1
<1>3. t \in Tables
  BY <1>2 DEF Tables
<1>4. new[r] = t
  BY <1>1
<1>5. \A q \in DOMAIN tables : q # r => new[q] = tables[q]
  OBVIOUS
<1>6. DOMAIN new = DOMAIN tables
  OBVIOUS
<1>7. new = [q \in DOMAIN tables |-> new[q]]
  OBVIOUS
<1> HIDE DEF t, new
<1>8. new \in [DOMAIN tables -> Tables]
  BY <1>3, <1>4, <1>5, <1>7
<1> QED BY <1>4, <1>5, <1>8 DEF t, new

\* What each step keeps in its type.
LEMMA PagedTypedStep ==
  ASSUME PagedAssumption, PagedTyped, [PagedNext]_pagedVars
  PROVE  PagedTyped'
<1> USE DEF PagedTyped
<1>0. NoTable \in Tables
  BY DEF NoTable, Tables
<1>1. ASSUME NEW r \in CacheUsers, FetchFind(r) PROVE PagedTyped'
  <2>1. PICK p \in Prompts :
          /\ asked' = [asked EXCEPT ![r] = p]
          /\ IF SharedLength(p) > 0
             THEN /\ tables' = DictWith(tables, r, NoTable)
                  /\ fetchCall' = [at |-> "take", r |-> r, n |-> SharedLength(p),
                        ids |-> [i \in 1..SharedLength(p) |-> hashToBlock[LegacyHash[p[i]]]]]
             ELSE /\ fetchCall' = [at |-> "index", r |-> r]
                  /\ UNCHANGED tables
    BY <1>1 DEF FetchFind
  <2>2. p \in Seq(Chunks) /\ SharedLength(p) \in Nat
    <3>1. p \in Seq(Chunks) /\ Len(p) \in Nat
      BY DEF PagedAssumption
    <3> QED BY <3>1, SharedFound
  <2>3. UNCHANGED <<freeQueue, refCount, allocated, cacheData, hashToBlock, prefixVars, storeCall, cowCall, got>>
    BY <1>1 DEF FetchFind
  <2>4. asked' \in [CacheUsers -> Seq(Chunks)]
    BY <2>1, <2>2
  <2>5. CASE SharedLength(p) > 0
    <3>1. tables' \in [DOMAIN tables' -> Tables] /\ DOMAIN tables' \subseteq CacheUsers
      BY <1>0, <2>1, <2>5, TableGiven
    <3>2. ASSUME NEW i \in 1..SharedLength(p) PROVE hashToBlock[LegacyHash[p[i]]] \in Blocks
      <4>1. FoundChunk(p[i])
        BY <2>2, SharedFound
      <4> QED BY <4>1 DEF FoundChunk
    <3>3. [i \in 1..SharedLength(p) |-> hashToBlock[LegacyHash[p[i]]]] \in Seq(Blocks)
      <4> DEFINE f == [i \in 1..SharedLength(p) |-> hashToBlock[LegacyHash[p[i]]]]
      <4>1. f \in [1..SharedLength(p) -> Blocks]
        BY <3>2
      <4> HIDE DEF f
      <4>2. f \in Seq(Blocks)
        BY <2>2, <4>1, SequenceOf
      <4> QED BY <4>2 DEF f
    <3>4. fetchCall' \in Takes
      <4> DEFINE f == [i \in 1..SharedLength(p) |-> hashToBlock[LegacyHash[p[i]]]]
      <4>1. fetchCall' = [at |-> "take", r |-> r, n |-> SharedLength(p), ids |-> f]
        BY <2>1, <2>5
      <4> HIDE DEF f
      <4>2. f \in Seq(Blocks)
        BY <3>3 DEF f
      <4> QED BY <2>2, <4>1, <4>2 DEF Takes
    <3> QED BY <2>3, <2>4, <3>1, <3>4 DEF prefixVars
  <2>6. CASE ~(SharedLength(p) > 0)
    <3>1. fetchCall' \in Looks /\ UNCHANGED tables
      BY <2>1, <2>6 DEF Looks
    <3> QED BY <2>3, <2>4, <3>1 DEF prefixVars
  <2> QED BY <2>5, <2>6
<1>2. ASSUME FetchIndex PROVE PagedTyped'
  <2> DEFINE r == fetchCall.r
             p == asked[r]
             known == {n \in 1..Len(p) : p[n] \notin Partial
                                       /\ SubSeq(p, 1, n) \in DOMAIN prefixIndex}
  <2>1. UNCHANGED <<freeQueue, refCount, allocated, cacheData, hashToBlock, prefixVars, storeCall, cowCall, asked>>
    BY <1>2 DEF FetchIndex
  <2>2. fetchCall \in Looks /\ r \in CacheUsers /\ p \in Seq(Chunks) /\ Len(p) \in Nat
    <3>1. fetchCall.at = "index"
      BY <1>2 DEF FetchIndex
    <3>2. NoCall.at = "none" /\ \A x \in Takes : x.at = "take"
      BY DEF NoCall, Takes
    <3>3. fetchCall \in Looks
      BY <3>1, <3>2
    <3> QED BY <3>3 DEF Looks
  <2>3. CASE known = {}
    <3>1. fetchCall' = NoCall /\ got' = [got EXCEPT ![r] = PagedMiss] /\ UNCHANGED tables
      BY <1>2, <2>3 DEF FetchIndex
    <3> QED BY <2>1, <3>1 DEF prefixVars
  <2>4. CASE known # {}
    <3> DEFINE n == CHOOSE n \in known : \A k \in known : k <= n
    <3>1. /\ tables' = DictWith(tables, r, NoTable) /\ UNCHANGED got
          /\ fetchCall' = [at |-> "take", r |-> r, n |-> n, ids |-> prefixIndex[SubSeq(p, 1, n)]]
      BY <1>2, <2>4 DEF FetchIndex
    <3>2. n \in known
      BY <2>2, <2>4, Greatest
    <3>3. n \in Nat /\ prefixIndex[SubSeq(p, 1, n)] \in Seq(Blocks)
      BY <2>2, <3>2
    <3> HIDE DEF n, known
    <3>4. fetchCall' \in Takes
      BY <2>2, <3>1, <3>3 DEF Takes
    <3>5. tables' \in [DOMAIN tables' -> Tables] /\ DOMAIN tables' \subseteq CacheUsers
      BY <1>0, <2>2, <3>1, TableGiven
    <3> QED BY <2>1, <3>1, <3>4, <3>5 DEF prefixVars
  <2> QED BY <2>3, <2>4
<1>3. ASSUME FetchTake PROVE PagedTyped'
  <2> DEFINE b == Head(fetchCall.ids)
             r == fetchCall.r
  <2>1. UNCHANGED <<freeQueue, allocated, cacheData, hashToBlock, prefixVars, storeCall, cowCall, asked, got>>
    BY <1>3 DEF FetchTake
  <2>2. fetchCall \in Takes /\ fetchCall.ids # <<>>
    BY <1>3 DEF FetchTake, NoCall, Looks
  <2>3. fetchCall' \in Takes
    <3>1. Tail(fetchCall.ids) \in Seq(Blocks)
      BY <2>2 DEF Takes
    <3>2. fetchCall' = [fetchCall EXCEPT !.ids = Tail(@)]
      BY <1>3 DEF FetchTake
    <3> QED BY <2>2, <3>1, <3>2 DEF Takes
  <2>4. refCount' \in [Blocks -> Nat] /\ tables' \in [DOMAIN tables' -> Tables] /\ DOMAIN tables' = DOMAIN tables
    <3>1. CASE b \in allocated
      <4>1. /\ refCount' = [refCount EXCEPT ![b] = @ + 1]
            /\ tables' = IF r \in DOMAIN tables
                         THEN [tables EXCEPT ![r].ids = Append(@, b), ![r].num = @ + 1]
                         ELSE tables
        BY <1>3, <3>1 DEF FetchTake
      <4>2. b \in Blocks
        BY <3>1
      <4> HIDE DEF b, r
      <4>5. tables \in [DOMAIN tables -> Tables]
        OBVIOUS
      <4>3. refCount' \in [Blocks -> Nat]
        BY <4>1, <4>2
      <4>4. CASE r \in DOMAIN tables
        <5>1. [tables EXCEPT ![r].ids = Append(@, b), ![r].num = @ + 1] \in [DOMAIN tables -> Tables]
          BY <4>2, <4>4, <4>5, TableGrows
        <5> QED BY <4>1, <4>3, <4>4, <5>1
      <4> QED BY <4>1, <4>3, <4>4
    <3>2. CASE b \notin allocated
      BY <1>3, <3>2 DEF FetchTake
    <3> QED BY <3>1, <3>2
  <2> QED BY <2>1, <2>3, <2>4 DEF prefixVars
<1>4. ASSUME FetchEnds PROVE PagedTyped'
  BY <1>4 DEF FetchEnds, managerVars, prefixVars
<1>5. ASSUME NEW r \in CacheUsers, PagedStoreBegins(r) PROVE PagedTyped'
  <2>1. PICK all \in Prompts :
       /\ tables' = IF r \in DOMAIN tables THEN tables ELSE DictWith(tables, r, NoTable)
       /\ storeCall' = IF tables'[r].num >= Len(all) THEN NoCall
                   ELSE [at |-> "find", r |-> r, all |-> all, next |-> tables'[r].num + 1]
       /\ got' = IF storeCall' = NoCall THEN [got EXCEPT ![r] = [at |-> "over"]] ELSE got
    BY <1>5 DEF PagedStoreBegins
  <2>2. UNCHANGED <<freeQueue, refCount, allocated, cacheData, hashToBlock, prefixVars, fetchCall, cowCall, asked>>
    BY <1>5 DEF PagedStoreBegins
  <2>3. tables' \in [DOMAIN tables' -> Tables] /\ DOMAIN tables' \subseteq CacheUsers /\ r \in DOMAIN tables'
    <3>1. CASE r \in DOMAIN tables
      BY <2>1, <3>1
    <3>2. CASE r \notin DOMAIN tables
      <4>1. tables' = DictWith(tables, r, NoTable)
        BY <2>1, <3>2
      <4>2. tables \in [DOMAIN tables -> Tables] /\ DOMAIN tables \subseteq CacheUsers
        OBVIOUS
      <4> HIDE DEF PagedTyped
      <4>3. /\ tables' \in [DOMAIN tables' -> Tables] /\ DOMAIN tables' \subseteq CacheUsers
            /\ DOMAIN tables' = DOMAIN tables \cup {r}
        BY <1>0, <4>1, <4>2, TableGiven
      <4> QED BY <4>3
    <3> QED BY <3>1, <3>2
  <2>4. tables'[r].num + 1 \in Nat \ {0}
    BY <2>3 DEF Tables
  <2>5. storeCall' = NoCall \/ storeCall' \in Stores
    BY <2>1, <2>4 DEF Stores
  <2>6. DOMAIN got' = CacheUsers
    BY <2>1
  <2> QED BY <2>2, <2>3, <2>5, <2>6 DEF prefixVars
<1>6. ASSUME NEW b \in Blocks, AddToTable(b)
      PROVE  tables' \in [DOMAIN tables' -> Tables] /\ DOMAIN tables' = DOMAIN tables
  <2>1. CASE storeCall.r \in DOMAIN tables
    BY <1>6, <2>1, TableGrows DEF AddToTable
  <2>2. CASE storeCall.r \notin DOMAIN tables
    BY <1>6, <2>2 DEF AddToTable
  <2> QED BY <2>1, <2>2
<1>7. ASSUME storeCall.at = "find", storeCall' = [storeCall EXCEPT !.next = @ + 1]
      PROVE  storeCall \in Stores /\ storeCall' \in Stores
  <2>1. NoCall.at = "none"
    BY DEF NoCall
  <2>2. storeCall \in Stores
    BY <1>7, <2>1
  <2>3. storeCall.next + 1 \in Nat \ {0}
    BY <2>2 DEF Stores
  <2>4. storeCall' \in Stores
    BY <1>7, <2>2, <2>3 DEF Stores
  <2> QED BY <2>2, <2>4
<1>8. ASSUME StoreReuses PROVE PagedTyped'
  <2> DEFINE b == hashToBlock[LegacyHash[NextChunk]]
  <2>1. UNCHANGED <<freeQueue, allocated, cacheData, hashToBlock, prefixVars, fetchCall, cowCall, asked, got>>
    BY <1>8 DEF StoreReuses
  <2>2. /\ refCount' = [refCount EXCEPT ![b] = @ + 1] /\ AddToTable(b) /\ b \in Blocks
    BY <1>8 DEF StoreReuses, FoundChunk
  <2>3. storeCall' \in Stores
    BY <1>7, <1>8 DEF StoreReuses
  <2> HIDE DEF b
  <2>4. tables' \in [DOMAIN tables' -> Tables] /\ DOMAIN tables' = DOMAIN tables
    BY <1>6, <2>2
  <2>5. refCount' \in [Blocks -> Nat]
    BY <2>2
  <2> QED BY <2>1, <2>3, <2>4, <2>5 DEF prefixVars
<1>9. ASSUME StoreAllocates PROVE PagedTyped'
  <2> DEFINE b == Head(freeQueue)
  <2>1. UNCHANGED <<prefixVars, fetchCall, cowCall, asked, got>>
    BY <1>9 DEF StoreAllocates
  <2>2. storeCall \in Stores /\ storeCall' \in Stores
    BY <1>7, <1>9 DEF StoreAllocates
  <2>3. /\ freeQueue' = Tail(freeQueue) /\ freeQueue # <<>>
        /\ refCount' = [refCount EXCEPT ![b] = 1] /\ allocated' = allocated \cup {b}
        /\ cacheData' = [cacheData EXCEPT ![b] = BlockSlice] \/ UNCHANGED cacheData
        /\ hashToBlock' = (IF NextChunk \in Partial THEN hashToBlock
                          ELSE DictWith(hashToBlock, LegacyHash[NextChunk], b))
        /\ AddToTable(b) /\ storeCall.next <= Len(storeCall.all)
    BY <1>9 DEF StoreAllocates, AfterAllocate
  <2>4. b \in Blocks /\ freeQueue' \in Seq(Blocks)
    BY <2>3, TailOfQueue
  <2> HIDE DEF b
  <2>5. tables' \in [DOMAIN tables' -> Tables] /\ DOMAIN tables' = DOMAIN tables
    BY <1>6, <2>3, <2>4
  <2>6. refCount' \in [Blocks -> Nat] /\ allocated' \subseteq Blocks
    BY <2>3, <2>4
  <2>7. BlockSlice \in Seq(Chunks)
    <3>1. storeCall.all \in Seq(Chunks) /\ storeCall.next \in 1..Len(storeCall.all)
      BY <2>2, <2>3 DEF Stores, PagedAssumption
    <3> QED BY <3>1 DEF BlockSlice
  <2>8. cacheData' \in [Blocks -> Seq(Chunks)]
    <3>1. [cacheData EXCEPT ![b] = BlockSlice] \in [Blocks -> Seq(Chunks)]
      BY <2>7
    <3> QED BY <2>3, <3>1
  <2>9. hashToBlock' \in [DOMAIN hashToBlock' -> Blocks]
    <3>1. CASE NextChunk \in Partial
      BY <2>3, <3>1
    <3>2. CASE NextChunk \notin Partial
      BY <2>3, <2>4, <3>2, DictUpdated
    <3> QED BY <3>1, <3>2
  <2> QED BY <2>1, <2>2, <2>4, <2>5, <2>6, <2>8, <2>9 DEF prefixVars
<1>10. ASSUME StoreEnds PROVE PagedTyped'
  <2> DEFINE r == storeCall.r
             t == IF r \in DOMAIN tables THEN tables[r] ELSE NoTable
             named == {SubSeq(storeCall.all, 1, i) : i \in DOMAIN t.ids}
  <2>1. UNCHANGED <<managerVars, fetchCall, cowCall, asked>> /\ storeCall' = NoCall
        /\ entries' = entries \cup {r} /\ got' = [got EXCEPT ![r] = [at |-> "over"]]
        /\ prefixIndex' = [p \in DOMAIN prefixIndex \cup named |->
                       IF p \in named THEN SubSeq(t.ids, 1, Len(p)) ELSE prefixIndex[p]]
    BY <1>10 DEF StoreEnds
  <2>2. storeCall \in Stores /\ r \in CacheUsers /\ storeCall.all \in Seq(Chunks)
    BY <1>10 DEF StoreEnds, Stores, NoCall, PagedAssumption
  <2>3. t.ids \in Seq(Blocks) /\ DOMAIN t.ids = 1..Len(t.ids) /\ Len(t.ids) \in Nat
    <3>1. t \in Tables
      BY <1>0
    <3> HIDE DEF t
    <3>2. t.ids \in Seq(Blocks)
      BY <3>1 DEF Tables
    <3> QED BY <3>2
  <2> HIDE DEF t
  <2>4. ASSUME NEW p \in named PROVE SubSeq(t.ids, 1, Len(p)) \in Seq(Blocks)
    <3>1. PICK i \in DOMAIN t.ids : p = SubSeq(storeCall.all, 1, i)
      OBVIOUS
    <3>2. i \in 1..Len(t.ids) /\ Len(t.ids) \in Nat
      BY <2>3
    <3>3. Len(p) \in Nat /\ Len(p) <= i
      <4>1. Len(SubSeq(storeCall.all, 1, i)) = IF 1 <= i THEN i ELSE 0
        BY <2>2, <3>2
      <4> QED BY <3>1, <3>2, <4>1
    <3>4. Len(p) \in 0..Len(t.ids)
      BY <3>2, <3>3
    <3> QED BY <2>3, <3>4, PrefixOfSequence
  <2> HIDE DEF named
  <2>5. prefixIndex' \in [DOMAIN prefixIndex' -> Seq(Blocks)]
    BY <2>1, <2>4
  <2> QED BY <2>1, <2>2, <2>5 DEF managerVars
<1>11. ASSUME NEW r \in CacheUsers, ReleaseCache(r) PROVE PagedTyped'
  <2> DEFINE ids == tables[r].ids
  <2>1. UNCHANGED <<cacheData, hashToBlock, prefixIndex, callerVars>>
    BY <1>11 DEF ReleaseCache
  <2>2. /\ refCount' = [b \in Blocks |-> IF b \in ReturnedBlocks(ids) THEN 0
                                    ELSE refCount[b] - Occurrences(b, ids)]
        /\ allocated' = allocated \ ReturnedBlocks(ids)
        /\ freeQueue' = freeQueue \o LastUse(ids)
        /\ tables' = DictWithout(tables, r) /\ entries' = entries \ {r} /\ r \in DOMAIN tables
    BY <1>11 DEF ReleaseCache
  <2>3. ids \in Seq(Blocks)
    BY <2>2 DEF Tables
  <2> HIDE DEF ids
  <2>4. ASSUME NEW b \in Blocks, b \notin ReturnedBlocks(ids)
        PROVE  refCount[b] - Occurrences(b, ids) \in Nat
    <3>1. Occurrences(b, ids) \in Nat /\ (b \notin ToSet(ids) => Occurrences(b, ids) = 0)
      BY <2>3, OccurrencesArePlaces
    <3>2. b \in ToSet(ids) => ~(refCount[b] <= Occurrences(b, ids))
      BY <2>4 DEF ReturnedBlocks
    <3>3. refCount[b] \in Nat
      OBVIOUS
    <3> QED BY <3>1, <3>2, <3>3
  <2>5. refCount' \in [Blocks -> Nat]
    BY <2>2, <2>4
  <2>6. freeQueue' \in Seq(Blocks)
    BY <2>2, <2>3, BlocksReturned, PushLeft
  <2>7. tables' \in [DOMAIN tables' -> Tables] /\ DOMAIN tables' \subseteq CacheUsers
    BY <2>2, DictReduced, ZenonT(30)
  <2> QED BY <2>1, <2>2, <2>5, <2>6, <2>7 DEF callerVars
<1>12. ASSUME NEW r \in CacheUsers, NEW q \in CacheUsers, ForkCache(r, q) PROVE PagedTyped'
  <2>1. UNCHANGED <<freeQueue, allocated, cacheData, hashToBlock, prefixIndex, fetchCall, storeCall, cowCall, asked>>
    BY <1>12 DEF ForkCache
  <2>2. /\ refCount' = [b \in Blocks |-> IF b \in allocated
                              THEN refCount[b] + Occurrences(b, tables[r].ids) ELSE refCount[b]]
        /\ tables' = DictWith(tables, q, tables[r]) /\ entries' = entries \cup {q}
        /\ got' = [got EXCEPT ![q] = [at |-> "over"]] /\ r \in DOMAIN tables
    BY <1>12 DEF ForkCache
  <2>3. tables[r] \in Tables /\ tables[r].ids \in Seq(Blocks)
    BY <2>2 DEF Tables
  <2>4. \A b \in Blocks : Occurrences(b, tables[r].ids) \in Nat
    BY <2>3, OccurrencesArePlaces
  <2>5. refCount' \in [Blocks -> Nat]
    BY <2>2, <2>4
  <2>6. tables' \in [DOMAIN tables' -> Tables] /\ DOMAIN tables' \subseteq CacheUsers
    BY <2>2, <2>3, TableGiven
  <2> QED BY <2>1, <2>2, <2>5, <2>6
<1>13. ASSUME NEW r \in CacheUsers, CowBegins(r) PROVE PagedTyped'
  <2>1. cowCall' \in Cows
    BY <1>13 DEF CowBegins, Cows
  <2> QED BY <1>13, <2>1 DEF CowBegins, managerVars, prefixVars
<1>14. ASSUME CowStep PROVE PagedTyped'
  <2> DEFINE r == cowCall.r
             b == tables[r].ids[cowCall.i]
             n == Head(freeQueue)
  <2>1. UNCHANGED <<hashToBlock, prefixVars, fetchCall, storeCall, asked, got>>
    BY <1>14 DEF CowStep
  <2>2. cowCall \in Cows /\ cowCall' = [cowCall EXCEPT !.i = @ + 1]
    BY <1>14 DEF CowStep, NoCall
  <2>3. cowCall' \in Cows
    <3>1. cowCall.i + 1 \in Nat \ {0}
      BY <2>2 DEF Cows
    <3> QED BY <2>2, <3>1 DEF Cows
  <2>4. CASE b \in allocated /\ refCount[b] > 1 /\ freeQueue # <<>>
    <3>1. /\ freeQueue' = Tail(freeQueue)
          /\ refCount' = [refCount EXCEPT ![n] = 1, ![b] = @ - 1]
          /\ allocated' = allocated \cup {n}
          /\ cacheData' = [cacheData EXCEPT ![n] = cacheData[b]]
          /\ tables' = [tables EXCEPT ![r].ids[cowCall.i] = n]
      BY <1>14, <2>4 DEF CowStep, AfterAllocate
    <3>2. n \in Blocks /\ freeQueue' \in Seq(Blocks) /\ b \in Blocks
      BY <2>4, <3>1, TailOfQueue
    <3>3. refCount[b] \in Nat /\ refCount[b] > 1 /\ cacheData[b] \in Seq(Chunks)
      BY <2>4, <3>2
    <3> HIDE DEF n, b
    <3>4. refCount' \in [Blocks -> Nat]
      <4>1. [refCount EXCEPT ![n] = 1] \in [Blocks -> Nat]
        OBVIOUS
      <4>2. \A x \in Nat : x - 1 \in Nat \/ x = 0
        OBVIOUS
      <4>3. n # b => refCount' = [[refCount EXCEPT ![n] = 1] EXCEPT ![b] = refCount[b] - 1]
        BY <3>1, <3>2
      <4>4. n = b => refCount' = [[refCount EXCEPT ![n] = 1] EXCEPT ![b] = 0]
        BY <3>1, <3>2
      <4>5. refCount[b] - 1 \in Nat
        BY <3>3
      <4>6. \A f \in [Blocks -> Nat], v \in Nat : [f EXCEPT ![b] = v] \in [Blocks -> Nat]
        OBVIOUS
      <4>7. CASE n = b
        BY <4>1, <4>4, <4>6, <4>7
      <4>8. CASE n # b
        <5> DEFINE g == [refCount EXCEPT ![n] = 1]
                   v == refCount[b] - 1
        <5>1. refCount' = [g EXCEPT ![b] = v]
          BY <4>3, <4>8
        <5>2. g \in [Blocks -> Nat] /\ v \in Nat
          BY <4>1, <4>5
        <5> HIDE DEF g, v
        <5> QED BY <4>6, <5>1, <5>2
      <4> QED BY <4>7, <4>8
    <3>5. cacheData' \in [Blocks -> Seq(Chunks)] /\ allocated' \subseteq Blocks
      BY <3>1, <3>2, <3>3
    <3>6. tables' \in [DOMAIN tables' -> Tables] /\ DOMAIN tables' = DOMAIN tables
      <4>1. CASE r \in DOMAIN tables
        <5>3. tables[r] \in Tables /\ tables[r].ids \in Seq(Blocks)
          BY <4>1 DEF Tables
        <5>4. ASSUME NEW s \in Seq(Blocks), NEW i PROVE [s EXCEPT ![i] = n] \in Seq(Blocks)
          <6>1. Len(s) \in Nat /\ s \in [1..Len(s) -> Blocks]
            OBVIOUS
          <6>2. [s EXCEPT ![i] = n] \in [1..Len(s) -> Blocks]
            BY <3>2, <6>1
          <6> QED BY <6>1, <6>2, SequenceOf
        <5>1. tables[r] \in Tables /\ [tables[r].ids EXCEPT ![cowCall.i] = n] \in Seq(Blocks)
          BY <5>3, <5>4
        <5>2. [tables[r] EXCEPT !.ids[cowCall.i] = n] \in Tables
          BY <5>1 DEF Tables
        <5> QED BY <3>1, <4>1, <5>2
      <4>2. CASE r \notin DOMAIN tables
        <5>1. [tables EXCEPT ![r].ids[cowCall.i] = n] = [q \in DOMAIN tables |-> tables[q]]
          BY <4>2
        <5> QED BY <3>1, <5>1
      <4> QED BY <4>1, <4>2
    <3> QED BY <2>1, <2>3, <3>2, <3>4, <3>5, <3>6 DEF prefixVars
  <2>5. CASE ~(b \in allocated /\ refCount[b] > 1 /\ freeQueue # <<>>)
    <3>1. UNCHANGED <<freeQueue, refCount, allocated, cacheData, tables>>
      BY <1>14, <2>5 DEF CowStep
    <3> QED BY <2>1, <2>3, <3>1 DEF prefixVars
  <2> QED BY <2>4, <2>5
<1>15. ASSUME CowEnds PROVE PagedTyped'
  BY <1>15 DEF CowEnds, managerVars, prefixVars
<1>16. ASSUME ClearPaged PROVE PagedTyped'
  <2>1. freeQueue' \in Seq(Blocks) /\ allocated' \subseteq Blocks
    <3>1. [i \in 1..NBlocks |-> i] \in [1..NBlocks -> 1..NBlocks] /\ NBlocks \in Nat
      BY DEF PagedAssumption
    <3>2. [i \in 1..NBlocks |-> i] \in Seq(Blocks)
      BY <3>1, SequenceOf DEF Blocks
    <3> QED BY <1>16, <3>2 DEF ClearPaged
  <2>2. refCount' \in [Blocks -> Nat] /\ cacheData' \in [Blocks -> Seq(Chunks)]
    BY <1>16 DEF ClearPaged
  <2>3. hashToBlock' \in [DOMAIN hashToBlock' -> Blocks] /\ tables' \in [DOMAIN tables' -> Tables]
      /\ DOMAIN tables' \subseteq CacheUsers /\ prefixIndex' \in [DOMAIN prefixIndex' -> Seq(Blocks)]
    <3>1. DOMAIN <<>> = {} /\ <<>> = [x \in {} |-> x]
      OBVIOUS
    <3> QED BY <1>16, <3>1 DEF ClearPaged
  <2> QED BY <1>16, <2>1, <2>2, <2>3 DEF ClearPaged, callerVars
<1>17. CASE UNCHANGED pagedVars
  BY <1>17 DEF pagedVars, managerVars, prefixVars, callerVars
<1> QED BY <1>1, <1>2, <1>3, <1>4, <1>5, <1>8, <1>9, <1>10, <1>11, <1>12, <1>13, <1>14, <1>15,
           <1>16, <1>17 DEF PagedNext

--------------------------------------------------------------------------------
(* Blocks are conserved: in the free queue, once, or allocated.              *)

\* All blocks are free at first, and after a clear.
LEMMA AllBlocksFree ==
  ASSUME NBlocks \in Nat
  PROVE  /\ IsInjective([i \in 1..NBlocks |-> i])
         /\ ToSet([i \in 1..NBlocks |-> i]) = Blocks
  BY DEF IsInjective, ToSet, Blocks

\* allocate_block: the block at the head of the queue is no longer free.
LEMMA BlockTaken ==
  ASSUME freeQueue \in Seq(Blocks), freeQueue # <<>>, allocated \subseteq Blocks, BlocksConserved
  PROVE  LET b == Head(freeQueue)
         IN /\ b \in Blocks /\ b \notin allocated
            /\ IsInjective(Tail(freeQueue))
            /\ ToSet(Tail(freeQueue)) = Blocks \ (allocated \cup {b})
<1> DEFINE b == Head(freeQueue)
<1>1. /\ b \in Blocks /\ b \in ToSet(freeQueue) /\ IsInjective(Tail(freeQueue))
      /\ b \notin ToSet(Tail(freeQueue))
      /\ ToSet(Tail(freeQueue)) \subseteq ToSet(freeQueue)
      /\ ToSet(freeQueue) \subseteq ToSet(Tail(freeQueue)) \cup {b}
  BY TailOfQueue DEF BlocksConserved
<1>2. ToSet(freeQueue) = Blocks \ allocated
  BY DEF BlocksConserved
<1> HIDE DEF b
<1>3. ToSet(Tail(freeQueue)) = Blocks \ (allocated \cup {b})
  BY <1>1, <1>2
<1> QED BY <1>1, <1>2, <1>3 DEF b

\* Every step leaves a block free or allocated, and counts it if it is allocated.
LEMMA ConservedStep ==
  ASSUME PagedAssumption, PagedTyped, BlocksConserved, [PagedNext]_pagedVars
  PROVE  BlocksConserved'
<1> USE DEF PagedTyped
<1>0. ASSUME UNCHANGED <<freeQueue, refCount, allocated>> PROVE BlocksConserved'
  BY <1>0 DEF BlocksConserved
<1>1. ASSUME NEW b \in allocated, refCount' = [refCount EXCEPT ![b] = @ + 1],
             UNCHANGED <<freeQueue, allocated>>
      PROVE  BlocksConserved'
  <2>1. b \in Blocks /\ refCount[b] \in Nat
    OBVIOUS
  <2>2. \A x \in Blocks : refCount'[x] = IF x = b THEN refCount[b] + 1 ELSE refCount[x]
    BY <1>1
  <2>3. refCount'[b] > 0
    BY <2>1, <2>2
  <2> QED BY <1>1, <2>1, <2>2, <2>3 DEF BlocksConserved
<1>2. ASSUME FetchTake PROVE BlocksConserved'
  <2>1. CASE Head(fetchCall.ids) \in allocated
    BY <1>1, <1>2, <2>1 DEF FetchTake
  <2>2. CASE Head(fetchCall.ids) \notin allocated
    BY <1>0, <1>2, <2>2 DEF FetchTake
  <2> QED BY <2>1, <2>2
<1>3. ASSUME StoreReuses PROVE BlocksConserved'
  <2> DEFINE b == hashToBlock[LegacyHash[NextChunk]]
  <2>1. /\ b \in allocated /\ refCount' = [refCount EXCEPT ![b] = @ + 1]
        /\ UNCHANGED <<freeQueue, allocated>>
    BY <1>3 DEF StoreReuses, FoundChunk
  <2> QED BY <1>1, <2>1
<1>4. ASSUME StoreAllocates PROVE BlocksConserved'
  <2> DEFINE b == Head(freeQueue)
  <2>1. /\ freeQueue' = Tail(freeQueue) /\ freeQueue # <<>>
        /\ refCount' = [refCount EXCEPT ![b] = 1] /\ allocated' = allocated \cup {b}
    BY <1>4 DEF StoreAllocates, AfterAllocate
  <2>2. /\ b \in Blocks /\ b \notin allocated /\ IsInjective(freeQueue')
        /\ ToSet(freeQueue') = Blocks \ (allocated \cup {b})
    BY <2>1, BlockTaken
  <2> HIDE DEF b
  <2>3. \A x \in Blocks : refCount'[x] = IF x = b THEN 1 ELSE refCount[x]
    BY <2>1
  <2> QED BY <2>1, <2>2, <2>3 DEF BlocksConserved
<1>5. ASSUME NEW r \in CacheUsers, ReleaseCache(r) PROVE BlocksConserved'
  <2> DEFINE ids == tables[r].ids
             R == ReturnedBlocks(ids)
  <2>1. /\ refCount' = [b \in Blocks |-> IF b \in R THEN 0 ELSE refCount[b] - Occurrences(b, ids)]
        /\ allocated' = allocated \ R
        /\ freeQueue' = freeQueue \o LastUse(ids) /\ r \in DOMAIN tables
    BY <1>5 DEF ReleaseCache
  <2>2. ids \in Seq(Blocks)
    <3>1. tables[r] \in Tables
      BY <2>1
    <3> QED BY <3>1 DEF Tables
  <2> HIDE DEF ids
  <2>3. R \subseteq Blocks
    <3>1. ToSet(ids) \subseteq Blocks
      BY <2>2 DEF ToSet
    <3> QED BY <3>1 DEF ReturnedBlocks
  <2>4. LastUse(ids) \in Seq(Blocks) /\ IsInjective(LastUse(ids)) /\ ToSet(LastUse(ids)) = R \cap allocated
    <3>1. /\ LastUse(ids) \in Seq(Blocks) /\ IsInjective(LastUse(ids))
          /\ ToSet(LastUse(ids)) = {b \in R : refCount[b] > 0}
      BY <2>2, BlocksReturned
    <3>2. \A b \in Blocks : b \in allocated <=> refCount[b] > 0
      BY DEF BlocksConserved
    <3> HIDE DEF R
    <3> QED BY <2>3, <3>1, <3>2
  <2>5. IsInjective(freeQueue) /\ ToSet(freeQueue) = Blocks \ allocated
    BY DEF BlocksConserved
  <2>6. /\ ToSet(freeQueue') = ToSet(freeQueue) \cup ToSet(LastUse(ids)) /\ IsInjective(freeQueue')
    <3>1. ToSet(freeQueue) \cap ToSet(LastUse(ids)) = {}
      BY <2>4, <2>5
    <3> QED BY <2>1, <2>4, <2>5, <3>1, PushLeft
  <2>7. ToSet(freeQueue') = Blocks \ allocated'
    <3> HIDE DEF R
    <3> QED BY <2>1, <2>3, <2>4, <2>5, <2>6
  <2>8. ASSUME NEW b \in Blocks PROVE b \in allocated' <=> refCount'[b] > 0
    <3>1. refCount[b] \in Nat /\ Occurrences(b, ids) \in Nat /\ (b \in allocated <=> refCount[b] > 0)
          /\ (b \notin ToSet(ids) => Occurrences(b, ids) = 0)
      BY <2>2, OccurrencesArePlaces DEF BlocksConserved
    <3>2. refCount'[b] = IF b \in R THEN 0 ELSE refCount[b] - Occurrences(b, ids)
      BY <2>1
    <3>3. CASE b \in R
      BY <2>1, <3>2, <3>3
    <3>4. CASE b \notin R
      <4>1. b \in ToSet(ids) => ~(refCount[b] <= Occurrences(b, ids))
        BY <3>4 DEF ReturnedBlocks
      <4> HIDE DEF R
      <4> QED BY <2>1, <3>1, <3>2, <3>4, <4>1
    <3> QED BY <3>3, <3>4
  <2> QED BY <2>6, <2>7, <2>8 DEF BlocksConserved
<1>6. ASSUME NEW r \in CacheUsers, NEW q \in CacheUsers, ForkCache(r, q) PROVE BlocksConserved'
  <2>1. UNCHANGED <<freeQueue, allocated>>
        /\ refCount' = [b \in Blocks |-> IF b \in allocated
                              THEN refCount[b] + Occurrences(b, tables[r].ids) ELSE refCount[b]]
        /\ r \in DOMAIN tables
    BY <1>6 DEF ForkCache
  <2>2. tables[r].ids \in Seq(Blocks)
    <3>1. tables[r] \in Tables
      BY <2>1
    <3> QED BY <3>1 DEF Tables
  <2>3. ASSUME NEW b \in Blocks PROVE b \in allocated' <=> refCount'[b] > 0
    <3>1. refCount[b] \in Nat /\ Occurrences(b, tables[r].ids) \in Nat
          /\ (b \in allocated <=> refCount[b] > 0)
      BY <2>2, OccurrencesArePlaces DEF BlocksConserved
    <3> QED BY <2>1, <3>1
  <2> QED BY <2>1, <2>3 DEF BlocksConserved
<1>7. ASSUME CowStep PROVE BlocksConserved'
  <2> DEFINE b == tables[cowCall.r].ids[cowCall.i]
             n == Head(freeQueue)
  <2>1. CASE b \in allocated /\ refCount[b] > 1 /\ freeQueue # <<>>
    <3>1. /\ freeQueue' = Tail(freeQueue)
          /\ refCount' = [refCount EXCEPT ![n] = 1, ![b] = @ - 1]
          /\ allocated' = allocated \cup {n}
      BY <1>7, <2>1 DEF CowStep, AfterAllocate
    <3>2. /\ n \in Blocks /\ n \notin allocated /\ IsInjective(freeQueue')
          /\ ToSet(freeQueue') = Blocks \ (allocated \cup {n})
      BY <2>1, <3>1, BlockTaken
    <3>3. b \in Blocks /\ b # n /\ refCount[b] \in Nat
      BY <2>1, <3>2
    <3> HIDE DEF b, n
    <3>4. \A x \in Blocks : refCount'[x] = IF x = n THEN 1 ELSE IF x = b THEN refCount[b] - 1 ELSE refCount[x]
      BY <3>1, <3>3
    <3>5. refCount'[b] > 0 /\ refCount'[n] > 0
      BY <2>1, <3>2, <3>3, <3>4
    <3>6. \A x \in Blocks : x \in allocated' <=> refCount'[x] > 0
      BY <2>1, <3>1, <3>4, <3>5 DEF BlocksConserved
    <3> QED BY <3>1, <3>2, <3>6 DEF BlocksConserved
  <2>2. CASE ~(b \in allocated /\ refCount[b] > 1 /\ freeQueue # <<>>)
    BY <1>0, <1>7, <2>2 DEF CowStep
  <2> QED BY <2>1, <2>2
<1>8. ASSUME ClearPaged PROVE BlocksConserved'
  BY <1>8, AllBlocksFree DEF ClearPaged, PagedAssumption, BlocksConserved
<1>9. ASSUME \/ \E r \in CacheUsers : FetchFind(r) \/ PagedStoreBegins(r) \/ CowBegins(r)
             \/ FetchIndex \/ FetchEnds \/ StoreEnds \/ CowEnds \/ UNCHANGED pagedVars
      PROVE  UNCHANGED <<freeQueue, refCount, allocated>>
  BY <1>9 DEF FetchFind, PagedStoreBegins, CowBegins, FetchIndex, FetchEnds, StoreEnds, CowEnds,
              pagedVars, managerVars
<1> QED BY <1>0, <1>2, <1>3, <1>4, <1>5, <1>6, <1>7, <1>8, <1>9 DEF PagedNext

\* All blocks are free at first.
LEMMA ConservedInit ==
  ASSUME NBlocks \in Nat, PagedInit
  PROVE  BlocksConserved
<1>1. IsInjective(freeQueue) /\ ToSet(freeQueue) = Blocks
  BY AllBlocksFree DEF PagedInit
<1>2. \A b \in Blocks : b \in allocated <=> refCount[b] > 0
  BY DEF PagedInit
<1>3. allocated = {}
  BY DEF PagedInit
<1> QED BY <1>1, <1>2, <1>3 DEF BlocksConserved

\* A block is free or in use, counted and never twice in the queue, at any moment.
THEOREM BlocksAreConserved ==
  PagedSpec => []BlocksConserved
<1>1. PagedInit => PagedTyped /\ BlocksConserved
  BY PagedAssumption, PagedTypedInit, ConservedInit DEF PagedAssumption
<1>2. PagedTyped /\ BlocksConserved /\ [PagedNext]_pagedVars => PagedTyped' /\ BlocksConserved'
  BY PagedAssumption, PagedTypedStep, ConservedStep
<1> QED BY <1>1, <1>2, PTL DEF PagedSpec

--------------------------------------------------------------------------------
(* What is under way is about a request whose table is there.                *)

\* The places of a block in the block tables t.
LEMMA InPlaces ==
  ASSUME NEW t, NEW b
  PROVE  /\ \A r \in DOMAIN t : \A i \in DOMAIN t[r].ids :
              t[r].ids[i] = b <=> <<r, i>> \in PlacesIn(t, b)
         /\ \A x \in PlacesIn(t, b) : \E r \in DOMAIN t : \E i \in DOMAIN t[r].ids :
              x = <<r, i>> /\ t[r].ids[i] = b
<1>1. ASSUME NEW x \in PlacesIn(t, b)
      PROVE  \E r \in DOMAIN t : \E i \in DOMAIN t[r].ids : x = <<r, i>> /\ t[r].ids[i] = b
  <2>1. PICK r \in DOMAIN t : x \in {r} \X {i \in DOMAIN t[r].ids : t[r].ids[i] = b}
    BY DEF PlacesIn
  <2>2. PICK i \in {i \in DOMAIN t[r].ids : t[r].ids[i] = b} : x = <<r, i>>
    BY <2>1
  <2> QED BY <2>2
<1>2. ASSUME NEW r \in DOMAIN t, NEW i \in DOMAIN t[r].ids, t[r].ids[i] = b
      PROVE  <<r, i>> \in PlacesIn(t, b)
  <2>1. <<r, i>> \in {r} \X {j \in DOMAIN t[r].ids : t[r].ids[j] = b}
    BY <1>2
  <2> QED BY <2>1 DEF PlacesIn
<1>3. ASSUME NEW r \in DOMAIN t, NEW i \in DOMAIN t[r].ids, <<r, i>> \in PlacesIn(t, b)
      PROVE  t[r].ids[i] = b
  <2>1. PICK q \in DOMAIN t : <<r, i>> \in {q} \X {j \in DOMAIN t[q].ids : t[q].ids[j] = b}
    BY <1>3 DEF PlacesIn
  <2>2. r = q /\ i \in {j \in DOMAIN t[q].ids : t[q].ids[j] = b}
    BY <2>1
  <2> QED BY <2>2
<1> QED BY <1>1, <1>2, <1>3

\* A table grows by a block: one place more for this block, none for another.
LEMMA PlacesGrow ==
  ASSUME NEW r \in DOMAIN tables, NEW k, k \notin DOMAIN tables[r].ids, DOMAIN tables' = DOMAIN tables,
         DOMAIN tables'[r].ids = DOMAIN tables[r].ids \cup {k},
         \A i \in DOMAIN tables[r].ids : tables'[r].ids[i] = tables[r].ids[i],
         \A q \in DOMAIN tables : q # r => tables'[q] = tables[q], NEW c, IsFiniteSet(PlacesIn(tables, c))
  PROVE  /\ IsFiniteSet(PlacesIn(tables', c))
         /\ c = tables'[r].ids[k] => Cardinality(PlacesIn(tables', c)) = Cardinality(PlacesIn(tables, c)) + 1
         /\ c # tables'[r].ids[k] => PlacesIn(tables', c) = PlacesIn(tables, c)
<1> DEFINE x == <<r, k>>
<1>1. PlacesIn(tables, c) \subseteq PlacesIn(tables', c)
  <2> SUFFICES ASSUME NEW y \in PlacesIn(tables, c) PROVE y \in PlacesIn(tables', c)
    OBVIOUS
  <2>1. PICK q \in DOMAIN tables : \E i \in DOMAIN tables[q].ids : y = <<q, i>> /\ tables[q].ids[i] = c
    BY InPlaces
  <2>2. PICK i \in DOMAIN tables[q].ids : y = <<q, i>> /\ tables[q].ids[i] = c
    BY <2>1
  <2>3. i \in DOMAIN tables'[q].ids /\ tables'[q].ids[i] = c
    <3>1. CASE q = r
      BY <2>2, <3>1
    <3>2. CASE q # r
      BY <2>2, <3>2
    <3> QED BY <3>1, <3>2
  <2> QED BY <2>2, <2>3, InPlaces
<1>2. ASSUME NEW y \in PlacesIn(tables', c), y # x PROVE y \in PlacesIn(tables, c)
  <2>1. PICK q \in DOMAIN tables' : \E i \in DOMAIN tables'[q].ids : y = <<q, i>> /\ tables'[q].ids[i] = c
    BY InPlaces
  <2>2. PICK i \in DOMAIN tables'[q].ids : y = <<q, i>> /\ tables'[q].ids[i] = c
    BY <2>1
  <2>3. i \in DOMAIN tables[q].ids /\ tables[q].ids[i] = c
    <3>1. CASE q = r
      BY <1>2, <2>2, <3>1
    <3>2. CASE q # r
      BY <2>2, <3>2
    <3> QED BY <3>1, <3>2
  <2> QED BY <2>2, <2>3, InPlaces
<1>3. x \in PlacesIn(tables', c) <=> c = tables'[r].ids[k]
  <2>1. r \in DOMAIN tables' /\ k \in DOMAIN tables'[r].ids
    OBVIOUS
  <2> QED BY <2>1, InPlaces
<1>4. x \notin PlacesIn(tables, c)
  <2> SUFFICES ASSUME x \in PlacesIn(tables, c) PROVE FALSE
    OBVIOUS
  <2>1. PICK q \in DOMAIN tables : \E i \in DOMAIN tables[q].ids : x = <<q, i>>
    BY InPlaces
  <2>2. PICK i \in DOMAIN tables[q].ids : x = <<q, i>>
    BY <2>1
  <2> QED BY <2>2
<1> HIDE DEF x
<1>5. CASE c = tables'[r].ids[k]
  <2>1. PlacesIn(tables', c) = PlacesIn(tables, c) \cup {x}
    BY <1>1, <1>2, <1>3, <1>5
  <2> QED BY <1>4, <1>5, <2>1, FS_AddElement
<1>6. CASE c # tables'[r].ids[k]
  BY <1>1, <1>2, <1>3, <1>6
<1> QED BY <1>5, <1>6

\* A table more: the places of a block are more by those in the new table.
LEMMA PlacesAdded ==
  ASSUME NEW t, NEW u, NEW r, r \notin DOMAIN t, DOMAIN u = DOMAIN t \cup {r},
         \A q \in DOMAIN t : u[q] = t[q], u[r].ids \in Seq(Blocks), NEW b,
         IsFiniteSet(PlacesIn(t, b)) \/ IsFiniteSet(PlacesIn(u, b))
  PROVE  /\ IsFiniteSet(PlacesIn(t, b)) /\ IsFiniteSet(PlacesIn(u, b))
         /\ Cardinality(PlacesIn(u, b)) = Cardinality(PlacesIn(t, b)) + Occurrences(b, u[r].ids)
<1> DEFINE P == {i \in DOMAIN u[r].ids : u[r].ids[i] = b}
           N == {r} \X P
<1>1. IsFiniteSet(P) /\ Cardinality(P) = Occurrences(b, u[r].ids) /\ Cardinality(P) \in Nat
  <2>1. P = PlacesTo(b, u[r].ids, Len(u[r].ids))
    BY DEF PlacesTo
  <2> HIDE DEF P
  <2> QED BY <2>1, OccurrencesArePlaces
<1>2. IsFiniteSet(N) /\ Cardinality(N) = Cardinality(P)
  <2>1. IsFiniteSet({r}) /\ Cardinality({r}) = 1
    BY FS_Singleton
  <2>2. \A k \in Nat : 1 * k = k
    OBVIOUS
  <2>3. IsFiniteSet(N) /\ Cardinality(N) = 1 * Cardinality(P)
    <3> HIDE DEF P
    <3> QED BY <1>1, <2>1, FS_Product
  <2> QED BY <1>1, <2>2, <2>3
<1>3. PlacesIn(u, b) = PlacesIn(t, b) \cup N
  <2>1. PlacesIn(t, b) = UNION {{q} \X {i \in DOMAIN u[q].ids : u[q].ids[i] = b} : q \in DOMAIN t}
    BY DEF PlacesIn
  <2> QED BY <2>1 DEF PlacesIn
<1>4. PlacesIn(t, b) \cap N = {}
  <2> SUFFICES ASSUME NEW x \in PlacesIn(t, b), x \in N PROVE FALSE
    OBVIOUS
  <2>1. PICK q \in DOMAIN t : \E i \in DOMAIN t[q].ids : x = <<q, i>>
    BY InPlaces
  <2>2. PICK i \in DOMAIN t[q].ids : x = <<q, i>>
    BY <2>1
  <2>3. PICK j \in P : x = <<r, j>>
    OBVIOUS
  <2>4. q = r
    BY <2>2, <2>3
  <2> QED BY <2>4
<1> HIDE DEF N, P
<1>5. IsFiniteSet(PlacesIn(t, b))
  <2>1. PlacesIn(t, b) \in SUBSET PlacesIn(u, b)
    BY <1>3
  <2> QED BY <2>1, FS_Subset
<1>6. IsFiniteSet(PlacesIn(u, b))
  BY <1>2, <1>3, <1>5, FS_Union, ZenonT(30)
<1>7. Cardinality(PlacesIn(u, b)) = Cardinality(PlacesIn(t, b)) + Cardinality(N) - Cardinality(PlacesIn(t, b) \cap N)
  BY <1>2, <1>3, <1>5, FS_Union
<1>8. Cardinality(PlacesIn(t, b) \cap N) = 0 /\ Cardinality(PlacesIn(t, b)) \in Nat /\ Cardinality(N) \in Nat
  BY <1>1, <1>2, <1>4, <1>5, FS_EmptySet, FS_CardinalityType
<1> QED BY <1>1, <1>2, <1>5, <1>6, <1>7, <1>8

\* A table names n in the place of b: a place moves from the one to the other.
LEMMA PlacesMoved ==
  ASSUME NEW t, NEW u, NEW r \in DOMAIN t, NEW k \in DOMAIN t[r].ids, DOMAIN u = DOMAIN t,
         NEW n, n # t[r].ids[k], DOMAIN u[r].ids = DOMAIN t[r].ids, u[r].ids[k] = n,
         \A i \in DOMAIN t[r].ids : i # k => u[r].ids[i] = t[r].ids[i],
         \A q \in DOMAIN t : q # r => u[q] = t[q], NEW c, IsFiniteSet(PlacesIn(t, c))
  PROVE  /\ IsFiniteSet(PlacesIn(u, c))
         /\ c = n => Cardinality(PlacesIn(u, c)) = Cardinality(PlacesIn(t, c)) + 1
         /\ c = t[r].ids[k] => Cardinality(PlacesIn(u, c)) = Cardinality(PlacesIn(t, c)) - 1
         /\ c # n /\ c # t[r].ids[k] => PlacesIn(u, c) = PlacesIn(t, c)
<1> DEFINE x == <<r, k>>
<1>1. ASSUME NEW y \in PlacesIn(t, c), y # x PROVE y \in PlacesIn(u, c)
  <2>1. PICK q \in DOMAIN t : \E i \in DOMAIN t[q].ids : y = <<q, i>> /\ t[q].ids[i] = c
    BY InPlaces
  <2>2. PICK i \in DOMAIN t[q].ids : y = <<q, i>> /\ t[q].ids[i] = c
    BY <2>1
  <2>3. i \in DOMAIN u[q].ids /\ u[q].ids[i] = c
    <3>1. CASE q = r
      BY <1>1, <2>2, <3>1
    <3>2. CASE q # r
      BY <2>2, <3>2
    <3> QED BY <3>1, <3>2
  <2> QED BY <2>2, <2>3, InPlaces
<1>2. ASSUME NEW y \in PlacesIn(u, c), y # x PROVE y \in PlacesIn(t, c)
  <2>1. PICK q \in DOMAIN u : \E i \in DOMAIN u[q].ids : y = <<q, i>> /\ u[q].ids[i] = c
    BY InPlaces
  <2>2. PICK i \in DOMAIN u[q].ids : y = <<q, i>> /\ u[q].ids[i] = c
    BY <2>1
  <2>3. i \in DOMAIN t[q].ids /\ t[q].ids[i] = c
    <3>1. CASE q = r
      BY <1>2, <2>2, <3>1
    <3>2. CASE q # r
      BY <2>2, <3>2
    <3> QED BY <3>1, <3>2
  <2> QED BY <2>2, <2>3, InPlaces
<1>3. x \in PlacesIn(t, c) <=> c = t[r].ids[k]
  BY InPlaces
<1>4. x \in PlacesIn(u, c) <=> c = n
  <2>1. r \in DOMAIN u /\ k \in DOMAIN u[r].ids
    OBVIOUS
  <2> QED BY <2>1, InPlaces
<1> HIDE DEF x
<1>5. CASE c = n
  <2>1. PlacesIn(u, c) = PlacesIn(t, c) \cup {x} /\ x \notin PlacesIn(t, c)
    BY <1>1, <1>2, <1>3, <1>4, <1>5
  <2>2. IsFiniteSet(PlacesIn(u, c)) /\ Cardinality(PlacesIn(u, c)) = Cardinality(PlacesIn(t, c)) + 1
    BY <2>1, FS_AddElement
  <2> QED BY <1>5, <2>2
<1>6. CASE c = t[r].ids[k]
  <2>1. PlacesIn(u, c) = PlacesIn(t, c) \ {x} /\ x \in PlacesIn(t, c)
    BY <1>1, <1>2, <1>3, <1>4, <1>6
  <2> QED BY <1>6, <2>1, FS_RemoveElement
<1>7. CASE c # n /\ c # t[r].ids[k]
  BY <1>1, <1>2, <1>3, <1>4, <1>7
<1> QED BY <1>5, <1>6, <1>7

--------------------------------------------------------------------------------
\* Where the requests of the fetch, the store and the copy under way stand.
CallsPlaced ==
  /\ fetchCall # NoCall => got[fetchCall.r].at = "new"
  /\ fetchCall.at = "index" => fetchCall.r \notin DOMAIN tables
  /\ ~pagedTorn /\ fetchCall.at = "take" => fetchCall.r \in DOMAIN tables
  /\ storeCall # NoCall => storeCall.r \notin entries /\ got[storeCall.r].at \in {"hit", "miss"}
  /\ ~pagedTorn /\ storeCall # NoCall => storeCall.r \in DOMAIN tables
  /\ \A r \in entries : got[r].at = "over"
  /\ \A r \in DOMAIN tables : got[r].at = "new" => fetchCall.at = "take" /\ fetchCall.r = r
  /\ cowCall # NoCall => /\ cowCall.r \in DOMAIN tables /\ cowCall.r \in entries
                         /\ fetchCall = NoCall /\ storeCall = NoCall

\* Nothing is under way at first.
LEMMA CallsPlacedInit ==
  ASSUME PagedInit
  PROVE  CallsPlaced
  BY DEF PagedInit, CallsPlaced, NoCall

\* What is under way keeps its place.
LEMMA CallsPlacedStep ==
  ASSUME PagedAssumption, PagedTyped, CallsPlaced, [PagedNext]_pagedVars
  PROVE  CallsPlaced'
<1>0. /\ tables \in [DOMAIN tables -> Tables] /\ DOMAIN tables \subseteq CacheUsers
      /\ DOMAIN got = CacheUsers /\ NoTable \in Tables /\ entries \subseteq CacheUsers
      /\ NoCall.at = "none" /\ NotAsked.at = "new" /\ PagedMiss.at = "miss"
      /\ fetchCall = NoCall \/ (fetchCall.r \in CacheUsers /\ fetchCall.at \in {"index", "take"})
      /\ storeCall = NoCall \/ (storeCall.r \in CacheUsers /\ storeCall.at = "find")
      /\ cowCall = NoCall \/ (cowCall.r \in CacheUsers /\ cowCall.at = "cow")
  BY DEF PagedTyped, NoTable, Tables, NoCall, NotAsked, PagedMiss, Looks, Takes, Stores, Cows
<1>1. ASSUME NEW r \in CacheUsers, FetchFind(r) PROVE CallsPlaced'
  <2>1. PICK p \in Prompts : \E n, x :
          \/ /\ tables' = DictWith(tables, r, NoTable)
             /\ fetchCall' = [at |-> "take", r |-> r, n |-> n, ids |-> x]
          \/ /\ fetchCall' = [at |-> "index", r |-> r]
             /\ UNCHANGED tables
    BY <1>1 DEF FetchFind
  <2>2. UNCHANGED <<entries, storeCall, cowCall, got, pagedTorn>> /\ got[r] = NotAsked /\ fetchCall = NoCall
        /\ cowCall = NoCall
    BY <1>1 DEF FetchFind, prefixVars, ghostVars, LockFree
  <2>3. CASE fetchCall' = [at |-> "index", r |-> r] /\ UNCHANGED tables
    <3>1. fetchCall'.at = "index" /\ fetchCall'.r = r
      BY <2>3
    <3> QED BY <1>0, <2>2, <2>3, <3>1 DEF CallsPlaced
  <2>4. ASSUME NEW n, NEW x, fetchCall' = [at |-> "take", r |-> r, n |-> n, ids |-> x],
               tables' = DictWith(tables, r, NoTable)
        PROVE  CallsPlaced'
    <3>1. fetchCall'.at = "take" /\ fetchCall'.r = r
      BY <2>4
    <3>2. DOMAIN tables' = DOMAIN tables \cup {r}
      BY <2>4 DEF DictWith
    <3> QED BY <1>0, <2>2, <3>1, <3>2 DEF CallsPlaced
  <2> QED BY <2>1, <2>3, <2>4
<1>2. ASSUME FetchIndex PROVE CallsPlaced'
  <2> DEFINE r == fetchCall.r
  <2>1. UNCHANGED <<entries, storeCall, cowCall, pagedTorn>> /\ fetchCall.at = "index" /\ cowCall = NoCall
    BY <1>2 DEF FetchIndex, prefixVars, ghostVars, LockFree
  <2>2. \/ fetchCall' = NoCall /\ got' = [got EXCEPT ![r] = PagedMiss] /\ UNCHANGED tables
        \/ \E n, x : /\ tables' = DictWith(tables, r, NoTable) /\ UNCHANGED got
                     /\ fetchCall' = [at |-> "take", r |-> r, n |-> n, ids |-> x]
    BY <1>2 DEF FetchIndex
  <2>3. r \in CacheUsers /\ got[r].at = "new" /\ r \notin DOMAIN tables
    BY <1>0, <2>1 DEF CallsPlaced
  <2>4. CASE fetchCall' = NoCall /\ got' = [got EXCEPT ![r] = PagedMiss] /\ UNCHANGED tables
    <3>1. \A q \in CacheUsers : got'[q] = IF q = r THEN PagedMiss ELSE got[q]
      BY <1>0, <2>3, <2>4
    <3> HIDE DEF r
    <3> QED BY <1>0, <2>1, <2>3, <2>4, <3>1 DEF CallsPlaced
  <2>5. ASSUME NEW n, NEW x, tables' = DictWith(tables, r, NoTable), UNCHANGED got,
               fetchCall' = [at |-> "take", r |-> r, n |-> n, ids |-> x]
        PROVE  CallsPlaced'
    <3>1. fetchCall'.at = "take" /\ fetchCall'.r = r
      BY <2>5
    <3>2. DOMAIN tables' = DOMAIN tables \cup {r}
      BY <2>5 DEF DictWith
    <3> HIDE DEF r
    <3> QED BY <1>0, <2>1, <2>3, <2>5, <3>1, <3>2 DEF CallsPlaced
  <2> QED BY <2>2, <2>4, <2>5
<1>3. ASSUME FetchTake PROVE CallsPlaced'
  <2>1. UNCHANGED <<entries, storeCall, cowCall, got, pagedTorn>> /\ fetchCall.at = "take" /\ cowCall = NoCall
        /\ fetchCall' = [fetchCall EXCEPT !.ids = Tail(@)]
    BY <1>3 DEF FetchTake, prefixVars, ghostVars, LockFree
  <2>2. DOMAIN tables' = DOMAIN tables
    BY <1>3 DEF FetchTake
  <2>3. fetchCall'.at = "take" /\ fetchCall'.r = fetchCall.r
    <3>1. fetchCall \in Takes
      BY <1>0, <2>1 DEF PagedTyped, Looks
    <3> QED BY <2>1, <3>1 DEF Takes
  <2> QED BY <1>0, <2>1, <2>2, <2>3 DEF CallsPlaced
<1>4. ASSUME FetchEnds PROVE CallsPlaced'
  <2> DEFINE r == fetchCall.r
  <2>1. UNCHANGED <<tables, entries, storeCall, cowCall, pagedTorn>> /\ fetchCall.at = "take" /\ fetchCall' = NoCall
    BY <1>4 DEF FetchEnds, managerVars, prefixVars, ghostVars
  <2>2. r \in CacheUsers /\ got[r].at = "new"
    BY <1>0, <2>1 DEF CallsPlaced
  <2>3. got'[r].at \in {"hit", "miss"} /\ \A q \in CacheUsers : q # r => got'[q] = got[q]
    <3>1. PICK c, n, k : got' = [got EXCEPT ![r] = [at |-> "hit", cached |-> c, done |-> n, kv |-> k]]
                         \/ got' = [got EXCEPT ![r] = PagedMiss]
      BY <1>4 DEF FetchEnds
    <3>2. [at |-> "hit", cached |-> c, done |-> n, kv |-> k].at = "hit"
      OBVIOUS
    <3> QED BY <1>0, <2>2, <3>1, <3>2
  <2>4. r = fetchCall.r /\ fetchCall # NoCall
    BY <1>0, <2>1
  <2>5. \A q \in DOMAIN tables : got'[q].at # "new"
    BY <1>0, <2>2, <2>3, <2>4 DEF CallsPlaced
  <2>6. /\ \A q \in entries : got'[q].at = "over"
        /\ storeCall # NoCall => got'[storeCall.r].at \in {"hit", "miss"}
    BY <1>0, <2>2, <2>3 DEF CallsPlaced
  <2> HIDE DEF r
  <2> QED BY <1>0, <2>1, <2>2, <2>4, <2>5, <2>6 DEF CallsPlaced
<1>5. ASSUME NEW r \in CacheUsers, PagedStoreBegins(r) PROVE CallsPlaced'
  <2>1. PICK all \in Prompts :
       /\ tables' = IF r \in DOMAIN tables THEN tables ELSE DictWith(tables, r, NoTable)
       /\ storeCall' = IF tables'[r].num >= Len(all) THEN NoCall
                   ELSE [at |-> "find", r |-> r, all |-> all, next |-> tables'[r].num + 1]
       /\ got' = IF storeCall' = NoCall THEN [got EXCEPT ![r] = [at |-> "over"]] ELSE got
    BY <1>5 DEF PagedStoreBegins
  <2>2. UNCHANGED <<entries, fetchCall, cowCall, pagedTorn>> /\ got[r].at \in {"hit", "miss"} /\ r \notin entries
        /\ storeCall = NoCall /\ cowCall = NoCall
    BY <1>5 DEF PagedStoreBegins, prefixVars, ghostVars, LockFree
  <2>3. DOMAIN tables' = DOMAIN tables \cup {r}
    <3>1. CASE r \in DOMAIN tables
      BY <2>1, <3>1
    <3>2. CASE r \notin DOMAIN tables
      <4>1. tables' = DictWith(tables, r, NoTable)
        BY <2>1, <3>2
      <4> QED BY <4>1 DEF DictWith
    <3> QED BY <3>1, <3>2
  <2>4. \/ storeCall' = NoCall
        \/ storeCall'.r = r /\ storeCall' # NoCall
    <3>1. CASE tables'[r].num >= Len(all)
      BY <2>1, <3>1
    <3>2. CASE ~(tables'[r].num >= Len(all))
      <4>1. storeCall' = [at |-> "find", r |-> r, all |-> all, next |-> tables'[r].num + 1]
        BY <2>1, <3>2
      <4>2. storeCall'.at = "find" /\ storeCall'.r = r
        BY <4>1
      <4> QED BY <1>0, <4>2
    <3> QED BY <3>1, <3>2
  <2>5. /\ storeCall' # NoCall => got' = got
        /\ storeCall' = NoCall => got'[r].at = "over" /\ \A q \in CacheUsers : q # r => got'[q] = got[q]
    <3>1. [at |-> "over"].at = "over"
      OBVIOUS
    <3> QED BY <1>0, <2>1, <3>1
  <2> QED BY <1>0, <2>2, <2>3, <2>4, <2>5 DEF CallsPlaced
<1>6. ASSUME storeCall.at = "find", storeCall' = [storeCall EXCEPT !.next = @ + 1], DOMAIN tables' = DOMAIN tables,
             UNCHANGED <<entries, fetchCall, cowCall, got, pagedTorn>>
      PROVE  CallsPlaced'
  <2>1. storeCall'.r = storeCall.r /\ storeCall'.at = "find"
    <3>1. storeCall \in Stores
      BY <1>0, <1>6 DEF PagedTyped
    <3> QED BY <1>6, <3>1 DEF Stores
  <2> QED BY <1>0, <1>6, <2>1 DEF CallsPlaced
<1>7. ASSUME StoreReuses \/ StoreAllocates PROVE CallsPlaced'
  <2>1. DOMAIN tables' = DOMAIN tables
    BY <1>7 DEF StoreReuses, StoreAllocates, AddToTable
  <2> QED BY <1>6, <1>7, <2>1 DEF StoreReuses, StoreAllocates, prefixVars, ghostVars
<1>8. ASSUME StoreEnds PROVE CallsPlaced'
  <2> DEFINE r == storeCall.r
  <2>1. UNCHANGED <<tables, fetchCall, cowCall, pagedTorn>> /\ storeCall' = NoCall /\ storeCall.at = "find"
        /\ entries' = entries \cup {r} /\ got' = [got EXCEPT ![r] = [at |-> "over"]]
    BY <1>8 DEF StoreEnds, managerVars, ghostVars
  <2>2. r \in CacheUsers /\ got[r].at \in {"hit", "miss"}
    BY <1>0, <2>1 DEF CallsPlaced
  <2>3. got'[r].at = "over" /\ \A q \in CacheUsers : q # r => got'[q] = got[q]
    <3>1. [at |-> "over"].at = "over"
      OBVIOUS
    <3> QED BY <1>0, <2>1, <2>2, <3>1
  <2> HIDE DEF r
  <2> QED BY <1>0, <2>1, <2>2, <2>3 DEF CallsPlaced
<1>9. ASSUME NEW r \in CacheUsers, ReleaseCache(r) PROVE CallsPlaced'
  <2>1. UNCHANGED <<fetchCall, storeCall, cowCall, got, pagedTorn>> /\ r \in entries
        /\ DOMAIN tables' = DOMAIN tables \ {r} /\ entries' = entries \ {r} /\ cowCall = NoCall
    BY <1>9 DEF ReleaseCache, callerVars, LockFree, DictWithout
  <2> QED BY <1>0, <2>1 DEF CallsPlaced
<1>10. ASSUME NEW r \in CacheUsers, NEW q \in CacheUsers, ForkCache(r, q) PROVE CallsPlaced'
  <2>1. UNCHANGED <<fetchCall, storeCall, cowCall, pagedTorn>> /\ fetchCall = NoCall /\ storeCall = NoCall
        /\ cowCall = NoCall /\ entries' = entries \cup {q} /\ got' = [got EXCEPT ![q] = [at |-> "over"]]
        /\ tables' = DictWith(tables, q, tables[r])
    BY <1>10 DEF ForkCache, LockFree, ghostVars
  <2>2. DOMAIN tables' = DOMAIN tables \cup {q}
    BY <2>1 DEF DictWith
  <2>3. got'[q].at = "over" /\ \A x \in CacheUsers : x # q => got'[x] = got[x]
    <3>1. [at |-> "over"].at = "over"
      OBVIOUS
    <3> QED BY <1>0, <2>1, <3>1
  <2> QED BY <1>0, <2>1, <2>2, <2>3 DEF CallsPlaced
<1>11. ASSUME NEW r \in CacheUsers, CowBegins(r) PROVE CallsPlaced'
  <2>1. UNCHANGED <<tables, entries, fetchCall, storeCall, got, pagedTorn>> /\ fetchCall = NoCall /\ storeCall = NoCall
        /\ cowCall' = [at |-> "cow", r |-> r, i |-> 1] /\ r \in entries /\ r \in DOMAIN tables
    BY <1>11 DEF CowBegins, managerVars, prefixVars, ghostVars
  <2>2. cowCall'.r = r
    BY <2>1
  <2> QED BY <1>0, <2>1, <2>2 DEF CallsPlaced
<1>12. ASSUME CowStep PROVE CallsPlaced'
  <2>1. UNCHANGED <<entries, fetchCall, storeCall, got, pagedTorn>> /\ DOMAIN tables' = DOMAIN tables
        /\ cowCall' = [cowCall EXCEPT !.i = @ + 1] /\ cowCall.at = "cow"
    BY <1>12 DEF CowStep, prefixVars, ghostVars
  <2>2. cowCall'.r = cowCall.r /\ cowCall # NoCall
    <3>1. cowCall \in Cows
      BY <1>0, <2>1 DEF PagedTyped
    <3> QED BY <1>0, <2>1, <3>1 DEF Cows
  <2> QED BY <1>0, <2>1, <2>2 DEF CallsPlaced
<1>13. ASSUME CowEnds PROVE CallsPlaced'
  BY <1>0, <1>13 DEF CowEnds, managerVars, prefixVars, ghostVars, CallsPlaced
<1>14. ASSUME ClearPaged PROVE CallsPlaced'
  <2>1. DOMAIN tables' = {}
    BY <1>14 DEF ClearPaged
  <2> QED BY <1>0, <1>14, <2>1 DEF ClearPaged, callerVars, LockFree, CallsPlaced
<1>15. CASE UNCHANGED pagedVars
  BY <1>15 DEF pagedVars, managerVars, prefixVars, callerVars, ghostVars, CallsPlaced
<1> QED BY <1>1, <1>2, <1>3, <1>4, <1>5, <1>7, <1>8, <1>9, <1>10, <1>11, <1>12, <1>13, <1>14, <1>15
        DEF PagedNext

--------------------------------------------------------------------------------
(* Reference counts are exact.                                               *)

\* A count is that of the places, of which there are finitely many.
RefsHeld ==
  ~pagedTorn => \A b \in Blocks : /\ IsFiniteSet(PlacesIn(tables, b))
                                  /\ refCount[b] = Cardinality(PlacesIn(tables, b))

\* Where there is no block table there is no place.
LEMMA NoPlaces ==
  ASSUME NEW t, DOMAIN t = {}, NEW b
  PROVE  IsFiniteSet(PlacesIn(t, b)) /\ Cardinality(PlacesIn(t, b)) = 0
<1>1. PlacesIn(t, b) = {}
  BY DEF PlacesIn
<1> QED BY <1>1, FS_EmptySet

\* A request that gets an empty table refers to no block.
LEMMA EmptyTableGiven ==
  ASSUME tables \in [DOMAIN tables -> Tables], DOMAIN tables \subseteq CacheUsers,
         NEW r \in CacheUsers, r \notin DOMAIN tables, NEW u, u = DictWith(tables, r, NoTable),
         NEW b, IsFiniteSet(PlacesIn(tables, b))
  PROVE  IsFiniteSet(PlacesIn(u, b)) /\ Cardinality(PlacesIn(u, b)) = Cardinality(PlacesIn(tables, b))
<1>1. NoTable \in Tables /\ NoTable.ids = <<>> /\ NoTable.ids \in Seq(Blocks)
  BY DEF NoTable, Tables
<1>2. DOMAIN u = DOMAIN tables \cup {r} /\ u[r] = NoTable /\ \A q \in DOMAIN tables : u[q] = tables[q]
  BY DEF DictWith
<1>3. Occurrences(b, NoTable.ids) = 0
  <2>1. b \notin ToSet(NoTable.ids)
    BY <1>1 DEF ToSet
  <2> QED BY <1>1, <2>1, OccurrencesArePlaces
<1>4. /\ IsFiniteSet(PlacesIn(u, b))
      /\ Cardinality(PlacesIn(u, b)) = Cardinality(PlacesIn(tables, b)) + Occurrences(b, u[r].ids)
  <2>1. u[r].ids \in Seq(Blocks)
    BY <1>1, <1>2
  <2> QED BY <1>2, <2>1, PlacesAdded
<1>5. Cardinality(PlacesIn(tables, b)) \in Nat
  BY FS_CardinalityType
<1> QED BY <1>2, <1>3, <1>4, <1>5

\* One place more, and a reference more to what stands there.
LEMMA PlacesCounted ==
  ASSUME RefsHeld, ~pagedTorn, NEW r \in DOMAIN tables, NEW k, k \notin DOMAIN tables[r].ids,
         DOMAIN tables' = DOMAIN tables, DOMAIN tables'[r].ids = DOMAIN tables[r].ids \cup {k},
         \A i \in DOMAIN tables[r].ids : tables'[r].ids[i] = tables[r].ids[i],
         \A q \in DOMAIN tables : q # r => tables'[q] = tables[q],
         NEW b, b = tables'[r].ids[k], refCount'[b] = Cardinality(PlacesIn(tables, b)) + 1,
         \A x \in Blocks : x # b => refCount'[x] = refCount[x]
  PROVE  RefsHeld'
<1>1. ASSUME NEW c \in Blocks
      PROVE  IsFiniteSet(PlacesIn(tables', c)) /\ refCount'[c] = Cardinality(PlacesIn(tables', c))
  <2>1. IsFiniteSet(PlacesIn(tables, c)) /\ refCount[c] = Cardinality(PlacesIn(tables, c))
    BY DEF RefsHeld
  <2>2. /\ IsFiniteSet(PlacesIn(tables', c))
        /\ c = tables'[r].ids[k] => Cardinality(PlacesIn(tables', c)) = Cardinality(PlacesIn(tables, c)) + 1
        /\ c # tables'[r].ids[k] => PlacesIn(tables', c) = PlacesIn(tables, c)
    BY <2>1, PlacesGrow
  <2> QED BY <2>1, <2>2
<1> QED BY <1>1 DEF RefsHeld

\* The block b is added to the table of r.
TableGrown(r, b) == tables' = [tables EXCEPT ![r].ids = Append(@, b), ![r].num = @ + 1]

\* One more reference, and one more place in the table of r.
LEMMA RefsGrow ==
  ASSUME PagedTyped, RefsHeld, ~pagedTorn, NEW r \in DOMAIN tables, NEW b \in Blocks,
         TableGrown(r, b),
         refCount' \in [Blocks -> Nat], refCount'[b] = Cardinality(PlacesIn(tables, b)) + 1,
         \A x \in Blocks : x # b => refCount'[x] = refCount[x]
  PROVE  RefsHeld'
<1>1. tables \in [DOMAIN tables -> Tables]
  BY DEF PagedTyped
<1>2. /\ DOMAIN tables' = DOMAIN tables /\ tables'[r].ids = Append(tables[r].ids, b)
      /\ tables[r].ids \in Seq(Blocks)
      /\ \A q \in DOMAIN tables : q # r => tables'[q] = tables[q]
  <2>3. DOMAIN tables' = DOMAIN tables /\ \A q \in DOMAIN tables : q # r => tables'[q] = tables[q]
    BY <1>1, TableGrows DEF TableGrown
  <2>1. tables[r] \in Tables
    BY <1>1
  <2>2. tables'[r] = [ids |-> Append(tables[r].ids, b), num |-> tables[r].num + 1]
    BY <1>1, TableGrows DEF TableGrown
  <2> QED BY <2>1, <2>2, <2>3 DEF Tables
<1> DEFINE k == Len(tables[r].ids) + 1
<1>4. /\ k \notin DOMAIN tables[r].ids /\ DOMAIN tables'[r].ids = DOMAIN tables[r].ids \cup {k}
      /\ tables'[r].ids[k] = b /\ \A i \in DOMAIN tables[r].ids : tables'[r].ids[i] = tables[r].ids[i]
  <2> DEFINE s == tables[r].ids
  <2>1. /\ Len(s) \in Nat /\ Len(Append(s, b)) = Len(s) + 1 /\ DOMAIN s = 1..Len(s)
        /\ Append(s, b) \in Seq(Blocks) /\ DOMAIN Append(s, b) = 1..(Len(s) + 1)
        /\ \A i \in 1..Len(s) : Append(s, b)[i] = s[i]
        /\ Append(s, b)[Len(s) + 1] = b
    BY <1>2, AppendPlaces
  <2>2. tables'[r].ids = Append(s, b)
    BY <1>2
  <2> HIDE DEF s
  <2>3. k = Len(s) + 1 /\ s = tables[r].ids
    BY DEF s
  <2> HIDE DEF k
  <2>4. k \in Nat /\ k \notin 1..Len(s) /\ 1..(Len(s) + 1) = 1..Len(s) \cup {k}
    BY <2>1, <2>3
  <2>5. /\ k \notin DOMAIN tables[r].ids /\ DOMAIN tables'[r].ids = DOMAIN tables[r].ids \cup {k}
    BY <2>1, <2>2, <2>3, <2>4
  <2>6. /\ tables'[r].ids[k] = b /\ \A i \in DOMAIN tables[r].ids : tables'[r].ids[i] = tables[r].ids[i]
    BY <2>1, <2>2, <2>3
  <2> QED BY <2>5, <2>6
<1> HIDE DEF k
<1>3. b = tables'[r].ids[k]
  BY <1>4
<1> QED BY <1>2, <1>3, <1>4, PlacesCounted, SMTT(30)

\* Every step keeps the counts.
LEMMA RefsStep ==
  ASSUME PagedAssumption, PagedTyped, BlocksConserved, CallsPlaced, RefsHeld, [PagedNext]_pagedVars
  PROVE  RefsHeld'
<1>0. /\ tables \in [DOMAIN tables -> Tables] /\ DOMAIN tables \subseteq CacheUsers
      /\ refCount \in [Blocks -> Nat] /\ refCount' \in [Blocks -> Nat]
      /\ NoCall.at = "none" /\ NotAsked.at = "new"
  <2>1. PagedTyped'
    BY PagedTypedStep
  <2> QED BY <2>1 DEF PagedTyped, NoCall, NotAsked
<1> SUFFICES ASSUME ~pagedTorn' PROVE RefsHeld'
  BY DEF RefsHeld
<1>a. ~pagedTorn
  BY DEF PagedNext, FetchFind, PagedStoreBegins, ReleaseCache, CowBegins, ForkCache, FetchIndex, FetchTake,
         FetchEnds, StoreReuses, StoreAllocates, StoreEnds, CowStep, CowEnds, ClearPaged,
         pagedVars, ghostVars
<1>b. \A b \in Blocks : /\ IsFiniteSet(PlacesIn(tables, b)) /\ refCount[b] = Cardinality(PlacesIn(tables, b))
  BY <1>a DEF RefsHeld
<1>c. ASSUME UNCHANGED <<tables, refCount>> PROVE RefsHeld'
  BY <1>b, <1>c DEF RefsHeld
<1>d. ASSUME NEW r \in CacheUsers, r \notin DOMAIN tables, tables' = DictWith(tables, r, NoTable),
             UNCHANGED refCount
      PROVE  RefsHeld'
  BY <1>0, <1>b, <1>d, EmptyTableGiven DEF RefsHeld
<1>1. ASSUME NEW r \in CacheUsers, FetchFind(r) PROVE RefsHeld'
  <2>1. tables' = DictWith(tables, r, NoTable) \/ UNCHANGED tables
    BY <1>1 DEF FetchFind
  <2>2. r \notin DOMAIN tables /\ UNCHANGED refCount
    BY <1>0, <1>1 DEF FetchFind, CallsPlaced
  <2> QED BY <1>c, <1>d, <2>1, <2>2
<1>2. ASSUME FetchIndex PROVE RefsHeld'
  <2>1. tables' = DictWith(tables, fetchCall.r, NoTable) \/ UNCHANGED tables
    BY <1>2 DEF FetchIndex
  <2>2. fetchCall.r \notin DOMAIN tables /\ UNCHANGED refCount /\ fetchCall.r \in CacheUsers
    BY <1>0, <1>2 DEF FetchIndex, CallsPlaced, PagedTyped, Looks, Takes
  <2> QED BY <1>c, <1>d, <2>1, <2>2
<1>3. ASSUME FetchTake PROVE RefsHeld'
  <2> DEFINE b == Head(fetchCall.ids)
             r == fetchCall.r
  <2>1. CASE b \in allocated
    <3>1. /\ refCount' = [refCount EXCEPT ![b] = @ + 1]
          /\ tables' = IF r \in DOMAIN tables
                       THEN [tables EXCEPT ![r].ids = Append(@, b), ![r].num = @ + 1] ELSE tables
      BY <1>3, <2>1 DEF FetchTake
    <3>2. r \in DOMAIN tables
      BY <1>3, <1>a DEF FetchTake, CallsPlaced
    <3>3. b \in Blocks
      BY <2>1 DEF PagedTyped
    <3>4. refCount'[b] = refCount[b] + 1 /\ \A x \in Blocks : x # b => refCount'[x] = refCount[x]
      BY <1>0, <3>1, <3>3
    <3>5. refCount'[b] = Cardinality(PlacesIn(tables, b)) + 1
      BY <1>b, <3>3, <3>4
    <3>6. tables' = [tables EXCEPT ![r].ids = Append(@, b), ![r].num = @ + 1]
      BY <3>1, <3>2
    <3> HIDE DEF b, r
    <3> QED BY <1>0, <1>a, <3>2, <3>3, <3>4, <3>5, <3>6, RefsGrow DEF TableGrown
  <2>2. CASE b \notin allocated
    BY <1>3, <1>c, <2>2 DEF FetchTake
  <2> QED BY <2>1, <2>2
<1>4. ASSUME NEW r \in CacheUsers, PagedStoreBegins(r) PROVE RefsHeld'
  <2>1. UNCHANGED refCount /\ tables' = IF r \in DOMAIN tables THEN tables ELSE DictWith(tables, r, NoTable)
    BY <1>4 DEF PagedStoreBegins
  <2>2. CASE r \in DOMAIN tables
    BY <1>c, <2>1, <2>2
  <2>3. CASE r \notin DOMAIN tables
    BY <1>d, <2>1, <2>3
  <2> QED BY <2>2, <2>3
<1>5. ASSUME storeCall.at = "find", NEW b \in Blocks, AddToTable(b)
      PROVE  /\ storeCall.r \in DOMAIN tables
             /\ tables' = [tables EXCEPT ![storeCall.r].ids = Append(@, b), ![storeCall.r].num = @ + 1]
  <2>1. storeCall.r \in DOMAIN tables
    BY <1>0, <1>5, <1>a DEF CallsPlaced
  <2> QED BY <1>5, <2>1 DEF AddToTable
<1>6. ASSUME StoreReuses PROVE RefsHeld'
  <2> DEFINE b == hashToBlock[LegacyHash[NextChunk]]
  <2>1. /\ b \in allocated /\ refCount' = [refCount EXCEPT ![b] = @ + 1] /\ AddToTable(b) /\ storeCall.at = "find"
    BY <1>6 DEF StoreReuses, FoundChunk
  <2>2. b \in Blocks
    BY <2>1 DEF PagedTyped
  <2> HIDE DEF b
  <2>3. refCount'[b] = refCount[b] + 1 /\ \A x \in Blocks : x # b => refCount'[x] = refCount[x]
    BY <1>0, <2>1, <2>2
  <2>4. refCount'[b] = Cardinality(PlacesIn(tables, b)) + 1
    BY <1>b, <2>2, <2>3
  <2> QED BY <1>0, <1>5, <1>a, <2>1, <2>2, <2>3, <2>4, RefsGrow, ZenonT(30) DEF TableGrown
<1>7. ASSUME StoreAllocates PROVE RefsHeld'
  <2> DEFINE b == Head(freeQueue)
  <2>1. /\ freeQueue # <<>> /\ refCount' = [refCount EXCEPT ![b] = 1] /\ AddToTable(b) /\ storeCall.at = "find"
    BY <1>7 DEF StoreAllocates
  <2>2. b \in Blocks /\ b \notin allocated
    BY <2>1, BlockTaken DEF PagedTyped
  <2> HIDE DEF b
  <2>3. refCount[b] = 0
    BY <1>0, <2>2 DEF BlocksConserved
  <2>4. refCount'[b] = 1 /\ \A x \in Blocks : x # b => refCount'[x] = refCount[x]
    BY <1>0, <2>1, <2>2
  <2>5. refCount'[b] = Cardinality(PlacesIn(tables, b)) + 1
    BY <1>b, <2>2, <2>3, <2>4
  <2> QED BY <1>0, <1>5, <1>a, <2>1, <2>2, <2>4, <2>5, RefsGrow, ZenonT(30) DEF TableGrown
<1>8. ASSUME NEW r \in CacheUsers, ReleaseCache(r) PROVE RefsHeld'
  <2> DEFINE ids == tables[r].ids
  <2>1. /\ refCount' = [b \in Blocks |-> IF b \in ReturnedBlocks(ids) THEN 0
                                         ELSE refCount[b] - Occurrences(b, ids)]
        /\ r \in DOMAIN tables /\ tables' = DictWithout(tables, r)
    BY <1>8 DEF ReleaseCache
  <2>2. ids \in Seq(Blocks)
    <3>1. tables[r] \in Tables
      BY <1>0, <2>1
    <3> QED BY <3>1 DEF Tables
  <2>3. /\ r \notin DOMAIN tables' /\ DOMAIN tables = DOMAIN tables' \cup {r}
        /\ \A q \in DOMAIN tables' : tables[q] = tables'[q]
    BY <2>1 DEF DictWithout
  <2>4. ASSUME NEW b \in Blocks
        PROVE  IsFiniteSet(PlacesIn(tables', b)) /\ refCount'[b] = Cardinality(PlacesIn(tables', b))
    <3>1. /\ IsFiniteSet(PlacesIn(tables', b))
          /\ Cardinality(PlacesIn(tables, b)) = Cardinality(PlacesIn(tables', b)) + Occurrences(b, ids)
      BY <1>b, <2>2, <2>3, PlacesAdded
    <3>2. Cardinality(PlacesIn(tables', b)) \in Nat /\ Occurrences(b, ids) \in Nat
      BY <2>2, <3>1, FS_CardinalityType, OccurrencesArePlaces
    <3>3. refCount[b] = Cardinality(PlacesIn(tables', b)) + Occurrences(b, ids)
      BY <1>b, <3>1
    <3> HIDE DEF ids
    <3>4. CASE b \in ReturnedBlocks(ids)
      <4>1. refCount[b] <= Occurrences(b, ids) /\ refCount'[b] = 0
        BY <2>1, <3>4 DEF ReturnedBlocks
      <4> QED BY <3>1, <3>2, <3>3, <4>1
    <3>5. CASE b \notin ReturnedBlocks(ids)
      <4>1. refCount'[b] = refCount[b] - Occurrences(b, ids)
        BY <2>1, <3>5
      <4> QED BY <3>1, <3>2, <3>3, <4>1
    <3> QED BY <3>4, <3>5
  <2> QED BY <2>4 DEF RefsHeld
<1>9. ASSUME NEW r \in CacheUsers, NEW q \in CacheUsers, ForkCache(r, q) PROVE RefsHeld'
  <2> DEFINE ids == tables[r].ids
  <2>1. /\ refCount' = [b \in Blocks |-> IF b \in allocated
                              THEN refCount[b] + Occurrences(b, ids) ELSE refCount[b]]
        /\ tables' = DictWith(tables, q, tables[r]) /\ r \in DOMAIN tables
        /\ got[q] = NotAsked /\ fetchCall = NoCall
    BY <1>9 DEF ForkCache
  <2>2. ids \in Seq(Blocks)
    <3>1. tables[r] \in Tables
      BY <1>0, <2>1
    <3> QED BY <3>1 DEF Tables
  <2>3. q \notin DOMAIN tables
    BY <1>0, <2>1 DEF CallsPlaced
  <2>4. DOMAIN tables' = DOMAIN tables \cup {q} /\ tables'[q] = tables[r]
        /\ \A x \in DOMAIN tables : tables'[x] = tables[x]
    BY <2>1, <2>3 DEF DictWith
  <2>5. ASSUME NEW b \in Blocks
        PROVE  IsFiniteSet(PlacesIn(tables', b)) /\ refCount'[b] = Cardinality(PlacesIn(tables', b))
    <3>1. /\ IsFiniteSet(PlacesIn(tables', b))
          /\ Cardinality(PlacesIn(tables', b)) = Cardinality(PlacesIn(tables, b)) + Occurrences(b, ids)
      BY <1>b, <2>2, <2>3, <2>4, PlacesAdded
    <3>2. Occurrences(b, ids) \in Nat /\ (b \notin ToSet(ids) => Occurrences(b, ids) = 0)
      BY <2>2, OccurrencesArePlaces
    <3>3. CASE b \in allocated
      BY <1>b, <2>1, <3>1, <3>3
    <3>4. CASE b \notin allocated
      <4>1. refCount'[b] = refCount[b] /\ refCount[b] = 0
        BY <1>0, <2>1, <3>4 DEF BlocksConserved
      <4>2. PlacesIn(tables, b) = {}
        BY <1>b, <4>1, FS_EmptySet
      <4>3. b \notin ToSet(ids)
        <5> SUFFICES ASSUME NEW i \in DOMAIN ids, ids[i] = b PROVE FALSE
          BY DEF ToSet
        <5>1. <<r, i>> \in PlacesIn(tables, b)
          BY <2>1, InPlaces
        <5> QED BY <4>2, <5>1
      <4> QED BY <1>b, <3>1, <3>2, <4>1, <4>3
    <3> QED BY <3>3, <3>4
  <2> QED BY <2>5 DEF RefsHeld
<1>10. ASSUME CowStep PROVE RefsHeld'
  <2> DEFINE r == cowCall.r
             k == cowCall.i
             b == tables[r].ids[k]
             n == Head(freeQueue)
  <2>1. CASE b \in allocated /\ refCount[b] > 1 /\ freeQueue # <<>>
    <3>1. /\ refCount' = [refCount EXCEPT ![n] = 1, ![b] = @ - 1]
          /\ tables' = [tables EXCEPT ![r].ids[k] = n]
      BY <1>10, <2>1 DEF CowStep
    <3>2. n \in Blocks /\ n \notin allocated
      BY <2>1, BlockTaken DEF PagedTyped
    <3>3. b \in Blocks /\ b # n /\ refCount[n] = 0
      BY <1>0, <2>1, <3>2 DEF PagedTyped, BlocksConserved
    <3>4. r \in DOMAIN tables /\ k \in Nat \ {0} /\ k <= Len(tables[r].ids)
      BY <1>0, <1>10 DEF CowStep, CallsPlaced, PagedTyped, Cows
    <3>5. tables[r] \in Tables /\ tables[r].ids \in Seq(Blocks) /\ k \in DOMAIN tables[r].ids
      BY <1>0, <3>4 DEF Tables
    <3>6. /\ DOMAIN tables' = DOMAIN tables /\ tables'[r].ids = [tables[r].ids EXCEPT ![k] = n]
          /\ \A q \in DOMAIN tables : q # r => tables'[q] = tables[q]
      <4>1. tables'[r] = [tables[r] EXCEPT !.ids[k] = n]
        BY <3>1, <3>4
      <4>2. tables'[r].ids = [tables[r].ids EXCEPT ![k] = n]
        BY <3>5, <4>1 DEF Tables
      <4> QED BY <3>1, <4>2
    <3> HIDE DEF r, k, n
    <3>7. /\ DOMAIN tables'[r].ids = DOMAIN tables[r].ids /\ tables'[r].ids[k] = n
          /\ \A i \in DOMAIN tables[r].ids : i # k => tables'[r].ids[i] = tables[r].ids[i]
      BY <3>5, <3>6
    <3>8. ASSUME NEW c \in Blocks
          PROVE  IsFiniteSet(PlacesIn(tables', c)) /\ refCount'[c] = Cardinality(PlacesIn(tables', c))
      <4>1. IsFiniteSet(PlacesIn(tables, c)) /\ refCount[c] = Cardinality(PlacesIn(tables, c))
        BY <1>b
      <4>2. /\ IsFiniteSet(PlacesIn(tables', c))
            /\ c = n => Cardinality(PlacesIn(tables', c)) = Cardinality(PlacesIn(tables, c)) + 1
            /\ c = b => Cardinality(PlacesIn(tables', c)) = Cardinality(PlacesIn(tables, c)) - 1
            /\ c # n /\ c # b => PlacesIn(tables', c) = PlacesIn(tables, c)
        BY <3>3, <3>4, <3>5, <3>6, <3>7, <4>1, PlacesMoved, SMTT(60)
      <4> HIDE DEF b
      <4>3. refCount'[c] = IF c = n THEN 1 ELSE IF c = b THEN refCount[b] - 1 ELSE refCount[c]
        BY <1>0, <3>1, <3>2, <3>3
      <4> QED BY <3>3, <4>1, <4>2, <4>3
    <3> QED BY <3>8 DEF RefsHeld
  <2>2. CASE ~(b \in allocated /\ refCount[b] > 1 /\ freeQueue # <<>>)
    BY <1>10, <1>c, <2>2 DEF CowStep
  <2> QED BY <2>1, <2>2
<1>11. ASSUME ClearPaged PROVE RefsHeld'
  <2>1. DOMAIN tables' = {} /\ \A b \in Blocks : refCount'[b] = 0
    BY <1>11 DEF ClearPaged
  <2> QED BY <2>1, NoPlaces DEF RefsHeld
<1>12. ASSUME \/ \E r \in CacheUsers : CowBegins(r)
              \/ FetchEnds \/ StoreEnds \/ CowEnds \/ UNCHANGED pagedVars
       PROVE  UNCHANGED <<tables, refCount>>
  BY <1>12 DEF CowBegins, FetchEnds, StoreEnds, CowEnds, pagedVars, managerVars
<1> QED BY <1>c, <1>1, <1>2, <1>3, <1>4, <1>6, <1>7, <1>8, <1>9, <1>10, <1>11, <1>12 DEF PagedNext

\* A reference count is the number of places in block tables that name the block, unless a
\* clear came in the middle of a fetch or a store.
THEOREM RefsAreExact ==
  PagedSpec => []RefsExact
<1> DEFINE RefsInv == PagedTyped /\ BlocksConserved /\ CallsPlaced /\ RefsHeld
<1>1. PagedInit => RefsInv
  <2> SUFFICES ASSUME PagedInit PROVE RefsInv
    OBVIOUS
  <2>1. PagedTyped
    BY PagedAssumption, PagedTypedInit
  <2>2. BlocksConserved
    BY PagedAssumption, ConservedInit DEF PagedAssumption
  <2>3. DOMAIN tables = {} /\ \A b \in Blocks : refCount[b] = 0
    BY DEF PagedInit
  <2>4. RefsHeld
    BY <2>3, NoPlaces DEF RefsHeld
  <2> QED BY <2>1, <2>2, <2>4, CallsPlacedInit
<1>2. RefsInv /\ [PagedNext]_pagedVars => RefsInv'
  BY PagedAssumption, PagedTypedStep, ConservedStep, CallsPlacedStep, RefsStep
<1>3. RefsInv => RefsExact
  BY DEF RefsHeld, RefsExact
<1> QED BY <1>1, <1>2, <1>3, PTL DEF PagedSpec

--------------------------------------------------------------------------------
(* What a fetch gives was computed for the prompt that asked.                *)

\* The block b is in use; what it holds, if anything, was computed for the first k chunks of p.
DataFits(b, p, k) == b \in allocated /\ cacheData[b] \in {<<>>, SubSeq(p, 1, k)}

FreeBlank == \A b \in Blocks \ allocated : cacheData[b] = <<>>
HashesFit ==
  \A h \in DOMAIN hashToBlock : \E p \in Prompts : \E i \in 1..Len(p) :
    /\ p[i] \notin Partial /\ LegacyHash[p[i]] = h
    /\ DataFits(hashToBlock[h], p, i)
IndexFits ==
  \A q \in DOMAIN prefixIndex :
    Len(prefixIndex[q]) = Len(q) /\ \A k \in 1..Len(q) : DataFits(prefixIndex[q][k], q, k)
TableFits(t, p) ==
  Len(t.ids) = t.num /\ t.num <= Len(p) /\ \A k \in 1..t.num : DataFits(t.ids[k], p, k)
Storing(r) == storeCall # NoCall /\ storeCall.r = r
TablesFit ==
  \A r \in DOMAIN tables : got[r].at # "over" =>
    /\ Storing(r) => TableFits(tables[r], storeCall.all)
    /\ ~Storing(r) => /\ TableFits(tables[r], asked[r])
                      /\ \A k \in 1..tables[r].num : asked[r][k] \notin Partial
TakeFits ==
  /\ fetchCall # NoCall => asked[fetchCall.r] \in Prompts
  /\ fetchCall.at = "take" =>
       LET p == asked[fetchCall.r]
           n == tables[fetchCall.r].num
       IN /\ n + Len(fetchCall.ids) = fetchCall.n /\ fetchCall.n <= Len(p)
          /\ \A k \in 1..Len(fetchCall.ids) : DataFits(fetchCall.ids[k], p, n + k)
          /\ \A k \in 1..fetchCall.n : p[k] \notin Partial
StoreFits == storeCall # NoCall => storeCall.next = tables[storeCall.r].num + 1
HitsFit ==
  \A r \in CacheUsers : got[r].at = "hit" =>
    /\ got[r].cached = got[r].done /\ Len(got[r].kv) = got[r].done
    /\ \A i \in DOMAIN got[r].kv : got[r].kv[i] = SubSeq(asked[r], 1, i)

Fitting ==
  FreeBlank /\ HashesFit /\ IndexFits /\ TablesFit /\ TakeFits /\ StoreFits /\ HitsFit

\* The facts about types the steps below have in common.
LEMMA PagedFacts ==
  ASSUME PagedTyped
  PROVE  /\ tables \in [DOMAIN tables -> Tables] /\ DOMAIN tables \subseteq CacheUsers
         /\ \A r \in DOMAIN tables : tables[r] \in Tables /\ tables[r].ids \in Seq(Blocks)
                                     /\ tables[r].num \in Nat
         /\ DOMAIN got = CacheUsers /\ asked \in [CacheUsers -> Seq(Chunks)]
         /\ NoCall.at = "none" /\ NotAsked.at = "new" /\ PagedMiss.at = "miss"
         /\ fetchCall.at = "take" => fetchCall \in Takes
         /\ fetchCall.at = "index" => fetchCall \in Looks
         /\ fetchCall # NoCall => fetchCall.r \in CacheUsers /\ fetchCall.at \in {"index", "take"}
         /\ storeCall # NoCall => storeCall \in Stores
         /\ cowCall # NoCall => cowCall \in Cows
<1>1. tables \in [DOMAIN tables -> Tables] /\ DOMAIN tables \subseteq CacheUsers
  BY DEF PagedTyped
<1>2. \A r \in DOMAIN tables : tables[r] \in Tables
  BY <1>1
<1>3. \A r \in DOMAIN tables : tables[r].ids \in Seq(Blocks) /\ tables[r].num \in Nat
  BY <1>2 DEF Tables
<1> QED BY <1>1, <1>2, <1>3 DEF PagedTyped, NoCall, NotAsked, PagedMiss, Takes, Looks, Stores, Cows

\* What fits goes on to fit while no block is given back and none in use is written.
LEMMA DataKept ==
  ASSUME allocated \subseteq allocated', \A b \in allocated : cacheData'[b] = cacheData[b]
  PROVE  /\ \A b, p, k : DataFits(b, p, k) => DataFits(b, p, k)'
         /\ \A t, p : TableFits(t, p) => TableFits(t, p)'
         /\ HashesFit /\ UNCHANGED hashToBlock => HashesFit'
         /\ IndexFits /\ UNCHANGED prefixIndex => IndexFits'
<1>1. \A b, p, k : DataFits(b, p, k) => DataFits(b, p, k)'
  BY DEF DataFits
<1>2. \A t, p : TableFits(t, p) => TableFits(t, p)'
  BY <1>1 DEF TableFits
<1>3. HashesFit /\ UNCHANGED hashToBlock => HashesFit'
  BY <1>1 DEF HashesFit
<1>4. IndexFits /\ UNCHANGED prefixIndex => IndexFits'
  BY <1>1 DEF IndexFits
<1> QED BY <1>1, <1>2, <1>3, <1>4

\* The table of a request, and what is read of it, stays as it is.
LEMMA TableKept ==
  ASSUME NEW r \in DOMAIN tables, allocated \subseteq allocated',
         \A b \in allocated : cacheData'[b] = cacheData[b],
         TablesFit, r \in DOMAIN tables', tables'[r] = tables[r], asked'[r] = asked[r],
         got'[r].at # "over" => got[r].at # "over",
         Storing(r)' <=> Storing(r), Storing(r) => storeCall'.all = storeCall.all
  PROVE  got'[r].at # "over" =>
           /\ Storing(r)' => TableFits(tables[r], storeCall.all)'
           /\ (~Storing(r))' => /\ TableFits(tables[r], asked[r])'
                                /\ (\A k \in 1..tables[r].num : asked[r][k] \notin Partial)'
<1> SUFFICES ASSUME got'[r].at # "over"
    PROVE /\ Storing(r)' => TableFits(tables[r], storeCall.all)'
          /\ (~Storing(r))' => /\ TableFits(tables[r], asked[r])'
                               /\ (\A k \in 1..tables[r].num : asked[r][k] \notin Partial)'
  OBVIOUS
<1>1. /\ Storing(r) => TableFits(tables[r], storeCall.all)
      /\ ~Storing(r) => /\ TableFits(tables[r], asked[r])
                        /\ \A k \in 1..tables[r].num : asked[r][k] \notin Partial
  BY DEF TablesFit
<1>2. \A b, p, k : DataFits(b, p, k) => DataFits(b, p, k)'
  BY DataKept
<1>3. ASSUME Storing(r) PROVE TableFits(tables[r], storeCall.all)'
  BY <1>1, <1>2, <1>3 DEF TableFits
<1>4. ASSUME ~Storing(r)
      PROVE  /\ TableFits(tables[r], asked[r])'
             /\ (\A k \in 1..tables[r].num : asked[r][k] \notin Partial)'
  BY <1>1, <1>2, <1>4 DEF TableFits
<1> QED BY <1>3, <1>4

\* A hash that is found names a block that fits what stands before the chunk as well.
LEMMA FoundFits ==
  ASSUME ChunksTell, HashesFit, NEW p \in Prompts, NEW i \in 1..Len(p), FoundChunk(p[i])
  PROVE  DataFits(hashToBlock[LegacyHash[p[i]]], p, i) /\ p[i] \notin Partial
<1>1. p[i] \notin Partial /\ LegacyHash[p[i]] \in DOMAIN hashToBlock
  BY DEF FoundChunk
<1>2. PICK q \in Prompts : \E j \in 1..Len(q) :
        /\ q[j] \notin Partial /\ LegacyHash[q[j]] = LegacyHash[p[i]]
        /\ DataFits(hashToBlock[LegacyHash[p[i]]], q, j)
  BY <1>1 DEF HashesFit
<1>3. PICK j \in 1..Len(q) :
        /\ q[j] \notin Partial /\ LegacyHash[q[j]] = LegacyHash[p[i]]
        /\ DataFits(hashToBlock[LegacyHash[p[i]]], q, j)
  BY <1>2
<1>4. SubSeq(q, 1, j) = SubSeq(p, 1, i)
  <2>1. p[i] \notin Partial /\ q[j] \notin Partial /\ LegacyHash[p[i]] = LegacyHash[q[j]]
            => i = j /\ SubSeq(p, 1, i) = SubSeq(q, 1, j)
    BY DEF ChunksTell
  <2>2. p[i] \notin Partial /\ q[j] \notin Partial /\ LegacyHash[p[i]] = LegacyHash[q[j]]
    BY <1>1, <1>3
  <2> QED BY <2>1, <2>2
<1> QED BY <1>1, <1>3, <1>4 DEF DataFits

--------------------------------------------------------------------------------
\* A fetch that finds its prompt's chunks by their hashes, or has to look in the index.
LEMMA FindFits ==
  ASSUME PagedAssumption, ChunksTell, PagedTyped, CallsPlaced, Fitting, ~pagedTorn,
         NEW r \in CacheUsers, FetchFind(r)
  PROVE  Fitting'
<1>0. UNCHANGED <<allocated, cacheData, hashToBlock, prefixIndex, storeCall, got>>
      /\ got[r] = NotAsked /\ fetchCall = NoCall
  BY DEF FetchFind, prefixVars
<1>1. FreeBlank' /\ HashesFit' /\ IndexFits'
  <2>1. FreeBlank'
    BY <1>0 DEF Fitting, FreeBlank
  <2> QED BY <1>0, <2>1, DataKept DEF Fitting
<1>2. PICK p \in Prompts :
        /\ asked' = [asked EXCEPT ![r] = p]
        /\ IF SharedLength(p) > 0
           THEN /\ tables' = DictWith(tables, r, NoTable)
                /\ fetchCall' = [at |-> "take", r |-> r, n |-> SharedLength(p),
                        ids |-> [i \in 1..SharedLength(p) |-> hashToBlock[LegacyHash[p[i]]]]]
           ELSE /\ fetchCall' = [at |-> "index", r |-> r]
                /\ UNCHANGED tables
  BY DEF FetchFind
<1>3. /\ p \in Seq(Chunks) /\ Len(p) \in Nat /\ DOMAIN p = 1..Len(p)
      /\ SharedLength(p) \in 0..Len(p) /\ \A i \in 1..SharedLength(p) : FoundChunk(p[i])
  <2>1. p \in Seq(Chunks)
    BY DEF PagedAssumption
  <2> QED BY <2>1, SharedFound
<1>4. r \notin DOMAIN tables /\ ~Storing(r)
  <2>1. got[r].at = "new"
    BY <1>0, PagedFacts
  <2> QED BY <1>0, <2>1, PagedFacts DEF CallsPlaced, Storing
<1>5. asked'[r] = p /\ \A q \in CacheUsers : q # r => asked'[q] = asked[q]
  BY <1>2, PagedFacts
<1>6. \A q \in DOMAIN tables : q \in DOMAIN tables' /\ tables'[q] = tables[q]
  <2>1. tables' = DictWith(tables, r, NoTable) \/ UNCHANGED tables
    BY <1>2
  <2> QED BY <1>4, <2>1 DEF DictWith
<1>7. StoreFits'
  <2>1. storeCall # NoCall => storeCall.r \in DOMAIN tables
    BY DEF CallsPlaced
  <2> QED BY <1>0, <1>6, <2>1 DEF Fitting, StoreFits
<1>8. HitsFit'
  <2> SUFFICES ASSUME NEW q \in CacheUsers, got'[q].at = "hit"
               PROVE  /\ got'[q].cached = got'[q].done /\ Len(got'[q].kv) = got'[q].done
                      /\ \A i \in DOMAIN got'[q].kv : got'[q].kv[i] = SubSeq(asked'[q], 1, i)
    BY DEF HitsFit
  <2>1. q # r
    BY <1>0, PagedFacts
  <2> QED BY <1>0, <1>5, <2>1 DEF Fitting, HitsFit
<1>9. ASSUME NEW q \in DOMAIN tables
      PROVE  got'[q].at # "over" =>
               /\ Storing(q)' => TableFits(tables[q], storeCall.all)'
               /\ (~Storing(q))' => /\ TableFits(tables[q], asked[q])'
                                    /\ (\A k \in 1..tables[q].num : asked[q][k] \notin Partial)'
  <2>1. q \in CacheUsers /\ q # r /\ asked'[q] = asked[q]
    BY <1>4, <1>5, PagedFacts
  <2>2. Storing(q)' <=> Storing(q)
    BY <1>0 DEF Storing
  <2>3. TablesFit
    BY DEF Fitting
  <2>4. allocated \subseteq allocated' /\ \A b \in allocated : cacheData'[b] = cacheData[b]
    BY <1>0
  <2>5. q \in DOMAIN tables' /\ tables'[q] = tables[q] /\ got'[q] = got[q] /\ storeCall' = storeCall
    BY <1>0, <1>6
  <2> QED BY <2>1, <2>2, <2>3, <2>4, <2>5, TableKept
<1>10. CASE SharedLength(p) > 0
  <2> DEFINE f == [i \in 1..SharedLength(p) |-> hashToBlock[LegacyHash[p[i]]]]
  <2>1. /\ tables' = DictWith(tables, r, NoTable)
        /\ fetchCall' = [at |-> "take", r |-> r, n |-> SharedLength(p), ids |-> f]
    BY <1>2, <1>10
  <2>2. DOMAIN tables' = DOMAIN tables \cup {r} /\ tables'[r] = NoTable
    BY <2>1 DEF DictWith
  <2>3. NoTable.ids = <<>> /\ NoTable.num = 0
    BY DEF NoTable
  <2>4. Len(f) = SharedLength(p) /\ \A k \in 1..SharedLength(p) : f[k] = hashToBlock[LegacyHash[p[k]]]
    BY <1>3
  <2>5. \A k \in 1..SharedLength(p) : DataFits(f[k], p, k) /\ p[k] \notin Partial
    <3> HIDE DEF f
    <3>1. HashesFit
      BY DEF Fitting
    <3> QED BY <1>3, <2>4, <3>1, FoundFits
  <2> HIDE DEF f
  <2>6. /\ fetchCall'.at = "take" /\ fetchCall'.r = r /\ fetchCall'.n = SharedLength(p)
        /\ fetchCall'.ids = f
    BY <2>1
  <2>7. TakeFits'
    <3>1. \A k \in 1..Len(f) : f[k] \in allocated' /\ cacheData'[f[k]] \in {<<>>, SubSeq(p, 1, 0 + k)}
      <4>1. \A k \in 1..SharedLength(p) : 0 + k = k
        BY <1>3
      <4> QED BY <1>0, <2>4, <2>5, <4>1 DEF DataFits
    <3>2. tables'[r].num = 0 /\ 0 + Len(f) = SharedLength(p) /\ SharedLength(p) <= Len(p)
      BY <1>3, <2>2, <2>3, <2>4
    <3> QED BY <1>5, <2>5, <2>6, <3>1, <3>2 DEF TakeFits, DataFits
  <2>8. TablesFit'
    <3> SUFFICES ASSUME NEW q \in DOMAIN tables', got'[q].at # "over"
                 PROVE  /\ Storing(q)' => TableFits(tables[q], storeCall.all)'
                        /\ (~Storing(q))' => /\ TableFits(tables[q], asked[q])'
                                             /\ (\A k \in 1..tables[q].num : asked[q][k] \notin Partial)'
      BY DEF TablesFit
    <3>1. CASE q = r
      <4>1. ~Storing(r)'
        BY <1>0, <1>4 DEF Storing
      <4>2. TableFits(tables[r], asked[r])'
        BY <1>3, <1>5, <2>2, <2>3 DEF TableFits
      <4>3. (\A k \in 1..tables[r].num : asked[r][k] \notin Partial)'
        BY <2>2, <2>3
      <4> QED BY <3>1, <4>1, <4>2, <4>3
    <3>2. CASE q # r
      BY <1>9, <2>2, <3>2
    <3> QED BY <3>1, <3>2
  <2> QED BY <1>1, <1>7, <1>8, <2>7, <2>8 DEF Fitting
<1>11. CASE ~(SharedLength(p) > 0)
  <2>1. fetchCall' = [at |-> "index", r |-> r] /\ UNCHANGED tables
    BY <1>2, <1>11
  <2>2. fetchCall'.at = "index" /\ fetchCall'.r = r
    BY <2>1
  <2>3. TakeFits'
    BY <1>5, <2>2 DEF TakeFits
  <2>4. TablesFit'
    BY <1>9, <2>1 DEF TablesFit
  <2> QED BY <1>1, <1>7, <1>8, <2>3, <2>4 DEF Fitting
<1> QED BY <1>10, <1>11

\* The index gives blocks that fit, or the fetch has missed.
LEMMA IndexFound ==
  ASSUME PagedAssumption, PagedTyped, CallsPlaced, Fitting, ~pagedTorn, FetchIndex
  PROVE  Fitting'
<1>0. UNCHANGED <<allocated, cacheData, hashToBlock, prefixIndex, storeCall, asked>>
      /\ fetchCall.at = "index"
  BY DEF FetchIndex, prefixVars
<1>1. FreeBlank' /\ HashesFit' /\ IndexFits'
  <2>1. FreeBlank'
    BY <1>0 DEF Fitting, FreeBlank
  <2> QED BY <1>0, <2>1, DataKept DEF Fitting
<1>2. PICK r \in CacheUsers, p \in Prompts : r = fetchCall.r /\ p = asked[r]
  <2>1. fetchCall # NoCall /\ fetchCall.r \in CacheUsers
    BY <1>0, PagedFacts
  <2> QED BY <2>1 DEF Fitting, TakeFits
<1>10. /\ got[r].at = "new" /\ r \notin DOMAIN tables /\ ~Storing(r)
       /\ p \in Seq(Chunks) /\ Len(p) \in Nat
  <2>1. got[r].at = "new" /\ r \notin DOMAIN tables /\ ~Storing(r)
    BY <1>0, <1>2, PagedFacts DEF CallsPlaced, Storing
  <2> QED BY <2>1 DEF PagedAssumption
<1> DEFINE known == {n \in 1..Len(p) : p[n] \notin Partial
                                     /\ SubSeq(p, 1, n) \in DOMAIN prefixIndex}
<1>3. \/ /\ known = {} /\ fetchCall' = NoCall /\ got' = [got EXCEPT ![r] = PagedMiss]
         /\ UNCHANGED tables
      \/ \E n \in known : /\ tables' = DictWith(tables, r, NoTable) /\ UNCHANGED got
                          /\ fetchCall' = [at |-> "take", r |-> r, n |-> n,
                                           ids |-> prefixIndex[SubSeq(p, 1, n)]]
  <2>1. CASE known = {}
    BY <1>2, <2>1 DEF FetchIndex
  <2>2. CASE known # {}
    <3> DEFINE n == CHOOSE n \in known : \A k \in known : k <= n
    <3>1. n \in known
      BY <1>10, <2>2, Greatest
    <3>2. /\ tables' = DictWith(tables, r, NoTable) /\ UNCHANGED got
          /\ fetchCall' = [at |-> "take", r |-> r, n |-> n, ids |-> prefixIndex[SubSeq(p, 1, n)]]
      BY <1>2, <2>2 DEF FetchIndex
    <3> HIDE DEF n, known
    <3> QED BY <3>1, <3>2
  <2> QED BY <2>1, <2>2
<1>4. /\ \A q \in DOMAIN tables : q \in DOMAIN tables' /\ tables'[q] = tables[q]
      /\ \A q \in CacheUsers : q # r => got'[q] = got[q]
      /\ got'[r].at \in {"new", "miss"}
  <2>1. tables' = DictWith(tables, r, NoTable) \/ UNCHANGED tables
    BY <1>3
  <2>2. got' = [got EXCEPT ![r] = PagedMiss] \/ UNCHANGED got
    BY <1>3
  <2> QED BY <1>10, <2>1, <2>2, PagedFacts DEF DictWith
<1>5. StoreFits'
  <2>1. storeCall # NoCall => storeCall.r \in DOMAIN tables
    BY DEF CallsPlaced
  <2> QED BY <1>0, <1>4, <2>1 DEF Fitting, StoreFits
<1>6. HitsFit'
  <2> SUFFICES ASSUME NEW q \in CacheUsers, got'[q].at = "hit"
               PROVE  /\ got'[q].cached = got'[q].done /\ Len(got'[q].kv) = got'[q].done
                      /\ \A i \in DOMAIN got'[q].kv : got'[q].kv[i] = SubSeq(asked'[q], 1, i)
    BY DEF HitsFit
  <2>1. q # r
    BY <1>4
  <2> QED BY <1>0, <1>4, <2>1 DEF Fitting, HitsFit
<1>7. ASSUME NEW q \in DOMAIN tables
      PROVE  got'[q].at # "over" =>
               /\ Storing(q)' => TableFits(tables[q], storeCall.all)'
               /\ (~Storing(q))' => /\ TableFits(tables[q], asked[q])'
                                    /\ (\A k \in 1..tables[q].num : asked[q][k] \notin Partial)'
  <2>1. q \in CacheUsers /\ q # r /\ asked' = asked
    BY <1>0, <1>10, PagedFacts
  <2>2. Storing(q)' <=> Storing(q)
    BY <1>0 DEF Storing
  <2>3. TablesFit
    BY DEF Fitting
  <2>4. allocated \subseteq allocated' /\ \A b \in allocated : cacheData'[b] = cacheData[b]
    BY <1>0
  <2>5. q \in DOMAIN tables' /\ tables'[q] = tables[q] /\ got'[q] = got[q] /\ storeCall' = storeCall
    BY <1>0, <1>4, <2>1
  <2> QED BY <2>1, <2>2, <2>3, <2>4, <2>5, TableKept
<1>8. CASE known = {} /\ fetchCall' = NoCall /\ UNCHANGED tables
  <2>1. TakeFits'
    BY <1>8, PagedFacts DEF TakeFits
  <2>2. TablesFit'
    BY <1>7, <1>8 DEF TablesFit
  <2> QED BY <1>1, <1>5, <1>6, <2>1, <2>2 DEF Fitting
<1>9. ASSUME NEW n \in known, tables' = DictWith(tables, r, NoTable),
             fetchCall' = [at |-> "take", r |-> r, n |-> n, ids |-> prefixIndex[SubSeq(p, 1, n)]]
      PROVE  Fitting'
  <2> DEFINE f == prefixIndex[SubSeq(p, 1, n)]
             q == SubSeq(p, 1, n)
  <2>1. DOMAIN tables' = DOMAIN tables \cup {r} /\ tables'[r] = NoTable
    BY <1>9 DEF DictWith
  <2>2. NoTable.ids = <<>> /\ NoTable.num = 0
    BY DEF NoTable
  <2>3. n \in 1..Len(p) /\ p[n] \notin Partial /\ q \in DOMAIN prefixIndex
    OBVIOUS
  <2> HIDE DEF known
  <2>4. Len(q) = n /\ \A k \in 1..n : SubSeq(q, 1, k) = SubSeq(p, 1, k)
    <3>1. q \in Seq(Chunks) /\ Len(q) = n /\ \A j \in 1..n : q[j] = p[j]
      BY <1>10, <2>3
    <3>2. ASSUME NEW k \in 1..n PROVE SubSeq(q, 1, k) = SubSeq(p, 1, k)
      <4>1. SubSeq(q, 1, k) = [j \in 1..k |-> q[j]]
        BY <3>1
      <4>2. SubSeq(p, 1, k) = [j \in 1..k |-> p[j]]
        BY <1>10, <2>3
      <4> QED BY <2>3, <3>1, <4>1, <4>2
    <3> QED BY <3>1, <3>2
  <2>5. Len(f) = n /\ \A k \in 1..n : DataFits(f[k], q, k)
    BY <2>3, <2>4 DEF Fitting, IndexFits
  <2>6. \A k \in 1..n : DataFits(f[k], p, k)
    BY <2>4, <2>5 DEF DataFits
  <2>7. \A k \in 1..n : p[k] \notin Partial
    <3> SUFFICES ASSUME NEW k \in 1..n, k # n PROVE p[k] \notin Partial
      BY <2>3
    <3>1. k \in 1..(Len(p) - 1)
      BY <1>10, <2>3
    <3> QED BY <1>10, <3>1 DEF PagedAssumption
  <2> HIDE DEF f
  <2>8. fetchCall'.at = "take" /\ fetchCall'.r = r /\ fetchCall'.n = n /\ fetchCall'.ids = f
    BY <1>9 DEF f
  <2>9. asked'[r] = p
    BY <1>0, <1>2
  <2>10. TakeFits'
    <3>1. \A k \in 1..Len(f) : f[k] \in allocated' /\ cacheData'[f[k]] \in {<<>>, SubSeq(p, 1, 0 + k)}
      <4>1. \A k \in 1..n : 0 + k = k
        BY <2>3
      <4> QED BY <1>0, <2>5, <2>6, <4>1 DEF DataFits
    <3>2. tables'[r].num = 0 /\ 0 + Len(f) = n /\ n <= Len(p)
      BY <1>10, <2>1, <2>2, <2>3, <2>5
    <3> QED BY <2>7, <2>8, <2>9, <3>1, <3>2 DEF TakeFits, DataFits
  <2>11. TablesFit'
    <3> SUFFICES ASSUME NEW x \in DOMAIN tables', got'[x].at # "over"
                 PROVE  /\ Storing(x)' => TableFits(tables[x], storeCall.all)'
                        /\ (~Storing(x))' => /\ TableFits(tables[x], asked[x])'
                                             /\ (\A k \in 1..tables[x].num : asked[x][k] \notin Partial)'
      BY DEF TablesFit
    <3>1. CASE x = r
      <4>1. ~Storing(r)'
        BY <1>0, <1>10 DEF Storing
      <4>2. TableFits(tables[r], asked[r])'
        BY <1>10, <2>1, <2>2, <2>9 DEF TableFits
      <4>3. (\A k \in 1..tables[r].num : asked[r][k] \notin Partial)'
        BY <2>1, <2>2
      <4> QED BY <3>1, <4>1, <4>2, <4>3
    <3>2. CASE x # r
      BY <1>7, <2>1, <3>2
    <3> QED BY <3>1, <3>2
  <2> QED BY <1>1, <1>5, <1>6, <2>10, <2>11 DEF Fitting
<1> HIDE DEF known
<1> QED BY <1>3, <1>8, <1>9

\* A prefix of a prefix.
LEMMA PrefixOfPrefix ==
  ASSUME NEW S, NEW p \in Seq(S), NEW n \in 1..Len(p), NEW k \in 1..n
  PROVE  Len(SubSeq(p, 1, n)) = n /\ SubSeq(SubSeq(p, 1, n), 1, k) = SubSeq(p, 1, k)
<1> DEFINE q == SubSeq(p, 1, n)
<1>1. q \in Seq(S) /\ Len(q) = n /\ \A j \in 1..n : q[j] = p[j]
  OBVIOUS
<1>2. SubSeq(p, 1, k) = [j \in 1..k |-> p[j]]
  OBVIOUS
<1> HIDE DEF q
<1>3. SubSeq(q, 1, k) = [j \in 1..k |-> q[j]]
  BY <1>1
<1> QED BY <1>1, <1>2, <1>3 DEF q

\* Two sequences that begin alike have the same prefixes.
LEMMA SamePrefix ==
  ASSUME NEW S, NEW p \in Seq(S), NEW q \in Seq(S), NEW k \in 1..Len(p), k <= Len(q),
         \A j \in 1..k : p[j] = q[j]
  PROVE  SubSeq(p, 1, k) = SubSeq(q, 1, k)
<1>1. SubSeq(p, 1, k) = [j \in 1..k |-> p[j]]
  OBVIOUS
<1>2. SubSeq(q, 1, k) = [j \in 1..k |-> q[j]]
  OBVIOUS
<1> QED BY <1>1, <1>2

\* A table that fits, with one block more that fits what comes next.
LEMMA FitsOneMore ==
  ASSUME NEW t, t.ids \in Seq(Blocks), t.num \in Nat, NEW p, TableFits(t, p),
         allocated \subseteq allocated', \A x \in allocated : cacheData'[x] = cacheData[x],
         NEW b \in Blocks, b \in allocated', cacheData'[b] \in {<<>>, SubSeq(p, 1, t.num + 1)},
         NEW u, u.ids = Append(t.ids, b), u.num = t.num + 1, u.num <= Len(p)
  PROVE  TableFits(u, p)'
<1>1. /\ Len(t.ids) = t.num /\ \A k \in 1..t.num : DataFits(t.ids[k], p, k)
  BY DEF TableFits
<1>2. /\ Len(u.ids) = t.num + 1 /\ \A k \in 1..t.num : u.ids[k] = t.ids[k]
      /\ u.ids[t.num + 1] = b
  BY <1>1, AppendPlaces
<1>3. ASSUME NEW k \in 1..(t.num + 1)
      PROVE  u.ids[k] \in allocated' /\ cacheData'[u.ids[k]] \in {<<>>, SubSeq(p, 1, k)}
  <2>1. CASE k = t.num + 1
    BY <1>2, <2>1
  <2>2. CASE k \in 1..t.num
    <3>1. DataFits(t.ids[k], p, k)
      BY <1>1, <2>2
    <3> QED BY <1>2, <2>2, <3>1 DEF DataFits
  <2>3. \A n \in Nat : \A i \in 1..(n + 1) : i = n + 1 \/ i \in 1..n
    OBVIOUS
  <2> QED BY <2>1, <2>2, <2>3
<1> QED BY <1>2, <1>3 DEF TableFits, DataFits

\* A fetch takes a block more, which is the one that comes next.
LEMMA TakeStepFits ==
  ASSUME PagedTyped, CallsPlaced, Fitting, ~pagedTorn, FetchTake
  PROVE  Fitting'
<1>0. UNCHANGED <<allocated, cacheData, hashToBlock, prefixIndex, storeCall, asked, got>>
      /\ fetchCall.at = "take" /\ fetchCall.ids # <<>> /\ fetchCall' = [fetchCall EXCEPT !.ids = Tail(@)]
  BY DEF FetchTake, prefixVars
<1>1. FreeBlank' /\ HashesFit' /\ IndexFits' /\ HitsFit'
  <2>1. FreeBlank' /\ HitsFit'
    BY <1>0 DEF Fitting, FreeBlank, HitsFit
  <2> QED BY <1>0, <2>1, DataKept DEF Fitting
<1>2. PICK r \in DOMAIN tables, p \in Prompts : r = fetchCall.r /\ p = asked[r]
  <2>1. fetchCall # NoCall /\ fetchCall.r \in DOMAIN tables
    BY <1>0, PagedFacts DEF CallsPlaced
  <2> QED BY <2>1 DEF Fitting, TakeFits
<1>3. got[r].at = "new" /\ ~Storing(r) /\ ~Storing(r)' /\ r \in CacheUsers
      /\ (storeCall # NoCall => storeCall.r # r)
  BY <1>0, <1>2, PagedFacts DEF CallsPlaced, Storing
<1>4. PICK ids \in Seq(Blocks), n \in Nat, m \in Nat :
        ids = fetchCall.ids /\ n = tables[r].num /\ m = fetchCall.n
  <2>1. fetchCall \in Takes
    BY <1>0, PagedFacts
  <2> QED BY <2>1, PagedFacts DEF Takes
<1>5. /\ n + Len(ids) = m /\ m <= Len(p) /\ \A k \in 1..m : p[k] \notin Partial
      /\ \A k \in 1..Len(ids) : DataFits(ids[k], p, n + k)
  BY <1>0, <1>2, <1>4 DEF Fitting, TakeFits
<1>6. /\ Len(ids) \in Nat \ {0} /\ Tail(ids) \in Seq(Blocks) /\ Len(Tail(ids)) = Len(ids) - 1
      /\ \A k \in 1..(Len(ids) - 1) : Tail(ids)[k] = ids[k + 1]
      /\ Head(ids) = ids[1] /\ ids[1] \in Blocks
  BY <1>0, <1>4
<1>7. DataFits(Head(ids), p, n + 1)
  BY <1>5, <1>6
<1>8. tables' = [tables EXCEPT ![r].ids = Append(@, Head(ids)), ![r].num = @ + 1]
  BY <1>2, <1>4, <1>7 DEF FetchTake, DataFits
<1>9. /\ DOMAIN tables' = DOMAIN tables /\ \A q \in DOMAIN tables : q # r => tables'[q] = tables[q]
      /\ tables'[r] = [ids |-> Append(tables[r].ids, Head(ids)), num |-> n + 1]
  <2>1. tables \in [DOMAIN tables -> Tables] /\ Head(ids) \in Blocks
    BY <1>6, PagedFacts
  <2>2. DOMAIN tables' = DOMAIN tables
    BY <1>8
  <2> QED BY <1>4, <1>8, <2>1, <2>2, TableGrows
<1>10. fetchCall'.at = "take" /\ fetchCall'.r = r /\ fetchCall'.n = m /\ fetchCall'.ids = Tail(ids)
  <2>1. fetchCall \in Takes
    BY <1>0, PagedFacts
  <2> QED BY <1>0, <1>2, <1>4, <2>1 DEF Takes
<1>11. TakeFits'
  <2>1. ASSUME NEW k \in 1..(Len(ids) - 1)
        PROVE  /\ Tail(ids)[k] \in allocated'
               /\ cacheData'[Tail(ids)[k]] \in {<<>>, SubSeq(p, 1, (n + 1) + k)}
    <3>1. k + 1 \in 1..Len(ids) /\ n + (k + 1) = (n + 1) + k
      BY <1>6
    <3>2. DataFits(ids[k + 1], p, n + (k + 1))
      BY <1>5, <3>1
    <3> QED BY <1>0, <1>6, <3>1, <3>2 DEF DataFits
  <2>2. (n + 1) + Len(Tail(ids)) = m
    <3>1. \A a \in Nat \ {0} : (n + 1) + (a - 1) = n + a
      OBVIOUS
    <3>2. (n + 1) + (Len(ids) - 1) = n + Len(ids)
      BY <1>6, <3>1
    <3> QED BY <1>5, <1>6, <3>2
  <2>3. tables'[r].num = n + 1 /\ asked'[r] = p
    BY <1>0, <1>2, <1>9
  <2> QED BY <1>5, <1>6, <1>10, <2>1, <2>2, <2>3 DEF TakeFits, DataFits
<1>12. StoreFits'
  <2>1. storeCall # NoCall => storeCall.r \in DOMAIN tables
    BY DEF CallsPlaced
  <2> QED BY <1>0, <1>3, <1>9, <2>1 DEF Fitting, StoreFits
<1>13. TablesFit'
  <2> SUFFICES ASSUME NEW q \in DOMAIN tables', got'[q].at # "over"
               PROVE  /\ Storing(q)' => TableFits(tables[q], storeCall.all)'
                      /\ (~Storing(q))' => /\ TableFits(tables[q], asked[q])'
                                           /\ (\A k \in 1..tables[q].num : asked[q][k] \notin Partial)'
    BY DEF TablesFit
  <2>1. CASE q = r
    <3>1. TableFits(tables[r], p) /\ tables[r].ids \in Seq(Blocks) /\ tables[r].num \in Nat
      BY <1>2, <1>3, PagedFacts DEF Fitting, TablesFit
    <3>2. tables'[r].ids = Append(tables[r].ids, Head(ids)) /\ tables'[r].num = tables[r].num + 1
          /\ tables'[r].num <= m /\ tables'[r].num <= Len(p) /\ asked'[r] = p
      <4>1. n + 1 <= m
        BY <1>5, <1>6
      <4>2. p \in Prompts /\ Len(p) \in Nat
        BY PagedAssumption DEF PagedAssumption
      <4>3. n + 1 <= Len(p)
        BY <1>5, <4>1, <4>2
      <4> QED BY <1>0, <1>2, <1>4, <1>9, <4>1, <4>3
    <3>3. Head(ids) \in allocated' /\ cacheData'[Head(ids)] \in {<<>>, SubSeq(p, 1, tables[r].num + 1)}
      BY <1>0, <1>4, <1>7 DEF DataFits
    <3>4. allocated \subseteq allocated' /\ (\A x \in allocated : cacheData'[x] = cacheData[x]) /\ Head(ids) \in Blocks
      BY <1>0, <1>6
    <3> DEFINE Fits(u) == /\ Len(u.ids) = u.num /\ u.num <= Len(p)
                          /\ \A k \in 1..u.num : /\ u.ids[k] \in allocated'
                                                 /\ cacheData'[u.ids[k]] \in {<<>>, SubSeq(p, 1, k)}
    <3>5. \A u : u.ids = Append(tables[r].ids, Head(ids)) /\ u.num = tables[r].num + 1 /\ u.num <= Len(p) => Fits(u)
      <4> TAKE u
      <4> HAVE u.ids = Append(tables[r].ids, Head(ids)) /\ u.num = tables[r].num + 1 /\ u.num <= Len(p)
      <4>1. TableFits(u, p)'
        BY <3>1, <3>3, <3>4, FitsOneMore
      <4> QED BY <4>1 DEF TableFits, DataFits
    <3>6. TableFits(tables[r], asked[r])'
      BY <3>2, <3>5 DEF TableFits, DataFits
    <3>7. (\A k \in 1..tables[r].num : asked[r][k] \notin Partial)'
      BY <1>5, <1>9, <3>2
    <3> QED BY <1>3, <2>1, <3>6, <3>7
  <2>2. CASE q # r
    <3>1. Storing(q)' <=> Storing(q)
      BY <1>0 DEF Storing
    <3>2. TablesFit
      BY DEF Fitting
    <3>3. allocated \subseteq allocated' /\ \A b \in allocated : cacheData'[b] = cacheData[b]
      BY <1>0
    <3>4. q \in DOMAIN tables /\ tables'[q] = tables[q] /\ got'[q] = got[q] /\ storeCall' = storeCall /\ asked' = asked
      BY <1>0, <1>9, <2>2
    <3> QED BY <3>1, <3>2, <3>3, <3>4, TableKept
  <2> QED BY <2>1, <2>2
<1> QED BY <1>1, <1>11, <1>12, <1>13 DEF Fitting

\* The cache of a request is put together: what it is given was computed for its prompt.
LEMMA EndFits ==
  ASSUME PagedTyped, CallsPlaced, Fitting, ~pagedTorn, FetchEnds
  PROVE  Fitting'
<1>0. UNCHANGED <<allocated, cacheData, hashToBlock, prefixIndex, tables, storeCall, asked>>
      /\ fetchCall.at = "take" /\ fetchCall.ids = <<>> /\ fetchCall' = NoCall
  BY DEF FetchEnds, prefixVars, managerVars
<1>1. FreeBlank' /\ HashesFit' /\ IndexFits' /\ StoreFits' /\ TakeFits'
  <2>1. FreeBlank' /\ StoreFits' /\ TakeFits'
    BY <1>0, PagedFacts DEF Fitting, FreeBlank, StoreFits, TakeFits
  <2> QED BY <1>0, <2>1, DataKept DEF Fitting
<1>2. PICK r \in DOMAIN tables, p \in Prompts : r = fetchCall.r /\ p = asked[r]
  <2>1. fetchCall # NoCall /\ fetchCall.r \in DOMAIN tables
    BY <1>0, PagedFacts DEF CallsPlaced
  <2> QED BY <2>1 DEF Fitting, TakeFits
<1>3. got[r].at = "new" /\ ~Storing(r) /\ r \in CacheUsers
  BY <1>0, <1>2, PagedFacts DEF CallsPlaced, Storing
<1> DEFINE t == tables[r]
           kv == [i \in DOMAIN t.ids |-> cacheData[t.ids[i]]]
           whole == t.ids # <<>> /\ \A i \in DOMAIN t.ids : /\ t.ids[i] \in allocated
                                                            /\ cacheData[t.ids[i]] # <<>>
           hit == [at |-> "hit", cached |-> t.num, done |-> fetchCall.n, kv |-> kv]
<1>4. got' = [got EXCEPT ![r] = IF whole THEN hit ELSE PagedMiss]
  BY <1>2 DEF FetchEnds
<1>5. t.ids \in Seq(Blocks) /\ t.num \in Nat /\ DOMAIN t.ids = 1..Len(t.ids) /\ Len(t.ids) \in Nat
  BY PagedFacts
<1>6. /\ Len(t.ids) = t.num /\ \A k \in 1..t.num : DataFits(t.ids[k], p, k)
      /\ t.num = fetchCall.n
  <2>1. TableFits(tables[r], p)
    BY <1>2, <1>3 DEF Fitting, TablesFit
  <2>2. Len(fetchCall.ids) = 0 /\ t.num + Len(fetchCall.ids) = fetchCall.n
    BY <1>0, <1>2 DEF Fitting, TakeFits
  <2> QED BY <1>5, <2>1, <2>2 DEF TableFits
<1>7. ASSUME whole PROVE Len(kv) = t.num /\ DOMAIN kv = 1..t.num /\ \A i \in DOMAIN kv : kv[i] = SubSeq(p, 1, i)
  <2>1. DOMAIN kv = 1..t.num /\ Len(kv) = t.num
    <3>1. kv \in [1..t.num -> Seq(Chunks)]
      BY <1>5, <1>6 DEF PagedTyped
    <3> HIDE DEF kv, t
    <3> QED BY <1>5, <3>1, SequenceOf
  <2>2. ASSUME NEW i \in 1..t.num PROVE kv[i] = SubSeq(p, 1, i)
    <3>1. kv[i] = cacheData[t.ids[i]] /\ cacheData[t.ids[i]] # <<>>
      BY <1>5, <1>6, <1>7
    <3> QED BY <1>6, <3>1 DEF DataFits
  <2> QED BY <2>1, <2>2
<1> HIDE DEF kv, whole, t
<1>8. HitsFit'
  <2> SUFFICES ASSUME NEW q \in CacheUsers, got'[q].at = "hit"
               PROVE  /\ got'[q].cached = got'[q].done /\ Len(got'[q].kv) = got'[q].done
                      /\ \A i \in DOMAIN got'[q].kv : got'[q].kv[i] = SubSeq(asked'[q], 1, i)
    BY DEF HitsFit
  <2>1. CASE q = r
    <3>1. whole /\ got'[q] = hit
      BY <1>4, <2>1, PagedFacts
    <3> QED BY <1>0, <1>2, <1>6, <1>7, <2>1, <3>1
  <2>2. CASE q # r
    <3>1. got'[q] = got[q]
      BY <1>4, <2>2, PagedFacts
    <3> QED BY <1>0, <3>1 DEF Fitting, HitsFit
  <2> QED BY <2>1, <2>2
<1>9. TablesFit'
  <2> SUFFICES ASSUME NEW q \in DOMAIN tables', got'[q].at # "over"
               PROVE  /\ Storing(q)' => TableFits(tables[q], storeCall.all)'
                      /\ (~Storing(q))' => /\ TableFits(tables[q], asked[q])'
                                           /\ (\A k \in 1..tables[q].num : asked[q][k] \notin Partial)'
    BY DEF TablesFit
  <2>1. Storing(q)' <=> Storing(q)
    BY <1>0 DEF Storing
  <2>2. TablesFit
    BY DEF Fitting
  <2>3. allocated \subseteq allocated' /\ \A b \in allocated : cacheData'[b] = cacheData[b]
    BY <1>0
  <2>4. q \in DOMAIN tables /\ tables' = tables /\ storeCall' = storeCall /\ asked' = asked
    BY <1>0
  <2>5. got[q].at # "over"
    BY <1>3, <1>4, <2>4, PagedFacts
  <2> QED BY <2>1, <2>2, <2>3, <2>4, <2>5, TableKept
<1> QED BY <1>1, <1>8, <1>9 DEF Fitting

\* A store begins with the table of its request, which fits the longer text as well.
LEMMA BeginFits ==
  ASSUME PagedAssumption, PagedTyped, CallsPlaced, Fitting, ~pagedTorn, NEW r \in CacheUsers,
         PagedStoreBegins(r)
  PROVE  Fitting'
<1>0. UNCHANGED <<allocated, cacheData, hashToBlock, prefixIndex, fetchCall, asked>>
      /\ storeCall = NoCall /\ got[r].at \in {"hit", "miss"}
  BY DEF PagedStoreBegins, prefixVars
<1>1. FreeBlank' /\ HashesFit' /\ IndexFits'
  <2>1. FreeBlank'
    BY <1>0 DEF Fitting, FreeBlank
  <2> QED BY <1>0, <2>1, DataKept DEF Fitting
<1>2. PICK all \in Prompts :
       /\ ExtendsPrompt(asked[r], all)
       /\ tables' = IF r \in DOMAIN tables THEN tables ELSE DictWith(tables, r, NoTable)
       /\ storeCall' = IF tables'[r].num >= Len(all) THEN NoCall
                   ELSE [at |-> "find", r |-> r, all |-> all, next |-> tables'[r].num + 1]
       /\ got' = IF storeCall' = NoCall THEN [got EXCEPT ![r] = [at |-> "over"]] ELSE got
  BY DEF PagedStoreBegins
<1>3. /\ DOMAIN tables' = DOMAIN tables \cup {r} /\ \A q \in DOMAIN tables : tables'[q] = tables[q]
      /\ r \notin DOMAIN tables => tables'[r] = NoTable
  <2>1. CASE r \in DOMAIN tables
    BY <1>2, <2>1
  <2>2. CASE r \notin DOMAIN tables
    <3>1. tables' = DictWith(tables, r, NoTable)
      BY <1>2, <2>2
    <3> QED BY <2>2, <3>1 DEF DictWith
  <2> QED BY <2>1, <2>2
<1>4. /\ storeCall' = NoCall => got'[r].at = "over"
      /\ storeCall' # NoCall => /\ storeCall'.r = r /\ storeCall'.all = all
                                /\ storeCall'.next = tables'[r].num + 1 /\ got' = got
      /\ \A q \in CacheUsers : q # r => got'[q] = got[q]
      /\ got'[r].at # "hit" \/ got' = got
  <2>1. CASE tables'[r].num >= Len(all)
    <3>1. storeCall' = NoCall /\ got' = [got EXCEPT ![r] = [at |-> "over"]]
      BY <1>2, <2>1
    <3>2. [at |-> "over"].at = "over"
      OBVIOUS
    <3> QED BY <3>1, <3>2, PagedFacts
  <2>2. CASE ~(tables'[r].num >= Len(all))
    <3>1. storeCall' = [at |-> "find", r |-> r, all |-> all, next |-> tables'[r].num + 1]
      BY <1>2, <2>2
    <3>2. /\ storeCall'.at = "find" /\ storeCall'.r = r /\ storeCall'.all = all
          /\ storeCall'.next = tables'[r].num + 1
      BY <3>1
    <3>3. storeCall' # NoCall
      BY <3>2, PagedFacts
    <3>4. got' = got
      BY <1>2, <3>3
    <3> QED BY <3>2, <3>3, <3>4
  <2> QED BY <2>1, <2>2
<1>5. StoreFits'
  BY <1>4 DEF StoreFits
<1>6. TakeFits'
  <2>1. fetchCall.at = "take" => fetchCall.r \in DOMAIN tables
    BY DEF CallsPlaced
  <2>2. fetchCall.at = "take" => tables'[fetchCall.r] = tables[fetchCall.r]
    BY <1>3, <2>1
  <2> QED BY <1>0, <2>2 DEF Fitting, TakeFits, DataFits
<1>7. HitsFit'
  <2> SUFFICES ASSUME NEW q \in CacheUsers, got'[q].at = "hit"
               PROVE  /\ got'[q].cached = got'[q].done /\ Len(got'[q].kv) = got'[q].done
                      /\ \A i \in DOMAIN got'[q].kv : got'[q].kv[i] = SubSeq(asked'[q], 1, i)
    BY DEF HitsFit
  <2>1. got'[q] = got[q]
    BY <1>4
  <2> QED BY <1>0, <2>1 DEF Fitting, HitsFit
<1>8. TableFits(tables[r], all)' \/ storeCall' = NoCall
  <2> SUFFICES ASSUME storeCall' # NoCall PROVE TableFits(tables[r], all)'
    OBVIOUS
  <2>1. tables'[r].num < Len(all) /\ Len(all) \in Nat /\ all \in Seq(Chunks)
    <3>1. ~(tables'[r].num >= Len(all))
      BY <1>2
    <3>2. all \in Seq(Chunks)
      BY DEF PagedAssumption
    <3>3. tables'[r].num \in Nat
      BY <1>3, PagedFacts DEF NoTable
    <3> QED BY <3>1, <3>2, <3>3
  <2>2. CASE r \notin DOMAIN tables
    <3>1. tables'[r].num = 0 /\ tables'[r].ids = <<>>
      BY <1>3, <2>2 DEF NoTable
    <3> QED BY <2>1, <3>1 DEF TableFits
  <2>3. CASE r \in DOMAIN tables
    <3> DEFINE t == tables[r]
               q == asked[r]
    <3>1. /\ Len(t.ids) = t.num /\ t.num <= Len(q) /\ \A k \in 1..t.num : DataFits(t.ids[k], q, k)
          /\ \A k \in 1..t.num : q[k] \notin Partial
      BY <1>0, <2>3 DEF Fitting, TablesFit, TableFits, Storing
    <3>2. t.num \in Nat /\ q \in Seq(Chunks) /\ Len(q) \in Nat /\ DOMAIN q = 1..Len(q)
      BY <2>3, PagedFacts
    <3>3. Len(q) <= Len(all) /\ \A i \in 1..Len(q) : q[i] \in Partial \/ q[i] = all[i]
      BY <1>2, <3>2 DEF ExtendsPrompt
    <3> HIDE DEF q
    <3>4. ASSUME NEW k \in 1..t.num PROVE DataFits(t.ids[k], all, k)
      <4>1. k \in 1..Len(q) /\ k <= Len(all) /\ \A j \in 1..k : q[j] = all[j]
        BY <2>1, <3>1, <3>2, <3>3
      <4>2. SubSeq(q, 1, k) = SubSeq(all, 1, k)
        BY <2>1, <3>2, <4>1, SamePrefix
      <4> QED BY <3>1, <4>2 DEF DataFits
    <3>5. tables'[r] = t
      BY <1>3, <2>3
    <3> HIDE DEF t
    <3> QED BY <1>0, <2>1, <3>1, <3>2, <3>4, <3>5 DEF TableFits, DataFits
  <2> QED BY <2>2, <2>3
<1>9. TablesFit'
  <2> SUFFICES ASSUME NEW q \in DOMAIN tables', got'[q].at # "over"
               PROVE  /\ Storing(q)' => TableFits(tables[q], storeCall.all)'
                      /\ (~Storing(q))' => /\ TableFits(tables[q], asked[q])'
                                           /\ (\A k \in 1..tables[q].num : asked[q][k] \notin Partial)'
    BY DEF TablesFit
  <2>1. CASE q = r
    <3>1. storeCall' # NoCall /\ Storing(r)'
      BY <1>4, <2>1 DEF Storing
    <3>2. TableFits(tables[r], all)' /\ storeCall'.all = all
      BY <1>4, <1>8, <3>1
    <3> QED BY <2>1, <3>1, <3>2 DEF TableFits, DataFits
  <2>2. CASE q # r
    <3>1. ~Storing(q)' /\ ~Storing(q)
      BY <1>0, <1>4, <2>2 DEF Storing
    <3>2. TablesFit
      BY DEF Fitting
    <3>3. allocated \subseteq allocated' /\ \A b \in allocated : cacheData'[b] = cacheData[b]
      BY <1>0
    <3>4. q \in DOMAIN tables /\ q \in CacheUsers
      BY <1>3, <2>2, PagedFacts
    <3>5. tables'[q] = tables[q] /\ got'[q] = got[q] /\ asked' = asked
      BY <1>0, <1>3, <1>4, <2>2, <3>4
    <3> QED BY <3>1, <3>2, <3>3, <3>4, <3>5, TableKept
  <2> QED BY <2>1, <2>2
<1> QED BY <1>1, <1>5, <1>6, <1>7, <1>9 DEF Fitting

\* The store goes on by a block that fits its text.
LEMMA AddFits ==
  ASSUME PagedTyped, CallsPlaced, Fitting, ~pagedTorn, storeCall.at = "find",
         storeCall.next <= Len(storeCall.all), NEW b \in Blocks, AddToTable(b),
         storeCall' = [storeCall EXCEPT !.next = @ + 1], UNCHANGED <<fetchCall, asked, got>>,
         allocated \subseteq allocated', \A x \in allocated : cacheData'[x] = cacheData[x],
         b \in allocated', cacheData'[b] \in {<<>>, SubSeq(storeCall.all, 1, storeCall.next)}
  PROVE  TablesFit' /\ TakeFits' /\ StoreFits' /\ HitsFit'
<1>1. storeCall # NoCall /\ storeCall \in Stores
  BY PagedFacts
<1>2. PICK r \in DOMAIN tables, all \in Prompts, next \in Nat :
        r = storeCall.r /\ all = storeCall.all /\ next = storeCall.next
  BY <1>1 DEF CallsPlaced, Stores
<1>3. storeCall'.r = r /\ storeCall'.all = all /\ storeCall'.next = next + 1 /\ storeCall'.at = "find"
  BY <1>1, <1>2 DEF Stores
<1>4. storeCall' # NoCall /\ Storing(r) /\ Storing(r)' /\ \A q : q # r => ~Storing(q) /\ ~Storing(q)'
  BY <1>1, <1>2, <1>3, PagedFacts DEF Storing
<1>5. got[r].at \in {"hit", "miss"} /\ (fetchCall # NoCall => fetchCall.r # r)
  BY <1>1, <1>2 DEF CallsPlaced
<1>6. next = tables[r].num + 1
  BY <1>1, <1>2 DEF Fitting, StoreFits
<1>7. /\ DOMAIN tables' = DOMAIN tables /\ \A q \in DOMAIN tables : q # r => tables'[q] = tables[q]
      /\ tables'[r] = [ids |-> Append(tables[r].ids, b), num |-> tables[r].num + 1]
  <2>1. tables' = [tables EXCEPT ![r].ids = Append(@, b), ![r].num = @ + 1]
    BY <1>2 DEF AddToTable
  <2>2. DOMAIN tables' = DOMAIN tables /\ tables \in [DOMAIN tables -> Tables]
    BY <2>1, PagedFacts
  <2> QED BY <2>1, <2>2, TableGrows
<1>8. StoreFits'
  BY <1>3, <1>6, <1>7 DEF StoreFits
<1>9. HitsFit'
  BY DEF Fitting, HitsFit
<1>10. TakeFits'
  <2>1. fetchCall.at = "take" => fetchCall.r \in DOMAIN tables /\ fetchCall # NoCall
    BY PagedFacts DEF CallsPlaced
  <2>2. fetchCall.at = "take" => tables'[fetchCall.r] = tables[fetchCall.r]
    BY <1>5, <1>7, <2>1
  <2>3. \A x, p, k : DataFits(x, p, k) => DataFits(x, p, k)'
    BY DataKept
  <2> QED BY <2>2, <2>3 DEF Fitting, TakeFits
<1>11. TablesFit'
  <2> SUFFICES ASSUME NEW q \in DOMAIN tables', got'[q].at # "over"
               PROVE  /\ Storing(q)' => TableFits(tables[q], storeCall.all)'
                      /\ (~Storing(q))' => /\ TableFits(tables[q], asked[q])'
                                           /\ (\A k \in 1..tables[q].num : asked[q][k] \notin Partial)'
    BY DEF TablesFit
  <2>1. CASE q = r
    <3>1. TableFits(tables[r], all) /\ tables[r].ids \in Seq(Blocks) /\ tables[r].num \in Nat
      BY <1>2, <1>4, <1>5, PagedFacts DEF Fitting, TablesFit
    <3> DEFINE Fits(u) == /\ Len(u.ids) = u.num /\ u.num <= Len(all)
                          /\ \A k \in 1..u.num : /\ u.ids[k] \in allocated'
                                                 /\ cacheData'[u.ids[k]] \in {<<>>, SubSeq(all, 1, k)}
    <3>2. \A u : u.ids = Append(tables[r].ids, b) /\ u.num = tables[r].num + 1 /\ u.num <= Len(all) => Fits(u)
      <4> TAKE u
      <4> HAVE u.ids = Append(tables[r].ids, b) /\ u.num = tables[r].num + 1 /\ u.num <= Len(all)
      <4>1. cacheData'[b] \in {<<>>, SubSeq(all, 1, tables[r].num + 1)}
        BY <1>2, <1>6
      <4>2. TableFits(u, all)'
        BY <3>1, <4>1, FitsOneMore
      <4> QED BY <4>2 DEF TableFits, DataFits
    <3>3. tables'[r].ids = Append(tables[r].ids, b) /\ tables'[r].num = tables[r].num + 1
          /\ tables'[r].num <= Len(all)
      BY <1>2, <1>6, <1>7
    <3>4. Fits(tables'[r])
      BY <3>2, <3>3
    <3> QED BY <1>3, <1>4, <2>1, <3>4 DEF TableFits, DataFits
  <2>2. CASE q # r
    <3>1. ~Storing(q)' /\ ~Storing(q)
      BY <1>4, <2>2
    <3>2. TablesFit
      BY DEF Fitting
    <3>4. q \in DOMAIN tables /\ tables'[q] = tables[q] /\ got'[q] = got[q] /\ asked' = asked
      BY <1>7, <2>2
    <3> QED BY <3>1, <3>2, <3>4, TableKept
  <2> QED BY <2>1, <2>2
<1> QED BY <1>8, <1>9, <1>10, <1>11

\* A block that is reused, or one that is allocated and written.
LEMMA StoreStepFits ==
  ASSUME PagedAssumption, ChunksTell, PagedTyped, BlocksConserved, CallsPlaced, Fitting, ~pagedTorn,
         StoreReuses \/ StoreAllocates
  PROVE  Fitting'
<1>1. storeCall.at = "find" /\ storeCall.next <= Len(storeCall.all)
      /\ storeCall' = [storeCall EXCEPT !.next = @ + 1] /\ UNCHANGED <<prefixIndex, fetchCall, asked, got>>
  BY DEF StoreReuses, StoreAllocates, prefixVars
<1>0. storeCall.all \in Prompts /\ storeCall.next \in Nat \ {0} /\ Len(storeCall.all) \in Nat
  <2>1. storeCall \in Stores
    BY <1>1, PagedFacts
  <2> QED BY <2>1 DEF Stores, PagedAssumption
<1>2. PICK all \in Prompts, i \in Nat \ {0} : all = storeCall.all /\ i = storeCall.next
  BY <1>0
<1>2a. i \in 1..Len(all)
  BY <1>0, <1>1, <1>2
<1>3. CASE StoreReuses
  <2> DEFINE b == hashToBlock[LegacyHash[NextChunk]]
  <2>1. FoundChunk(all[i]) /\ AddToTable(b) /\ UNCHANGED <<allocated, cacheData, hashToBlock>>
        /\ NextChunk = all[i]
    BY <1>2, <1>3 DEF StoreReuses, NextChunk
  <2>2. DataFits(b, all, i)
    <3>1. DataFits(hashToBlock[LegacyHash[all[i]]], all, i)
      BY <1>2a, <2>1, FoundFits DEF Fitting
    <3> QED BY <2>1, <3>1
  <2>3. b \in Blocks /\ b \in allocated
    BY <2>2 DEF DataFits, PagedTyped
  <2>4. FreeBlank' /\ HashesFit' /\ IndexFits'
    <3>1. FreeBlank'
      BY <2>1 DEF Fitting, FreeBlank
    <3> QED BY <1>1, <2>1, <3>1, DataKept DEF Fitting
  <2> HIDE DEF b
  <2>5. cacheData'[b] \in {<<>>, SubSeq(storeCall.all, 1, storeCall.next)}
    BY <1>2, <2>1, <2>2 DEF DataFits
  <2>6. TablesFit' /\ TakeFits' /\ StoreFits' /\ HitsFit'
    BY <1>1, <2>1, <2>3, <2>5, AddFits
  <2> QED BY <2>4, <2>6 DEF Fitting
<1>4. CASE StoreAllocates
  <2>1. PICK b \in Blocks \ allocated :
          /\ AddToTable(b) /\ allocated' = allocated \cup {b}
          /\ cacheData' = [cacheData EXCEPT ![b] = BlockSlice] \/ UNCHANGED cacheData
          /\ hashToBlock' = (IF NextChunk \in Partial THEN hashToBlock
                             ELSE DictWith(hashToBlock, LegacyHash[NextChunk], b))
    <3>1. Head(freeQueue) \in Blocks \ allocated
      BY <1>4, BlockTaken DEF StoreAllocates, PagedTyped
    <3> QED BY <1>4, <3>1 DEF StoreAllocates
  <2>2. cacheData[b] = <<>>
    BY DEF Fitting, FreeBlank
  <2>3. /\ cacheData'[b] \in {<<>>, SubSeq(all, 1, i)} /\ \A x \in Blocks : x # b => cacheData'[x] = cacheData[x]
    <3>1. BlockSlice = SubSeq(all, 1, i)
      BY <1>2 DEF BlockSlice
    <3>2. cacheData \in [Blocks -> Seq(Chunks)]
      BY DEF PagedTyped
    <3> QED BY <2>1, <2>2, <3>1, <3>2
  <2>4. allocated \subseteq allocated' /\ \A x \in allocated : cacheData'[x] = cacheData[x]
    BY <2>1, <2>3 DEF PagedTyped
  <2>5. FreeBlank'
    BY <2>1, <2>3 DEF Fitting, FreeBlank
  <2>6. IndexFits'
    BY <1>1, <2>4, DataKept DEF Fitting
  <2>7. HashesFit'
    <3>1. CASE NextChunk \in Partial
      BY <2>1, <2>4, <3>1, DataKept DEF Fitting
    <3>2. CASE NextChunk \notin Partial
      <4>1. NextChunk = all[i]
        BY <1>2 DEF NextChunk
      <4>2. /\ DOMAIN hashToBlock' = DOMAIN hashToBlock \cup {LegacyHash[all[i]]}
            /\ hashToBlock'[LegacyHash[all[i]]] = b
            /\ \A h \in DOMAIN hashToBlock : h # LegacyHash[all[i]] => hashToBlock'[h] = hashToBlock[h]
        BY <2>1, <3>2, <4>1 DEF DictWith
      <4>3. DataFits(b, all, i)'
        BY <2>1, <2>3 DEF DataFits
      <4>4. \A x, p, k : DataFits(x, p, k) => DataFits(x, p, k)'
        BY <2>4, DataKept
      <4>5. ASSUME NEW h \in DOMAIN hashToBlock, h # LegacyHash[all[i]]
            PROVE  \E p \in Prompts : \E j \in 1..Len(p) :
                     p[j] \notin Partial /\ LegacyHash[p[j]] = h /\ DataFits(hashToBlock[h], p, j)'
        <5>1. PICK p \in Prompts : \E j \in 1..Len(p) :
                p[j] \notin Partial /\ LegacyHash[p[j]] = h /\ DataFits(hashToBlock[h], p, j)
          BY DEF Fitting, HashesFit
        <5>2. PICK j \in 1..Len(p) :
                p[j] \notin Partial /\ LegacyHash[p[j]] = h /\ DataFits(hashToBlock[h], p, j)
          BY <5>1
        <5>3. hashToBlock'[h] = hashToBlock[h]
          BY <4>2, <4>5
        <5>4. DataFits(hashToBlock[h], p, j)'
          BY <4>4, <5>2, <5>3 DEF DataFits
        <5> QED BY <5>2, <5>4
      <4>6. ASSUME NEW h \in DOMAIN hashToBlock'
            PROVE  \E p \in Prompts : \E j \in 1..Len(p) :
                     p[j] \notin Partial /\ LegacyHash[p[j]] = h /\ DataFits(hashToBlock[h], p, j)'
        <5>1. CASE h = LegacyHash[all[i]]
          <6>1. DataFits(hashToBlock[h], all, i)'
            BY <4>2, <4>3, <5>1 DEF DataFits
          <6> QED BY <1>2a, <3>2, <4>1, <5>1, <6>1
        <5>2. CASE h # LegacyHash[all[i]]
          BY <4>2, <4>5, <5>2
        <5> QED BY <5>1, <5>2
      <4> QED BY <4>6 DEF HashesFit
    <3> QED BY <3>1, <3>2
  <2>8. cacheData'[b] \in {<<>>, SubSeq(storeCall.all, 1, storeCall.next)} /\ b \in allocated' /\ b \in Blocks
    BY <1>2, <2>1, <2>3
  <2>9. TablesFit' /\ TakeFits' /\ StoreFits' /\ HitsFit'
    BY <1>1, <2>1, <2>4, <2>8, AddFits
  <2> QED BY <2>5, <2>6, <2>7, <2>9 DEF Fitting
<1> QED BY <1>3, <1>4

\* The end of a store: the index names the blocks of every prefix of its text.
LEMMA StoreEndFits ==
  ASSUME PagedAssumption, PagedTyped, CallsPlaced, Fitting, ~pagedTorn, StoreEnds
  PROVE  Fitting'
<1>0. UNCHANGED <<allocated, cacheData, hashToBlock, tables, fetchCall, asked>>
      /\ storeCall.at = "find" /\ storeCall' = NoCall
  BY DEF StoreEnds, managerVars
<1>1. storeCall # NoCall /\ storeCall \in Stores
  BY <1>0, PagedFacts
<1>2. PICK r \in DOMAIN tables, all \in Prompts : r = storeCall.r /\ all = storeCall.all
  BY <1>1 DEF CallsPlaced, Stores
<1> DEFINE t == tables[r]
           named == {SubSeq(all, 1, i) : i \in DOMAIN t.ids}
<1>3. /\ prefixIndex' = [p \in DOMAIN prefixIndex \cup named |->
                       IF p \in named THEN SubSeq(t.ids, 1, Len(p)) ELSE prefixIndex[p]]
      /\ got' = [got EXCEPT ![r] = [at |-> "over"]]
  BY <1>2 DEF StoreEnds
<1>4. /\ t.ids \in Seq(Blocks) /\ t.num \in Nat /\ all \in Seq(Chunks) /\ Len(all) \in Nat
      /\ Len(t.ids) = t.num /\ t.num <= Len(all) /\ DOMAIN t.ids = 1..t.num
      /\ \A k \in 1..t.num : DataFits(t.ids[k], all, k)
  <2>1. t.ids \in Seq(Blocks) /\ t.num \in Nat /\ all \in Seq(Chunks) /\ Len(all) \in Nat
        /\ DOMAIN t.ids = 1..Len(t.ids)
    BY PagedFacts DEF PagedAssumption
  <2>2. TableFits(tables[r], all)
    <3>1. Storing(r) /\ got[r].at # "over"
      BY <1>1, <1>2 DEF Storing, CallsPlaced
    <3> QED BY <1>2, <3>1 DEF Fitting, TablesFit
  <2> QED BY <2>1, <2>2 DEF TableFits
<1>5. IndexFits'
  <2>1. ASSUME NEW q \in named
        PROVE  /\ Len(prefixIndex'[q]) = Len(q)
               /\ \A k \in 1..Len(q) : DataFits(prefixIndex[q][k], q, k)'
    <3>1. PICK i \in 1..t.num : q = SubSeq(all, 1, i)
      BY <1>4
    <3>2. i \in 1..Len(all) /\ i \in 1..Len(t.ids)
      BY <1>4
    <3>3. Len(q) = i /\ \A k \in 1..i : SubSeq(q, 1, k) = SubSeq(all, 1, k)
      BY <1>4, <3>1, <3>2, PrefixOfPrefix
    <3>4. prefixIndex'[q] = SubSeq(t.ids, 1, i)
      BY <1>3, <2>1, <3>3
    <3>5. Len(SubSeq(t.ids, 1, i)) = i /\ \A k \in 1..i : SubSeq(t.ids, 1, i)[k] = t.ids[k]
      BY <1>4, <3>2
    <3>6. \A k \in 1..i : prefixIndex'[q][k] = t.ids[k] /\ k \in 1..t.num
      BY <1>4, <3>4, <3>5
    <3> HIDE DEF t, named
    <3> QED BY <1>0, <1>4, <3>3, <3>4, <3>5, <3>6 DEF DataFits
  <2>2. ASSUME NEW q \in DOMAIN prefixIndex, q \notin named
        PROVE  /\ Len(prefixIndex'[q]) = Len(q)
               /\ \A k \in 1..Len(q) : DataFits(prefixIndex[q][k], q, k)'
    <3> HIDE DEF t, named
    <3>1. prefixIndex'[q] = prefixIndex[q]
      BY <1>3, <2>2
    <3>2. Len(prefixIndex[q]) = Len(q) /\ \A k \in 1..Len(q) : DataFits(prefixIndex[q][k], q, k)
      BY DEF Fitting, IndexFits
    <3> QED BY <1>0, <3>1, <3>2 DEF DataFits
  <2> HIDE DEF t, named
  <2>3. DOMAIN prefixIndex' = DOMAIN prefixIndex \cup named
    BY <1>3
  <2> QED BY <2>1, <2>2, <2>3 DEF IndexFits
<1>6. FreeBlank' /\ HashesFit' /\ StoreFits' /\ TakeFits'
  <2>1. FreeBlank' /\ StoreFits'
    BY <1>0 DEF Fitting, FreeBlank, StoreFits
  <2>2. TakeFits'
    BY <1>0 DEF Fitting, TakeFits, DataFits
  <2> QED BY <1>0, <2>1, <2>2, DataKept DEF Fitting
<1>7. got'[r].at = "over" /\ \A q \in CacheUsers : q # r => got'[q] = got[q]
  <2>1. [at |-> "over"].at = "over"
    OBVIOUS
  <2> QED BY <1>3, <2>1, PagedFacts
<1>8. HitsFit'
  <2> SUFFICES ASSUME NEW q \in CacheUsers, got'[q].at = "hit"
               PROVE  /\ got'[q].cached = got'[q].done /\ Len(got'[q].kv) = got'[q].done
                      /\ \A i \in DOMAIN got'[q].kv : got'[q].kv[i] = SubSeq(asked'[q], 1, i)
    BY DEF HitsFit
  <2>1. got'[q] = got[q]
    BY <1>7
  <2> QED BY <1>0, <2>1 DEF Fitting, HitsFit
<1>9. TablesFit'
  <2> SUFFICES ASSUME NEW q \in DOMAIN tables', got'[q].at # "over"
               PROVE  /\ Storing(q)' => TableFits(tables[q], storeCall.all)'
                      /\ (~Storing(q))' => /\ TableFits(tables[q], asked[q])'
                                           /\ (\A k \in 1..tables[q].num : asked[q][k] \notin Partial)'
    BY DEF TablesFit
  <2>1. q # r /\ q \in CacheUsers /\ q \in DOMAIN tables
    BY <1>0, <1>7, PagedFacts
  <2>2. ~Storing(q)' /\ ~Storing(q)
    BY <1>0, <1>2, <2>1 DEF Storing
  <2>3. TablesFit
    BY DEF Fitting
  <2>4. allocated \subseteq allocated' /\ \A b \in allocated : cacheData'[b] = cacheData[b]
    BY <1>0
  <2>5. tables' = tables /\ got'[q] = got[q] /\ asked' = asked
    BY <1>0, <1>7, <2>1
  <2> QED BY <2>1, <2>2, <2>3, <2>4, <2>5, TableKept
<1> QED BY <1>5, <1>6, <1>8, <1>9 DEF Fitting

--------------------------------------------------------------------------------
\* A fork and a copy before generation concern tables of requests that are over.
LEMMA OthersFit ==
  ASSUME PagedTyped, CallsPlaced, Fitting, ~pagedTorn, NEW r \in CacheUsers,
         fetchCall = NoCall, storeCall = NoCall, UNCHANGED <<fetchCall, storeCall, asked, hashToBlock, prefixIndex>>,
         \A q \in CacheUsers : q # r => got'[q] = got[q], got'[r].at = "over",
         \A q \in DOMAIN tables' : q # r => q \in DOMAIN tables /\ tables'[q] = tables[q],
         allocated \subseteq allocated', \A b \in allocated : cacheData'[b] = cacheData[b],
         FreeBlank'
  PROVE  Fitting'
<1>1. HashesFit' /\ IndexFits'
  BY DataKept DEF Fitting
<1>2. TakeFits' /\ StoreFits'
  BY PagedFacts DEF TakeFits, StoreFits
<1>3. HitsFit'
  <2> SUFFICES ASSUME NEW q \in CacheUsers, got'[q].at = "hit"
               PROVE  /\ got'[q].cached = got'[q].done /\ Len(got'[q].kv) = got'[q].done
                      /\ \A i \in DOMAIN got'[q].kv : got'[q].kv[i] = SubSeq(asked'[q], 1, i)
    BY DEF HitsFit
  <2>1. got'[q] = got[q]
    OBVIOUS
  <2> QED BY <2>1 DEF Fitting, HitsFit
<1>4. TablesFit'
  <2> SUFFICES ASSUME NEW q \in DOMAIN tables', got'[q].at # "over"
               PROVE  /\ Storing(q)' => TableFits(tables[q], storeCall.all)'
                      /\ (~Storing(q))' => /\ TableFits(tables[q], asked[q])'
                                           /\ (\A k \in 1..tables[q].num : asked[q][k] \notin Partial)'
    BY DEF TablesFit
  <2>1. q # r /\ q \in DOMAIN tables /\ tables'[q] = tables[q]
    OBVIOUS
  <2>2. got'[q] = got[q]
    BY <2>1, PagedFacts
  <2>3. ~Storing(q)' /\ ~Storing(q)
    BY DEF Storing
  <2>4. TablesFit
    BY DEF Fitting
  <2> QED BY <2>1, <2>2, <2>3, <2>4, TableKept
<1> QED BY <1>1, <1>2, <1>3, <1>4 DEF Fitting

\* As long as nothing was given back and no clear came in the middle, all that is cached fits.
FitsInv == ~anyReleased /\ ~pagedTorn => Fitting

\* At first nothing is cached.
LEMMA FitsInit ==
  ASSUME PagedInit
  PROVE  FitsInv
<1>1. DOMAIN tables = {} /\ DOMAIN hashToBlock = {} /\ DOMAIN prefixIndex = {}
  BY DEF PagedInit
<1>2. FreeBlank /\ HashesFit /\ IndexFits /\ TablesFit
  BY <1>1 DEF PagedInit, FreeBlank, HashesFit, IndexFits, TablesFit
<1>3. TakeFits /\ StoreFits /\ HitsFit
  BY DEF PagedInit, TakeFits, StoreFits, HitsFit, NoCall, NotAsked
<1> QED BY <1>2, <1>3 DEF FitsInv, Fitting

\* A release and a torn clear end the promise; every other step keeps what is cached fitting.
LEMMA FitsStep ==
  ASSUME PagedAssumption, ChunksTell, PagedTyped, BlocksConserved, CallsPlaced, FitsInv,
         [PagedNext]_pagedVars
  PROVE  FitsInv'
<1> SUFFICES ASSUME ~anyReleased', ~pagedTorn' PROVE Fitting'
  BY DEF FitsInv
<1>a. ~pagedTorn /\ ~anyReleased
  <2>1. CASE ClearPaged \/ \E r \in CacheUsers : ReleaseCache(r)
    <3>1. CASE ClearPaged
      <4>1. pagedTorn' = (pagedTorn \/ fetchCall # NoCall \/ storeCall # NoCall)
            /\ anyReleased' = anyReleased
        BY <3>1 DEF ClearPaged
      <4> QED BY <4>1, Zenon
    <3>2. CASE \E r \in CacheUsers : ReleaseCache(r)
      <4>1. anyReleased' = TRUE
        BY <3>2 DEF ReleaseCache
      <4> QED BY <4>1
    <3> QED BY <2>1, <3>1, <3>2
  <2>2. CASE UNCHANGED ghostVars
    BY <2>2 DEF ghostVars
  <2>3. (\E r \in CacheUsers : FetchFind(r) \/ PagedStoreBegins(r) \/ CowBegins(r)) => UNCHANGED ghostVars
    BY DEF FetchFind, PagedStoreBegins, CowBegins
  <2>4. FetchIndex \/ FetchTake \/ FetchEnds \/ StoreReuses \/ StoreAllocates \/ StoreEnds => UNCHANGED ghostVars
    BY DEF FetchIndex, FetchTake, FetchEnds, StoreReuses, StoreAllocates, StoreEnds
  <2>5. (\E r, q \in CacheUsers : ForkCache(r, q)) \/ CowStep \/ CowEnds \/ UNCHANGED pagedVars => UNCHANGED ghostVars
    BY DEF ForkCache, CowStep, CowEnds, pagedVars
  <2> QED BY <2>1, <2>2, <2>3, <2>4, <2>5 DEF PagedNext
<1>b. Fitting
  BY <1>a DEF FitsInv
<1>1. ASSUME NEW r \in CacheUsers, ReleaseCache(r) PROVE Fitting'
  BY <1>1 DEF ReleaseCache
<1>2. ASSUME NEW r \in CacheUsers, NEW q \in CacheUsers, ForkCache(r, q) PROVE Fitting'
  <2>1. fetchCall = NoCall /\ storeCall = NoCall /\ got' = [got EXCEPT ![q] = [at |-> "over"]]
        /\ UNCHANGED <<allocated, cacheData, hashToBlock, prefixIndex, fetchCall, storeCall, asked>>
        /\ tables' = DictWith(tables, q, tables[r])
    BY <1>2 DEF ForkCache
  <2>2. got'[q].at = "over" /\ \A x \in CacheUsers : x # q => got'[x] = got[x]
    <3>1. [at |-> "over"].at = "over"
      OBVIOUS
    <3> QED BY <2>1, <3>1, PagedFacts
  <2>3. \A x \in DOMAIN tables' : x # q => x \in DOMAIN tables /\ tables'[x] = tables[x]
    BY <2>1 DEF DictWith
  <2>4. FreeBlank'
    BY <1>b, <2>1 DEF Fitting, FreeBlank
  <2> QED BY <1>a, <1>b, <2>1, <2>2, <2>3, <2>4, OthersFit
<1>3. ASSUME cowCall.at = "cow", CowStep PROVE Fitting'
  <2>1. PICK r \in CacheUsers : r = cowCall.r /\ got[r].at = "over" /\ fetchCall = NoCall /\ storeCall = NoCall
    <3>1. cowCall # NoCall
      BY <1>3, PagedFacts
    <3> QED BY <3>1, PagedFacts DEF CallsPlaced
  <2>2. UNCHANGED <<hashToBlock, prefixIndex, fetchCall, storeCall, asked, got>>
    BY <1>3 DEF CowStep, prefixVars
  <2>3. \A q \in DOMAIN tables' : q # r => q \in DOMAIN tables /\ tables'[q] = tables[q]
    BY <1>3, <2>1 DEF CowStep
  <2>4. /\ allocated \subseteq allocated' /\ \A b \in allocated : cacheData'[b] = cacheData[b]
        /\ FreeBlank'
    <3> DEFINE b == tables[cowCall.r].ids[cowCall.i]
               n == Head(freeQueue)
    <3>1. CASE b \in allocated /\ refCount[b] > 1 /\ freeQueue # <<>>
      <4>1. allocated' = allocated \cup {n} /\ cacheData' = [cacheData EXCEPT ![n] = cacheData[b]]
        BY <1>3, <3>1 DEF CowStep
      <4>2. n \in Blocks /\ n \notin allocated
        BY <3>1, BlockTaken DEF PagedTyped
      <4>3. cacheData \in [Blocks -> Seq(Chunks)] /\ allocated \subseteq Blocks
        BY DEF PagedTyped
      <4> HIDE DEF n, b
      <4> QED BY <1>b, <4>1, <4>2, <4>3 DEF Fitting, FreeBlank
    <3>2. CASE ~(b \in allocated /\ refCount[b] > 1 /\ freeQueue # <<>>)
      <4>1. UNCHANGED <<allocated, cacheData>>
        BY <1>3, <3>2 DEF CowStep
      <4> QED BY <1>b, <4>1 DEF Fitting, FreeBlank
    <3> QED BY <3>1, <3>2
  <2> QED BY <1>a, <1>b, <2>1, <2>2, <2>3, <2>4, OthersFit
<1>4. ASSUME ClearPaged PROVE Fitting'
  <2>1. fetchCall = NoCall /\ storeCall = NoCall
    BY <1>4 DEF ClearPaged
  <2>2. DOMAIN tables' = {} /\ DOMAIN hashToBlock' = {} /\ DOMAIN prefixIndex' = {}
        /\ UNCHANGED <<fetchCall, storeCall, asked, got>>
    BY <1>4 DEF ClearPaged, callerVars
  <2>3. FreeBlank'
    BY <1>4 DEF ClearPaged, FreeBlank
  <2>4. HashesFit' /\ IndexFits' /\ TablesFit'
    BY <2>2 DEF HashesFit, IndexFits, TablesFit
  <2>5. TakeFits' /\ StoreFits' /\ HitsFit'
    BY <1>b, <2>1, <2>2, PagedFacts DEF TakeFits, StoreFits, HitsFit, Fitting
  <2> QED BY <2>3, <2>4, <2>5 DEF Fitting
<1>5. ASSUME UNCHANGED <<allocated, cacheData, hashToBlock, tables, prefixIndex, fetchCall, storeCall, asked, got>>
      PROVE  Fitting'
  BY <1>b, <1>5, SMTT(30) DEF Fitting, FreeBlank, HashesFit, IndexFits, TablesFit, TableFits, TakeFits, StoreFits,
                    HitsFit, Storing, DataFits
<1>6. ASSUME \/ \E r \in CacheUsers : CowBegins(r)
             \/ CowEnds \/ UNCHANGED pagedVars
      PROVE  Fitting'
  <2>1. UNCHANGED <<allocated, cacheData, hashToBlock, tables, prefixIndex, fetchCall, storeCall, asked, got>>
    BY <1>6 DEF CowBegins, CowEnds, pagedVars, managerVars, prefixVars, callerVars
  <2> QED BY <1>5, <2>1
<1>7. CowStep => cowCall.at = "cow"
  BY DEF CowStep
<1> QED BY <1>a, <1>b, <1>1, <1>2, <1>3, <1>4, <1>6, <1>7, FindFits, IndexFound, TakeStepFits, EndFits,
           BeginFits, StoreStepFits, StoreEndFits DEF PagedNext

\* What a request is given was computed for its own prompt, if a block's hash tells what
\* it was computed for, nothing was given back and no clear came in the middle.
THEOREM FetchesFit ==
  ASSUME ChunksTell
  PROVE  PagedSpec => []FetchedFits
<1> DEFINE PagedInv == PagedTyped /\ BlocksConserved /\ CallsPlaced /\ FitsInv
<1>1. PagedInit => PagedInv
  <2> SUFFICES ASSUME PagedInit PROVE PagedInv
    OBVIOUS
  <2>1. PagedTyped
    BY PagedAssumption, PagedTypedInit
  <2>2. BlocksConserved
    BY PagedAssumption, ConservedInit DEF PagedAssumption
  <2> QED BY <2>1, <2>2, CallsPlacedInit, FitsInit
<1>2. PagedInv /\ [PagedNext]_pagedVars => PagedInv'
  BY PagedAssumption, PagedTypedStep, ConservedStep, CallsPlacedStep, FitsStep
<1>3. PagedInv => FetchedFits
  BY DEF FitsInv, Fitting, HitsFit, FetchedFits
<1> QED BY <1>1, <1>2, <1>3, PTL DEF PagedSpec

--------------------------------------------------------------------------------
(* FreeQueueList: the linked list of free blocks is a queue.                 *)

\* The cells of a list that holds the blocks q, from its head to its tail.
Cell(q, i) == IF i = 0 THEN FakeHead ELSE IF i = Len(q) + 1 THEN FakeTail ELSE q[i]

\* These links go along those cells, forth and back, and no other block has any.
Linked(q, nx, pv) ==
  /\ q \in Seq(ListBlocks) /\ IsInjective(q)
  /\ DOMAIN nx = ListCells /\ DOMAIN pv = ListCells
  /\ \A i \in 0..Len(q) : nx[Cell(q, i)] = Cell(q, i + 1) /\ pv[Cell(q, i + 1)] = Cell(q, i)
  /\ pv[FakeHead] = NoBlock /\ nx[FakeTail] = NoBlock
  /\ \A b \in ListBlocks \ ToSet(q) : nx[b] = NoBlock /\ pv[b] = NoBlock

\* A cell is met once.
LEMMA CellsDiffer ==
  ASSUME ListSize \in Nat \ {0}, NEW q \in Seq(ListBlocks), IsInjective(q)
  PROVE  /\ Len(q) \in Nat
         /\ \A i \in 0..(Len(q) + 1) : Cell(q, i) \in ListCells /\ Cell(q, i) # NoBlock
         /\ \A i, j \in 0..(Len(q) + 1) : Cell(q, i) = Cell(q, j) => i = j
         /\ \A i \in 1..Len(q) : Cell(q, i) = q[i] /\ q[i] \in ListBlocks /\ q[i] \in ToSet(q)
         /\ Cell(q, 0) = FakeHead /\ Cell(q, Len(q) + 1) = FakeTail
         /\ \A b \in ToSet(q) : \E i \in 1..Len(q) : b = q[i]
<1>1. /\ Len(q) \in Nat /\ DOMAIN q = 1..Len(q)
      /\ \A i \in 1..Len(q) : q[i] \in 1..ListSize
  BY DEF ListBlocks
<1>2. \A i \in 1..Len(q) : Cell(q, i) = q[i] /\ q[i] \in ListBlocks /\ q[i] \in ToSet(q)
  BY <1>1 DEF Cell, ListBlocks, ToSet
<1>3. Cell(q, 0) = FakeHead /\ Cell(q, Len(q) + 1) = FakeTail
  BY <1>1 DEF Cell
<1>4. \A i \in 0..(Len(q) + 1) : i = 0 \/ i = Len(q) + 1 \/ i \in 1..Len(q)
  BY <1>1
<1>5. \A i \in 0..(Len(q) + 1) : Cell(q, i) \in ListCells /\ Cell(q, i) # NoBlock
  BY <1>1, <1>2, <1>3, <1>4 DEF ListCells, ListBlocks, NoBlock, FakeHead, FakeTail
<1>6. \A i, j \in 1..Len(q) : q[i] = q[j] => i = j
  BY <1>1 DEF IsInjective
<1>7. ASSUME NEW i \in 0..(Len(q) + 1), NEW j \in 0..(Len(q) + 1), Cell(q, i) = Cell(q, j)
      PROVE  i = j
  BY <1>1, <1>2, <1>3, <1>4, <1>6, <1>7 DEF ListBlocks, FakeHead, FakeTail
<1>8. \A b \in ToSet(q) : \E i \in 1..Len(q) : b = q[i]
  BY <1>1 DEF ToSet
<1> QED BY <1>1, <1>2, <1>3, <1>5, <1>7, <1>8

\* There are no more blocks in the list than blocks.
LEMMA ListFits ==
  ASSUME ListSize \in Nat \ {0}, NEW q \in Seq(ListBlocks), IsInjective(q)
  PROVE  Len(q) <= ListSize
<1>1. Len(q) \in Nat /\ DOMAIN q = 1..Len(q) /\ q \in [1..Len(q) -> 1..ListSize]
  BY DEF ListBlocks
<1>2. IsFiniteSet(1..Len(q)) /\ Cardinality(1..Len(q)) = Len(q)
      /\ IsFiniteSet(1..ListSize) /\ Cardinality(1..ListSize) = ListSize
  BY <1>1, Places
<1>3. \A i, j \in 1..Len(q) : q[i] = q[j] => i = j
  BY <1>1 DEF IsInjective
<1>4. ASSUME ListSize < Len(q) PROVE FALSE
  <2>1. \E x, y \in 1..Len(q) : x # y /\ q[x] = q[y]
    BY <1>1, <1>2, <1>4, FS_PigeonHole
  <2> QED BY <1>3, <2>1
<1> QED BY <1>1, <1>4

\* The cells met along the links, one after the other.
LEMMA AlongUnfolds ==
  ASSUME ListSize \in Nat \ {0}, NEW nx
  PROVE  CellsAlong(nx) = [i \in 0..ListSize |->
           IF i = 0 THEN FakeHead
           ELSE IF CellsAlong(nx)[i - 1] = NoBlock THEN NoBlock ELSE nx[CellsAlong(nx)[i - 1]]]
<1> DEFINE E(n, g) == [i \in 0..n |->
             IF i = 0 THEN FakeHead ELSE IF g[i - 1] = NoBlock THEN NoBlock ELSE nx[g[i - 1]]]
           f == CHOOSE g : g = E(ListSize, g)
           H == {n \in Nat : \E g : g = E(n, g)}
<1>1. CellsAlong(nx) = f
  BY DEF CellsAlong
<1>2. 0 \in H
  <2> DEFINE g == [i \in 0..0 |-> FakeHead]
  <2>1. g = E(0, g)
    OBVIOUS
  <2> QED BY <2>1
<1>3. ASSUME NEW n \in Nat, n \in H PROVE n + 1 \in H
  <2>1. PICK g : g = E(n, g)
    BY <1>3
  <2> DEFINE h == [i \in 0..(n + 1) |-> IF i <= n THEN g[i]
                     ELSE IF g[n] = NoBlock THEN NoBlock ELSE nx[g[n]]]
  <2>2. h = E(n + 1, h)
    <3>1. ASSUME NEW i \in 0..(n + 1)
          PROVE  h[i] = IF i = 0 THEN FakeHead
                        ELSE IF h[i - 1] = NoBlock THEN NoBlock ELSE nx[h[i - 1]]
      <4>1. CASE i <= n
        <5>1. h[i] = g[i] /\ (i # 0 => h[i - 1] = g[i - 1]) /\ i \in 0..n
          BY <4>1
        <5>2. g[i] = E(n, g)[i]
          BY <2>1
        <5> HIDE DEF h
        <5> QED BY <5>1, <5>2
      <4>2. CASE i = n + 1
        BY <4>2
      <4> QED BY <4>1, <4>2
    <3> QED BY <3>1
  <2>3. \E x : x = E(n + 1, x)
    <3> HIDE DEF h, E
    <3> QED BY <2>2
  <2> QED BY <2>3
<1>4. ListSize \in H
  <2> HIDE DEF H
  <2>1. Nat \subseteq H
    BY <1>2, <1>3, Induction
  <2> QED BY <2>1
<1>5. f = E(ListSize, f)
  BY <1>4
<1> QED BY <1>1, <1>5

\* Along the links of a list one meets its cells.
LEMMA AlongCells ==
  ASSUME ListSize \in Nat \ {0}, NEW q, NEW nx, NEW pv, Linked(q, nx, pv)
  PROVE  Len(q) <= ListSize /\ \A i \in 0..Len(q) : CellsAlong(nx)[i] = Cell(q, i)
<1> DEFINE H == {n \in Nat : n <= Len(q) => CellsAlong(nx)[n] = Cell(q, n)}
<1>0. /\ q \in Seq(ListBlocks) /\ IsInjective(q) /\ Len(q) \in Nat
      /\ \A i \in 0..(Len(q) + 1) : Cell(q, i) # NoBlock
      /\ \A i \in 0..Len(q) : nx[Cell(q, i)] = Cell(q, i + 1)
      /\ Cell(q, 0) = FakeHead
  BY CellsDiffer DEF Linked
<1>1. Len(q) <= ListSize
  BY <1>0, ListFits
<1>2. 0 \in H
  <2>1. CellsAlong(nx)[0] = FakeHead
    BY AlongUnfolds
  <2> QED BY <1>0, <2>1
<1>3. ASSUME NEW n \in Nat, n \in H PROVE n + 1 \in H
  <2> SUFFICES ASSUME n + 1 <= Len(q) PROVE CellsAlong(nx)[n + 1] = Cell(q, n + 1)
    OBVIOUS
  <2>1. CellsAlong(nx)[n] = Cell(q, n) /\ n \in 0..Len(q) /\ n + 1 \in 0..ListSize /\ n + 1 # 0
        /\ (n + 1) - 1 = n
    BY <1>0, <1>1, <1>3
  <2>2. CellsAlong(nx)[n + 1] = IF CellsAlong(nx)[n] = NoBlock THEN NoBlock ELSE nx[CellsAlong(nx)[n]]
    BY <2>1, AlongUnfolds
  <2>3. nx[Cell(q, n)] = Cell(q, n + 1) /\ Cell(q, n) # NoBlock
    BY <1>0, <2>1
  <2> QED BY <2>1, <2>2, <2>3
<1>4. Nat \subseteq H
  <2> HIDE DEF H
  <2> QED BY <1>2, <1>3, Induction
<1> QED BY <1>0, <1>1, <1>4

\* The list holds the blocks q.
ListHolds(q) == Linked(q, nextOf, prevOf) /\ freeCount = Len(q)

\* Its blocks are those met along the links.
LEMMA ListedIs ==
  ASSUME ListSize \in Nat \ {0}, NEW q, NEW nx, NEW pv, Linked(q, nx, pv)
  PROVE  [i \in 1..Len(q) |-> CellsAlong(nx)[i]] = q
<1>1. q \in Seq(ListBlocks) /\ IsInjective(q) /\ Len(q) \in Nat
  BY DEF Linked
<1>2. \A i \in 1..Len(q) : CellsAlong(nx)[i] = q[i]
  <2>1. \A i \in 0..Len(q) : CellsAlong(nx)[i] = Cell(q, i)
    BY AlongCells
  <2>2. \A i \in 1..Len(q) : Cell(q, i) = q[i] /\ i \in 0..Len(q)
    BY <1>1, CellsDiffer
  <2> QED BY <2>1, <2>2
<1>3. q = [i \in 1..Len(q) |-> q[i]]
  BY <1>1
<1> QED BY <1>2, <1>3

\* A list with other blocks, of which those are linked that the links go along.
LEMMA LinkedBy ==
  ASSUME NEW q \in Seq(ListBlocks), IsInjective(q), NEW nx, NEW pv,
         DOMAIN nx = ListCells, DOMAIN pv = ListCells,
         \A i \in 0..Len(q) : nx[Cell(q, i)] = Cell(q, i + 1) /\ pv[Cell(q, i + 1)] = Cell(q, i),
         pv[FakeHead] = NoBlock, nx[FakeTail] = NoBlock,
         \A b \in ListBlocks \ ToSet(q) : nx[b] = NoBlock /\ pv[b] = NoBlock
  PROVE  Linked(q, nx, pv)
  BY DEF Linked

\* The blocks that are left when the first n are taken.
LEMMA LeftOver ==
  ASSUME ListSize \in Nat \ {0}, NEW q \in Seq(ListBlocks), IsInjective(q), NEW n \in 1..Len(q)
  PROVE  LET rest == SubSeq(q, n + 1, Len(q))
         IN /\ rest \in Seq(ListBlocks) /\ IsInjective(rest) /\ Len(rest) = Len(q) - n
            /\ \A i \in 1..(Len(q) - n) : rest[i] = q[i + n]
            /\ \A i \in 1..(Len(rest) + 1) : Cell(rest, i) = Cell(q, i + n)
            /\ ToSet(rest) = {q[i] : i \in (n + 1)..Len(q)}
<1> DEFINE rest == SubSeq(q, n + 1, Len(q))
<1>1. /\ rest \in Seq(ListBlocks) /\ Len(rest) = Len(q) - n /\ DOMAIN rest = 1..(Len(q) - n)
      /\ \A i \in 1..(Len(q) - n) : rest[i] = q[i + n]
      /\ Len(q) \in Nat /\ DOMAIN q = 1..Len(q) /\ n \in Nat
  OBVIOUS
<1> HIDE DEF rest
<1>2. IsInjective(rest)
  <2> SUFFICES ASSUME NEW i \in 1..(Len(q) - n), NEW j \in 1..(Len(q) - n), rest[i] = rest[j]
               PROVE  i = j
    BY <1>1 DEF IsInjective
  <2>1. q[i + n] = q[j + n] /\ i + n \in 1..Len(q) /\ j + n \in 1..Len(q)
    BY <1>1
  <2>2. i + n = j + n
    BY <1>1, <2>1 DEF IsInjective
  <2> QED BY <1>1, <2>2
<1>3. ASSUME NEW i \in 1..(Len(rest) + 1) PROVE Cell(rest, i) = Cell(q, i + n)
  <2>1. CASE i = Len(rest) + 1
    <3>1. i # 0 /\ i + n = Len(q) + 1 /\ i + n # 0
      BY <1>1, <2>1
    <3> QED BY <2>1, <3>1 DEF Cell
  <2>2. CASE i # Len(rest) + 1
    <3>1. i \in 1..(Len(q) - n)
      BY <1>1, <2>2
    <3>2. i # 0 /\ i + n # Len(q) + 1 /\ i + n # 0
      BY <1>1, <3>1
    <3> QED BY <1>1, <2>2, <3>1, <3>2 DEF Cell
  <2> QED BY <2>1, <2>2
<1>4. ToSet(rest) = {q[i] : i \in (n + 1)..Len(q)}
  <2>1. ASSUME NEW b \in ToSet(rest) PROVE b \in {q[i] : i \in (n + 1)..Len(q)}
    <3>1. PICK i \in 1..(Len(q) - n) : b = rest[i]
      BY <1>1 DEF ToSet
    <3>2. b = q[i + n] /\ i + n \in (n + 1)..Len(q)
      BY <1>1, <3>1
    <3> QED BY <3>2
  <2>2. ASSUME NEW i \in (n + 1)..Len(q) PROVE q[i] \in ToSet(rest)
    <3>1. i - n \in 1..(Len(q) - n) /\ (i - n) + n = i
      BY <1>1
    <3>2. rest[i - n] = q[i]
      BY <1>1, <3>1
    <3> QED BY <1>1, <3>1, <3>2 DEF ToSet
  <2> QED BY <2>1, <2>2
<1> QED BY <1>1, <1>2, <1>3, <1>4 DEF rest

\* popleft_n takes the first blocks out of the list, and it stays one.
LEMMA PopLeftMaps ==
  ASSUME ListSize \in Nat \ {0}, NEW q, ListHolds(q), NEW n, PopLeft(n)
  PROVE  n \in 1..Len(q) /\ ListHolds(SubSeq(q, n + 1, Len(q)))'
<1> DEFINE rest == SubSeq(q, n + 1, Len(q))
<1>1. n \in 1..Len(q) /\ q \in Seq(ListBlocks) /\ IsInjective(q) /\ Len(q) \in Nat
  BY DEF PopLeft, ListHolds, Linked
<1>2. /\ rest \in Seq(ListBlocks) /\ IsInjective(rest) /\ Len(rest) = Len(q) - n
      /\ \A i \in 1..(Len(rest) + 1) : Cell(rest, i) = Cell(q, i + n)
      /\ ToSet(rest) = {q[i] : i \in (n + 1)..Len(q)}
  BY <1>1, LeftOver
<1> HIDE DEF rest
<1>3. /\ \A i \in 0..(Len(q) + 1) : Cell(q, i) \in ListCells
      /\ \A i, j \in 0..(Len(q) + 1) : Cell(q, i) = Cell(q, j) => i = j
      /\ \A i \in 1..Len(q) : Cell(q, i) = q[i] /\ q[i] \in ListBlocks /\ q[i] \in ToSet(q)
      /\ Cell(q, 0) = FakeHead /\ Cell(q, Len(q) + 1) = FakeTail
      /\ \A b \in ToSet(q) : \E i \in 1..Len(q) : b = q[i]
  BY <1>1, CellsDiffer
<1>4. /\ \A i \in 0..Len(q) : nextOf[Cell(q, i)] = Cell(q, i + 1) /\ prevOf[Cell(q, i + 1)] = Cell(q, i)
      /\ prevOf[FakeHead] = NoBlock /\ nextOf[FakeTail] = NoBlock
      /\ \A b \in ListBlocks \ ToSet(q) : nextOf[b] = NoBlock /\ prevOf[b] = NoBlock
      /\ DOMAIN nextOf = ListCells /\ DOMAIN prevOf = ListCells
      /\ freeCount = Len(q)
  BY DEF ListHolds, Linked
<1>5. PICK taken : taken = {Cell(q, i) : i \in 1..n}
  OBVIOUS
<1>6. /\ nextOf' = [c \in ListCells |-> IF c \in taken THEN NoBlock
                                        ELSE IF c = FakeHead THEN Cell(q, n + 1) ELSE nextOf[c]]
      /\ prevOf' = [c \in ListCells |-> IF c \in taken THEN NoBlock
                                        ELSE IF c = Cell(q, n + 1) THEN FakeHead ELSE prevOf[c]]
      /\ freeCount' = Len(q) - n
  <2>1. \A i \in 0..Len(q) : Along[i] = Cell(q, i)
    BY AlongCells DEF Along, ListHolds
  <2>2. {Along[i] : i \in 1..n} = taken /\ Along[n] = Cell(q, n)
    BY <1>1, <1>5, <2>1
  <2>3. nextOf[Along[n]] = Cell(q, n + 1)
    BY <1>1, <1>4, <2>2
  <2> QED BY <1>4, <2>2, <2>3 DEF PopLeft, FrontLinked
<1>7. /\ \A i \in (n + 1)..(Len(q) + 1) : Cell(q, i) \notin taken
      /\ FakeHead \notin taken /\ FakeHead \in ListCells /\ FakeTail \in ListCells
      /\ \A i \in (n + 2)..(Len(q) + 1) : Cell(q, i) # Cell(q, n + 1)
      /\ \A i \in (n + 1)..(Len(q) + 1) : Cell(q, i) # FakeHead
      /\ FakeTail \notin taken /\ FakeTail # FakeHead
  <2>1. \A i \in (n + 1)..(Len(q) + 1) : i \in 0..(Len(q) + 1) /\ i \notin 0..n /\ i # 0
    BY <1>1
  <2>2. \A i \in 1..n : i \in 0..(Len(q) + 1) /\ i # 0 /\ i # Len(q) + 1
    BY <1>1
  <2>3. n + 1 \in 0..(Len(q) + 1) /\ 0 \in 0..(Len(q) + 1) /\ Len(q) + 1 \in 0..(Len(q) + 1)
    BY <1>1
  <2>4. \A i \in (n + 1)..(Len(q) + 1) : Cell(q, i) \notin taken
    <3> SUFFICES ASSUME NEW i \in (n + 1)..(Len(q) + 1), NEW j \in 1..n, Cell(q, i) = Cell(q, j)
                 PROVE  FALSE
      BY <1>5
    <3>1. i = j
      BY <1>3, <2>1, <2>2
    <3> QED BY <1>1, <3>1
  <2>5. FakeHead \notin taken /\ FakeHead \in ListCells /\ FakeTail \in ListCells
    BY <1>3, <1>5, <2>2, <2>3
  <2>6. \A i \in (n + 2)..(Len(q) + 1) : Cell(q, i) # Cell(q, n + 1)
    <3> SUFFICES ASSUME NEW i \in (n + 2)..(Len(q) + 1), Cell(q, i) = Cell(q, n + 1) PROVE FALSE
      OBVIOUS
    <3>1. i \in 0..(Len(q) + 1) /\ i # n + 1
      BY <1>1
    <3> QED BY <1>3, <2>3, <3>1
  <2>7. \A i \in (n + 1)..(Len(q) + 1) : Cell(q, i) # FakeHead
    BY <1>3, <2>1, <2>3
  <2>8. Len(q) + 1 \in (n + 1)..(Len(q) + 1)
    BY <1>1
  <2>9. FakeTail \notin taken /\ FakeTail # FakeHead
    BY <1>3, <2>4, <2>7, <2>8
  <2> QED BY <2>4, <2>5, <2>6, <2>7, <2>9
<1>8. ASSUME NEW i \in 0..Len(rest)
      PROVE  nextOf'[Cell(rest, i)] = Cell(rest, i + 1) /\ prevOf'[Cell(rest, i + 1)] = Cell(rest, i)
  <2>1. Cell(rest, i + 1) = Cell(q, i + 1 + n) /\ i + 1 + n \in (n + 1)..(Len(q) + 1)
        /\ Cell(q, i + 1 + n) \in ListCells
    BY <1>1, <1>2, <1>3
  <2>2. CASE i = 0
    <3>1. Cell(rest, i) = FakeHead
      BY <2>2 DEF Cell
    <3>2. Cell(rest, i + 1) = Cell(q, n + 1) /\ Cell(q, n + 1) \in ListCells
      <4>1. i + 1 + n = n + 1
        BY <1>1, <2>2
      <4> QED BY <2>1, <4>1
    <3>3. Cell(q, n + 1) \notin taken
      BY <1>1, <1>7
    <3> QED BY <1>6, <1>7, <3>1, <3>2, <3>3
  <2>3. CASE i # 0
    <3>1. Cell(rest, i) = Cell(q, i + n) /\ i + n \in (n + 1)..Len(q) /\ i + n \in 0..Len(q)
          /\ i + 1 + n = i + n + 1 /\ i + 1 + n \in (n + 2)..(Len(q) + 1) /\ Cell(q, i + n) \in ListCells
      BY <1>1, <1>2, <1>3, <2>3, SMTT(30)
    <3>2. nextOf[Cell(q, i + n)] = Cell(q, i + 1 + n) /\ prevOf[Cell(q, i + 1 + n)] = Cell(q, i + n)
      BY <1>4, <3>1
    <3>3. Cell(q, i + n) \notin taken /\ Cell(q, i + n) # FakeHead
          /\ Cell(q, i + 1 + n) \notin taken /\ Cell(q, i + 1 + n) # Cell(q, n + 1)
      BY <1>1, <1>7, <2>1, <3>1
    <3> QED BY <1>6, <2>1, <3>1, <3>2, <3>3
  <2> QED BY <2>2, <2>3
<1>9. ASSUME NEW b \in ListBlocks \ ToSet(rest) PROVE nextOf'[b] = NoBlock /\ prevOf'[b] = NoBlock
  <2>1. b \in ListCells /\ b # FakeHead /\ b # FakeTail
    BY DEF ListCells, ListBlocks, FakeHead, FakeTail
  <2>2. b # Cell(q, n + 1)
    <3>1. CASE n = Len(q)
      BY <1>3, <2>1, <3>1
    <3>2. CASE n # Len(q)
      <4>1. n + 1 \in (n + 1)..Len(q) /\ n + 1 \in 1..Len(q)
        BY <1>1, <3>2
      <4> QED BY <1>2, <1>3, <4>1
    <3> QED BY <3>1, <3>2
  <2>3. CASE b \in ToSet(q)
    <3>1. PICK i \in 1..Len(q) : b = q[i]
      BY <1>3, <2>3
    <3>2. i \in 1..n
      BY <1>1, <1>2, <3>1
    <3>3. b \in taken
      BY <1>3, <1>5, <3>1, <3>2
    <3> QED BY <1>6, <2>1, <3>3
  <2>4. CASE b \notin ToSet(q)
    BY <1>4, <1>6, <2>1, <2>2, <2>4
  <2> QED BY <2>3, <2>4
<1>10. prevOf'[FakeHead] = NoBlock /\ nextOf'[FakeTail] = NoBlock
       /\ DOMAIN nextOf' = ListCells /\ DOMAIN prevOf' = ListCells
  <2>1. FakeHead # Cell(q, n + 1)
    BY <1>1, <1>7
  <2> QED BY <1>4, <1>6, <1>7, <2>1
<1>11. Linked(rest, nextOf', prevOf')
  BY <1>2, <1>8, <1>9, <1>10, LinkedBy
<1> QED BY <1>1, <1>2, <1>6, <1>11 DEF ListHolds, rest

\* The blocks that are left when the one at a place is taken out.
LEMMA OneOut ==
  ASSUME ListSize \in Nat \ {0}, NEW q \in Seq(ListBlocks), IsInjective(q), NEW k \in 1..Len(q)
  PROVE  /\ RemoveAt(q, k) \in Seq(ListBlocks) /\ IsInjective(RemoveAt(q, k))
         /\ Len(RemoveAt(q, k)) = Len(q) - 1
         /\ \A i \in 0..Len(q) : Cell(RemoveAt(q, k), i) = Cell(q, IF i < k THEN i ELSE i + 1)
         /\ ToSet(RemoveAt(q, k)) = ToSet(q) \ {q[k]}
<1>0. Len(q) \in Nat /\ k \in Nat /\ k >= 1 /\ k <= Len(q) /\ DOMAIN q = 1..Len(q)
  OBVIOUS
<1>1. PICK a \in Seq(ListBlocks) : a = SubSeq(q, 1, k - 1) /\ Len(a) = k - 1
                                   /\ \A i \in 1..(k - 1) : a[i] = q[i]
  <2>1. SubSeq(q, 1, k - 1) \in Seq(ListBlocks) /\ Len(SubSeq(q, 1, k - 1)) = k - 1
        /\ \A i \in 1..(k - 1) : SubSeq(q, 1, k - 1)[i] = q[i]
    OBVIOUS
  <2> QED BY <2>1
<1>2. PICK b \in Seq(ListBlocks) : b = SubSeq(q, k + 1, Len(q)) /\ Len(b) = Len(q) - k
                                   /\ \A i \in 1..(Len(q) - k) : b[i] = q[i + k]
  <2>1. SubSeq(q, k + 1, Len(q)) \in Seq(ListBlocks) /\ Len(SubSeq(q, k + 1, Len(q))) = Len(q) - k
        /\ \A i \in 1..(Len(q) - k) : SubSeq(q, k + 1, Len(q))[i] = q[i + k]
    OBVIOUS
  <2> QED BY <2>1
<1>a. Len(a) = k - 1 /\ \A i \in 1..(k - 1) : a[i] = q[i]
  BY <1>1
<1>b. Len(b) = Len(q) - k /\ \A i \in 1..(Len(q) - k) : b[i] = q[i + k]
  BY <1>2
<1>c. /\ a \o b \in Seq(ListBlocks) /\ Len(a \o b) = Len(a) + Len(b)
      /\ \A i \in 1..Len(a) : (a \o b)[i] = a[i]
      /\ \A i \in (Len(a) + 1)..(Len(a) + Len(b)) : (a \o b)[i] = b[i - Len(a)]
  OBVIOUS
<1>3. PICK t \in Seq(ListBlocks) : /\ t = RemoveAt(q, k) /\ Len(t) = Len(q) - 1
         /\ \A i \in 1..(Len(q) - 1) : t[i] = q[IF i < k THEN i ELSE i + 1]
  <2>1. a \o b \in Seq(ListBlocks) /\ Len(a \o b) = Len(q) - 1
    BY <1>0, <1>a, <1>b, <1>c
  <2>2. ASSUME NEW i \in 1..(Len(q) - 1) PROVE (a \o b)[i] = q[IF i < k THEN i ELSE i + 1]
    <3>1. CASE i < k
      <4>1. i \in 1..Len(a) /\ i \in 1..(k - 1)
        BY <1>0, <1>a, <3>1
      <4> QED BY <1>a, <1>c, <3>1, <4>1
    <3>2. CASE ~(i < k)
      <4>1. i \in (Len(a) + 1)..(Len(a) + Len(b)) /\ i - Len(a) \in 1..(Len(q) - k)
            /\ (i - Len(a)) + k = i + 1
        BY <1>0, <1>a, <1>b, <3>2
      <4> QED BY <1>b, <1>c, <3>2, <4>1
    <3> QED BY <3>1, <3>2
  <2> QED BY <1>1, <1>2, <2>1, <2>2 DEF RemoveAt
<1>4. Len(q) \in Nat /\ DOMAIN q = 1..Len(q) /\ DOMAIN t = 1..(Len(q) - 1)
      /\ \A i, j \in 1..Len(q) : q[i] = q[j] => i = j
  <2>1. DOMAIN t = 1..Len(t)
    OBVIOUS
  <2> QED BY <1>0, <1>3, <2>1 DEF IsInjective
<1>5. IsInjective(t)
  <2> SUFFICES ASSUME NEW i \in 1..(Len(q) - 1), NEW j \in 1..(Len(q) - 1), t[i] = t[j]
               PROVE  i = j
    BY <1>4 DEF IsInjective
  <2>1. (IF i < k THEN i ELSE i + 1) = (IF j < k THEN j ELSE j + 1)
    <3>1. (IF i < k THEN i ELSE i + 1) \in 1..Len(q) /\ (IF j < k THEN j ELSE j + 1) \in 1..Len(q)
      BY <1>4
    <3> QED BY <1>3, <1>4, <3>1
  <2> QED BY <1>4, <2>1
<1>6. ASSUME NEW i \in 0..Len(q) PROVE Cell(t, i) = Cell(q, IF i < k THEN i ELSE i + 1)
  <2>1. CASE i = 0
    BY <2>1 DEF Cell
  <2>2. CASE i = Len(q)
    <3>1. i = Len(t) + 1 /\ i # 0 /\ ~(i < k) /\ i + 1 # 0
      BY <1>3, <1>4, <2>2
    <3> QED BY <2>2, <3>1 DEF Cell
  <2>3. CASE i # 0 /\ i # Len(q)
    <3>1. i \in 1..(Len(q) - 1) /\ i # Len(t) + 1
      BY <1>3, <1>4, <2>3
    <3>2. (IF i < k THEN i ELSE i + 1) \in 1..Len(q)
      BY <1>4, <3>1
    <3>3. (IF i < k THEN i ELSE i + 1) # 0 /\ (IF i < k THEN i ELSE i + 1) # Len(q) + 1
      BY <1>4, <3>2
    <3>4. Cell(t, i) = t[i]
      BY <2>3, <3>1 DEF Cell
    <3>5. \A j : j # 0 /\ j # Len(q) + 1 => Cell(q, j) = q[j]
      BY DEF Cell
    <3> QED BY <1>3, <3>1, <3>3, <3>4, <3>5
  <2> QED BY <2>1, <2>2, <2>3
<1>7. ToSet(t) = ToSet(q) \ {q[k]}
  <2>1. ASSUME NEW x \in ToSet(t) PROVE x \in ToSet(q) /\ x # q[k]
    <3>1. PICK i \in 1..(Len(q) - 1) : x = t[i]
      BY <1>4 DEF ToSet
    <3>2. (IF i < k THEN i ELSE i + 1) \in 1..Len(q) /\ (IF i < k THEN i ELSE i + 1) # k
      BY <1>4
    <3>3. x = q[IF i < k THEN i ELSE i + 1]
      BY <1>3, <3>1
    <3> QED BY <1>4, <3>2, <3>3 DEF ToSet
  <2>2. ASSUME NEW x \in ToSet(q), x # q[k] PROVE x \in ToSet(t)
    <3>1. PICK j \in 1..Len(q) : x = q[j] /\ j # k
      BY <1>4, <2>2 DEF ToSet
    <3>2. PICK i \in 1..(Len(q) - 1) : j = IF i < k THEN i ELSE i + 1
      <4>1. CASE j < k
        <5>1. j \in 1..(Len(q) - 1) /\ j = IF j < k THEN j ELSE j + 1
          BY <1>4, <4>1
        <5> QED BY <5>1
      <4>2. CASE ~(j < k)
        <5>1. j - 1 \in 1..(Len(q) - 1) /\ ~(j - 1 < k) /\ j = (j - 1) + 1
          BY <1>4, <3>1, <4>2
        <5> QED BY <5>1
      <4> QED BY <4>1, <4>2
    <3>3. t[i] = x
      BY <1>3, <3>1, <3>2
    <3> QED BY <1>4, <3>3 DEF ToSet
  <2> QED BY <2>1, <2>2
<1> QED BY <1>3, <1>5, <1>6, <1>7

\* remove takes a block out of the middle.
LEMMA RemoveBlockMaps ==
  ASSUME ListSize \in Nat \ {0}, NEW q, ListHolds(q), NEW b \in ListBlocks, RemoveBlock(b)
  PROVE  \E k \in 1..Len(q) : ListHolds(RemoveAt(q, k))'
<1>1. q \in Seq(ListBlocks) /\ IsInjective(q) /\ Len(q) \in Nat
  BY DEF ListHolds, Linked
<1>2. /\ \A i \in 0..(Len(q) + 1) : Cell(q, i) \in ListCells
      /\ \A i, j \in 0..(Len(q) + 1) : Cell(q, i) = Cell(q, j) => i = j
      /\ \A i \in 1..Len(q) : Cell(q, i) = q[i] /\ q[i] \in ListBlocks
      /\ Cell(q, 0) = FakeHead /\ Cell(q, Len(q) + 1) = FakeTail
      /\ \A x \in ToSet(q) : \E i \in 1..Len(q) : x = q[i]
  BY <1>1, CellsDiffer
<1>3. /\ \A i \in 0..Len(q) : nextOf[Cell(q, i)] = Cell(q, i + 1) /\ prevOf[Cell(q, i + 1)] = Cell(q, i)
      /\ prevOf[FakeHead] = NoBlock /\ nextOf[FakeTail] = NoBlock
      /\ \A x \in ListBlocks \ ToSet(q) : nextOf[x] = NoBlock /\ prevOf[x] = NoBlock
      /\ DOMAIN nextOf = ListCells /\ DOMAIN prevOf = ListCells
      /\ freeCount = Len(q)
  BY DEF ListHolds, Linked
<1>4. PICK k \in 1..Len(q) : b = q[k]
  <2>1. b \in ToSet(q)
    BY <1>3 DEF RemoveBlock
  <2> QED BY <1>2, <2>1
<1>5. /\ k \in 0..(Len(q) + 1) /\ k - 1 \in 0..(Len(q) + 1) /\ k + 1 \in 0..(Len(q) + 1)
      /\ k - 1 \in 0..Len(q) /\ (k - 1) + 1 = k /\ k \in 0..Len(q)
  BY <1>1, <1>4
<1>6. prevOf[b] = Cell(q, k - 1) /\ nextOf[b] = Cell(q, k + 1) /\ b = Cell(q, k)
  BY <1>2, <1>3, <1>4, <1>5
<1>7. /\ \A c \in ListCells : nextOf'[c] = IF c = Cell(q, k) THEN NoBlock
                                            ELSE IF c = Cell(q, k - 1) THEN Cell(q, k + 1) ELSE nextOf[c]
      /\ \A c \in ListCells : prevOf'[c] = IF c = Cell(q, k) THEN NoBlock
                                            ELSE IF c = Cell(q, k + 1) THEN Cell(q, k - 1) ELSE prevOf[c]
      /\ DOMAIN nextOf' = ListCells /\ DOMAIN prevOf' = ListCells /\ freeCount' = Len(q) - 1
  <2>1. nextOf' = [nextOf EXCEPT ![Cell(q, k - 1)] = Cell(q, k + 1), ![Cell(q, k)] = NoBlock]
        /\ prevOf' = [prevOf EXCEPT ![Cell(q, k + 1)] = Cell(q, k - 1), ![Cell(q, k)] = NoBlock]
        /\ freeCount' = Len(q) - 1
    BY <1>3, <1>6 DEF RemoveBlock
  <2>2. Cell(q, k - 1) \in ListCells /\ Cell(q, k + 1) \in ListCells /\ Cell(q, k) \in ListCells
    BY <1>2, <1>5
  <2> QED BY <1>3, <2>1, <2>2
<1>8. PICK t : t = RemoveAt(q, k)
  OBVIOUS
<1>9. /\ t \in Seq(ListBlocks) /\ IsInjective(t) /\ Len(t) = Len(q) - 1
      /\ \A i \in 0..Len(q) : Cell(t, i) = Cell(q, IF i < k THEN i ELSE i + 1)
      /\ ToSet(t) = ToSet(q) \ {q[k]}
  BY <1>1, <1>4, <1>8, OneOut
<1>10. \A i, j \in 0..(Len(q) + 1) : i # j => Cell(q, i) # Cell(q, j)
  BY <1>2
<1>11. ASSUME NEW i \in 0..Len(t)
       PROVE  nextOf'[Cell(t, i)] = Cell(t, i + 1) /\ prevOf'[Cell(t, i + 1)] = Cell(t, i)
  <2>0. i \in 0..Len(q) /\ i + 1 \in 0..Len(q) /\ i \in Nat
    BY <1>1, <1>9
  <2>1. CASE i + 1 < k
    <3>1. Cell(t, i) = Cell(q, i) /\ Cell(t, i + 1) = Cell(q, i + 1)
      BY <1>9, <1>5, <2>0, <2>1
    <3>2. /\ i \in 0..(Len(q) + 1) /\ i + 1 \in 0..(Len(q) + 1)
          /\ i # k /\ i # k - 1 /\ i + 1 # k /\ i + 1 # k + 1
      BY <1>1, <1>5, <2>0, <2>1
    <3>3. /\ Cell(q, i) # Cell(q, k) /\ Cell(q, i) # Cell(q, k - 1)
          /\ Cell(q, i + 1) # Cell(q, k) /\ Cell(q, i + 1) # Cell(q, k + 1)
      BY <1>5, <1>10, <3>2
    <3> QED BY <1>2, <1>3, <1>7, <2>0, <3>1, <3>2, <3>3
  <2>2. CASE i + 1 = k
    <3>1. Cell(t, i) = Cell(q, k - 1) /\ Cell(t, i + 1) = Cell(q, k + 1)
      <4>1. i < k /\ ~(i + 1 < k) /\ i = k - 1 /\ (i + 1) + 1 = k + 1
        BY <1>5, <2>0, <2>2
      <4> QED BY <1>9, <2>0, <4>1
    <3>2. Cell(q, k - 1) # Cell(q, k) /\ Cell(q, k + 1) # Cell(q, k)
      <4>1. k - 1 # k /\ k + 1 # k
        BY <1>5
      <4> QED BY <1>5, <1>10, <4>1
    <3> QED BY <1>2, <1>5, <1>7, <3>1, <3>2
  <2>3. CASE i + 1 > k
    <3>1. Cell(t, i) = Cell(q, i + 1) /\ Cell(t, i + 1) = Cell(q, (i + 1) + 1)
      <4>1. ~(i < k) /\ ~(i + 1 < k)
        BY <1>5, <2>0, <2>3
      <4> QED BY <1>9, <2>0, <4>1
    <3>2. /\ i + 1 \in 0..(Len(q) + 1) /\ (i + 1) + 1 \in 0..(Len(q) + 1)
          /\ i + 1 # k /\ i + 1 # k - 1 /\ (i + 1) + 1 # k /\ (i + 1) + 1 # k + 1
      BY <1>1, <1>5, <2>0, <2>3
    <3>3. /\ Cell(q, i + 1) # Cell(q, k) /\ Cell(q, i + 1) # Cell(q, k - 1)
          /\ Cell(q, (i + 1) + 1) # Cell(q, k) /\ Cell(q, (i + 1) + 1) # Cell(q, k + 1)
      BY <1>5, <1>10, <3>2
    <3> QED BY <1>2, <1>3, <1>7, <2>0, <3>1, <3>2, <3>3
  <2> QED BY <1>5, <2>0, <2>1, <2>2, <2>3
<1>12. ASSUME NEW x \in ListBlocks \ ToSet(t) PROVE nextOf'[x] = NoBlock /\ prevOf'[x] = NoBlock
  <2>1. x \in ListCells /\ x # FakeHead /\ x # FakeTail
    BY DEF ListCells, ListBlocks, FakeHead, FakeTail
  <2>2. CASE x = b
    BY <1>6, <1>7, <2>1, <2>2
  <2>3. CASE x # b
    <3>1. x \notin ToSet(q)
      BY <1>4, <1>9, <2>3
    <3>2. x # Cell(q, k - 1) /\ x # Cell(q, k + 1)
      <4>1. \A i \in 0..(Len(q) + 1) : i = 0 \/ i = Len(q) + 1 \/ i \in 1..Len(q)
        BY <1>1
      <4>2. \A i \in 1..Len(q) : q[i] \in ToSet(q)
        BY <1>1 DEF ToSet
      <4> QED BY <1>2, <1>5, <2>1, <3>1, <4>1, <4>2, SMTT(30)
    <3> QED BY <1>3, <1>6, <1>7, <2>1, <2>3, <3>1, <3>2
  <2> QED BY <2>2, <2>3
<1>13. prevOf'[FakeHead] = NoBlock /\ nextOf'[FakeTail] = NoBlock
  <2>1. FakeHead \in ListCells /\ FakeTail \in ListCells
    BY DEF ListCells
  <2>2. /\ 0 \in 0..(Len(q) + 1) /\ Len(q) + 1 \in 0..(Len(q) + 1)
        /\ 0 # k /\ 0 # k + 1 /\ Len(q) + 1 # k /\ Len(q) + 1 # k - 1
    BY <1>1, <1>5
  <2>3. /\ FakeHead # Cell(q, k) /\ FakeHead # Cell(q, k + 1)
        /\ FakeTail # Cell(q, k) /\ FakeTail # Cell(q, k - 1)
    BY <1>2, <1>5, <1>10, <2>2
  <2> QED BY <1>3, <1>7, <2>1, <2>3
<1>14. Linked(t, nextOf', prevOf')
  BY <1>7, <1>9, <1>11, <1>12, <1>13, LinkedBy
<1> QED BY <1>7, <1>8, <1>9, <1>14 DEF ListHolds

\* The blocks bs behind those of q.
LEMMA Behind ==
  ASSUME ListSize \in Nat \ {0}, NEW q \in Seq(ListBlocks), IsInjective(q),
         NEW bs \in Seq(ListBlocks), IsInjective(bs), ToSet(bs) \cap ToSet(q) = {}
  PROVE  /\ q \o bs \in Seq(ListBlocks) /\ IsInjective(q \o bs) /\ Len(q \o bs) = Len(q) + Len(bs)
         /\ ToSet(q \o bs) = ToSet(q) \cup ToSet(bs)
         /\ \A i \in 0..Len(q) : Cell(q \o bs, i) = Cell(q, i)
         /\ \A i \in 1..Len(bs) : Cell(q \o bs, Len(q) + i) = bs[i]
<1>0. Len(q) \in Nat /\ Len(bs) \in Nat /\ DOMAIN q = 1..Len(q) /\ DOMAIN bs = 1..Len(bs)
  OBVIOUS
<1>1. PICK t \in Seq(ListBlocks) :
        /\ t = q \o bs /\ Len(t) = Len(q) + Len(bs) /\ DOMAIN t = 1..(Len(q) + Len(bs))
        /\ \A i \in 1..Len(q) : t[i] = q[i]
        /\ \A i \in (Len(q) + 1)..(Len(q) + Len(bs)) : t[i] = bs[i - Len(q)]
  <2>1. /\ q \o bs \in Seq(ListBlocks) /\ Len(q \o bs) = Len(q) + Len(bs)
        /\ DOMAIN (q \o bs) = 1..(Len(q) + Len(bs))
        /\ \A i \in 1..Len(q) : (q \o bs)[i] = q[i]
        /\ \A i \in (Len(q) + 1)..(Len(q) + Len(bs)) : (q \o bs)[i] = bs[i - Len(q)]
    OBVIOUS
  <2> QED BY <2>1
<1>2. \A i \in 1..Len(bs) : t[Len(q) + i] = bs[i]
  <2> SUFFICES ASSUME NEW i \in 1..Len(bs) PROVE t[Len(q) + i] = bs[i]
    OBVIOUS
  <2>1. Len(q) + i \in (Len(q) + 1)..(Len(q) + Len(bs)) /\ (Len(q) + i) - Len(q) = i
    BY <1>0
  <2> QED BY <1>1, <2>1
<1>3. \A i \in 1..(Len(q) + Len(bs)) : \/ i \in 1..Len(q)
                                       \/ i \in (Len(q) + 1)..(Len(q) + Len(bs)) /\ i - Len(q) \in 1..Len(bs)
  BY <1>0
<1>4. ToSet(t) = ToSet(q) \cup ToSet(bs)
  <2>1. ASSUME NEW x \in ToSet(t) PROVE x \in ToSet(q) \cup ToSet(bs)
    BY <1>0, <1>1, <1>3 DEF ToSet
  <2>2. ASSUME NEW x \in ToSet(q) PROVE x \in ToSet(t)
    <3>1. PICK i \in 1..Len(q) : x = q[i]
      BY <1>0 DEF ToSet
    <3>2. i \in 1..(Len(q) + Len(bs))
      BY <1>0
    <3> QED BY <1>1, <3>1, <3>2 DEF ToSet
  <2>3. ASSUME NEW x \in ToSet(bs) PROVE x \in ToSet(t)
    <3>1. PICK i \in 1..Len(bs) : x = bs[i]
      BY <1>0 DEF ToSet
    <3>2. Len(q) + i \in 1..(Len(q) + Len(bs))
      BY <1>0
    <3> QED BY <1>1, <1>2, <3>1, <3>2 DEF ToSet
  <2> QED BY <2>1, <2>2, <2>3
<1>5. IsInjective(t)
  <2> SUFFICES ASSUME NEW i \in 1..(Len(q) + Len(bs)), NEW j \in 1..(Len(q) + Len(bs)), t[i] = t[j]
               PROVE  i = j
    BY <1>1 DEF IsInjective
  <2>1. \A k \in 1..Len(q) : t[k] \in ToSet(q)
    BY <1>0, <1>1 DEF ToSet
  <2>2. \A k \in (Len(q) + 1)..(Len(q) + Len(bs)) : t[k] \in ToSet(bs) /\ t[k] = bs[k - Len(q)]
    <3> SUFFICES ASSUME NEW k \in (Len(q) + 1)..(Len(q) + Len(bs))
                 PROVE  t[k] \in ToSet(bs) /\ t[k] = bs[k - Len(q)]
      OBVIOUS
    <3>1. k - Len(q) \in 1..Len(bs)
      BY <1>0
    <3> QED BY <1>0, <1>1, <3>1 DEF ToSet
  <2>3. CASE i \in 1..Len(q) /\ j \in 1..Len(q)
    BY <1>0, <1>1, <2>3 DEF IsInjective
  <2>4. CASE i \notin 1..Len(q) /\ j \notin 1..Len(q)
    <3>1. /\ i \in (Len(q) + 1)..(Len(q) + Len(bs)) /\ i - Len(q) \in 1..Len(bs)
          /\ j \in (Len(q) + 1)..(Len(q) + Len(bs)) /\ j - Len(q) \in 1..Len(bs)
      BY <1>3, <2>4
    <3>2. bs[i - Len(q)] = bs[j - Len(q)]
      BY <1>1, <3>1
    <3>3. i - Len(q) = j - Len(q)
      BY <1>0, <3>1, <3>2 DEF IsInjective
    <3> QED BY <1>0, <3>3
  <2> QED BY <1>3, <2>1, <2>2, <2>3, <2>4
<1>6. \A i \in 0..Len(q) : Cell(t, i) = Cell(q, i)
  <2> SUFFICES ASSUME NEW i \in 0..Len(q) PROVE Cell(t, i) = Cell(q, i)
    OBVIOUS
  <2>1. CASE i = 0
    BY <2>1 DEF Cell
  <2>2. CASE i # 0
    <3>1. i \in 1..Len(q) /\ i # Len(q) + 1 /\ i # Len(t) + 1
      BY <1>0, <1>1, <2>2
    <3> QED BY <1>1, <2>2, <3>1 DEF Cell
  <2> QED BY <2>1, <2>2
<1>7. \A i \in 1..Len(bs) : Cell(t, Len(q) + i) = bs[i]
  <2> SUFFICES ASSUME NEW i \in 1..Len(bs) PROVE Cell(t, Len(q) + i) = bs[i]
    OBVIOUS
  <2>1. Len(q) + i # 0 /\ Len(q) + i # Len(t) + 1
    BY <1>0, <1>1
  <2> QED BY <1>2, <2>1 DEF Cell
<1> QED BY <1>1, <1>4, <1>5, <1>6, <1>7

\* append_n puts blocks that are not in the list behind its last one.
LEMMA AppendBlocksMaps ==
  ASSUME ListSize \in Nat \ {0}, NEW q, ListHolds(q), NEW bs \in Seq(ListBlocks), IsInjective(bs),
         ToSet(bs) \cap ToSet(q) = {}, AppendBlocks(bs)
  PROVE  ListHolds(q \o bs)'
<1>0. q \in Seq(ListBlocks) /\ IsInjective(q) /\ Len(q) \in Nat /\ Len(bs) \in Nat
      /\ DOMAIN bs = 1..Len(bs)
  BY DEF ListHolds, Linked
<1>1. PICK t : t = q \o bs
  OBVIOUS
<1>2. /\ t \in Seq(ListBlocks) /\ IsInjective(t) /\ Len(t) = Len(q) + Len(bs)
      /\ ToSet(t) = ToSet(q) \cup ToSet(bs)
      /\ \A i \in 0..Len(q) : Cell(t, i) = Cell(q, i)
      /\ \A i \in 1..Len(bs) : Cell(t, Len(q) + i) = bs[i]
  BY <1>0, <1>1, Behind
<1>3. /\ \A i \in 0..(Len(t) + 1) : Cell(t, i) \in ListCells
      /\ \A i, j \in 0..(Len(t) + 1) : Cell(t, i) = Cell(t, j) => i = j
      /\ Cell(t, 0) = FakeHead /\ Cell(t, Len(t) + 1) = FakeTail
      /\ \A b \in ToSet(t) : \E i \in 1..Len(t) : b = t[i]
      /\ \A i \in 1..Len(t) : Cell(t, i) = t[i]
  BY <1>2, CellsDiffer
<1>4. /\ \A i \in 0..Len(q) : nextOf[Cell(q, i)] = Cell(q, i + 1) /\ prevOf[Cell(q, i + 1)] = Cell(q, i)
      /\ prevOf[FakeHead] = NoBlock /\ nextOf[FakeTail] = NoBlock
      /\ \A x \in ListBlocks \ ToSet(q) : nextOf[x] = NoBlock /\ prevOf[x] = NoBlock
      /\ freeCount = Len(q) /\ Cell(q, Len(q) + 1) = FakeTail
  BY <1>0, CellsDiffer DEF ListHolds, Linked
<1>5. PICK last : last = prevOf[FakeTail] /\ last = Cell(t, Len(q))
  <2>1. prevOf[FakeTail] = Cell(q, Len(q)) /\ Len(q) \in 0..Len(q)
    BY <1>0, <1>4
  <2> QED BY <1>2, <2>1
<1>6. PICK row : row = <<last>> \o bs \o <<FakeTail>>
  OBVIOUS
<1>7. DOMAIN row = 1..(Len(bs) + 2) /\ \A i \in 1..(Len(bs) + 2) : row[i] = Cell(t, Len(q) + i - 1)
  <2>1. /\ DOMAIN row = 1..(Len(bs) + 2) /\ row[1] = last /\ row[Len(bs) + 2] = FakeTail
        /\ \A i \in 1..Len(bs) : row[i + 1] = bs[i]
    <3>1. last \in ListCells /\ FakeTail \in ListCells /\ ListBlocks \subseteq ListCells
      <4>1. Len(q) \in 0..(Len(t) + 1)
        BY <1>0, <1>2
      <4> QED BY <1>3, <1>5, <4>1 DEF ListCells
    <3>a. bs \in Seq(ListCells) /\ <<last>> \in Seq(ListCells)
      BY <3>1
    <3>b. <<last>> \o bs \in Seq(ListCells)
      BY <3>a
    <3>2. PICK front \in Seq(ListCells) : front = <<last>> \o bs
      BY <3>b
    <3>3. Len(front) = Len(bs) + 1 /\ front[1] = last /\ \A i \in 1..Len(bs) : front[i + 1] = bs[i]
      BY <3>1, <3>2
    <3>4. row = front \o <<FakeTail>>
      BY <1>6, <3>2
    <3>5. /\ Len(row) = Len(front) + 1 /\ DOMAIN row = 1..Len(row)
          /\ \A i \in 1..Len(front) : row[i] = front[i]
          /\ row[Len(front) + 1] = FakeTail
      BY <3>1, <3>4
    <3> QED BY <1>0, <3>3, <3>5
  <2>2. ASSUME NEW i \in 1..(Len(bs) + 2) PROVE row[i] = Cell(t, Len(q) + i - 1)
    <3>1. CASE i = 1
      <4>1. Len(q) + i - 1 = Len(q)
        BY <1>0, <3>1
      <4> QED BY <1>5, <2>1, <3>1, <4>1
    <3>2. CASE i = Len(bs) + 2
      <4>1. Len(q) + i - 1 = Len(t) + 1
        BY <1>0, <1>2, <3>2
      <4> QED BY <1>3, <2>1, <3>2, <4>1
    <3>3. CASE i # 1 /\ i # Len(bs) + 2
      <4>1. i - 1 \in 1..Len(bs) /\ (i - 1) + 1 = i /\ Len(q) + i - 1 = Len(q) + (i - 1)
        BY <1>0, <3>3
      <4>2. row[i] = bs[i - 1] /\ Cell(t, Len(q) + (i - 1)) = bs[i - 1]
        BY <1>2, <2>1, <4>1
      <4> QED BY <4>1, <4>2
    <3> QED BY <3>1, <3>2, <3>3
  <2> QED BY <2>1, <2>2
<1> DEFINE place(c) == CHOOSE i \in DOMAIN row : row[i] = c
<1>8. ASSUME NEW i \in 1..(Len(bs) + 2) PROVE place(Cell(t, Len(q) + i - 1)) = i
  <2>1. row[i] = Cell(t, Len(q) + i - 1)
    BY <1>7
  <2>2. ASSUME NEW j \in 1..(Len(bs) + 2), row[j] = Cell(t, Len(q) + i - 1) PROVE j = i
    <3>1. Cell(t, Len(q) + j - 1) = Cell(t, Len(q) + i - 1)
      BY <1>7, <2>2
    <3>2. Len(q) + j - 1 \in 0..(Len(t) + 1) /\ Len(q) + i - 1 \in 0..(Len(t) + 1)
      BY <1>0, <1>2
    <3>3. Len(q) + j - 1 = Len(q) + i - 1
      BY <1>3, <3>1, <3>2
    <3> QED BY <1>0, <3>3
  <2> QED BY <1>7, <2>1, <2>2
<1>9. /\ nextOf' = [c \in ListCells |-> IF c \in {last} \cup ToSet(bs)
                                         THEN row[place(c) + 1] ELSE nextOf[c]]
      /\ prevOf' = [c \in ListCells |-> IF c \in {FakeTail} \cup ToSet(bs)
                                         THEN row[place(c) - 1] ELSE prevOf[c]]
      /\ freeCount' = Len(t)
  BY <1>2, <1>4, <1>5, <1>6, SMTT(30) DEF AppendBlocks
<1> HIDE DEF place
<1>10. \A i \in 1..Len(bs) : bs[i] \in ToSet(bs) /\ bs[i] = Cell(t, Len(q) + i)
  BY <1>0, <1>2 DEF ToSet
<1>11. \A x \in ToSet(bs) : \E i \in 1..Len(bs) : x = Cell(t, Len(q) + i)
  BY <1>0, <1>10 DEF ToSet
<1>12. ASSUME NEW i \in 0..Len(t) PROVE nextOf'[Cell(t, i)] = Cell(t, i + 1)
  <2>1. CASE i < Len(q)
    <3>1. i \in 0..Len(q) /\ i + 1 \in 0..Len(q) /\ i \in 0..(Len(t) + 1)
      BY <1>0, <1>2, <2>1
    <3>2. Cell(t, i) # last
      <4>1. Len(q) \in 0..(Len(t) + 1) /\ i # Len(q)
        BY <1>0, <1>2, <2>1
      <4> QED BY <1>3, <1>5, <3>1, <4>1
    <3>3. Cell(t, i) \notin ToSet(bs)
      <4> SUFFICES ASSUME NEW j \in 1..Len(bs), Cell(t, i) = Cell(t, Len(q) + j) PROVE FALSE
        BY <1>11
      <4>1. Len(q) + j \in 0..(Len(t) + 1) /\ i # Len(q) + j
        BY <1>0, <1>2, <2>1
      <4> QED BY <1>3, <3>1, <4>1
    <3> QED BY <1>2, <1>3, <1>4, <1>9, <3>1, <3>2, <3>3
  <2>2. CASE i >= Len(q)
    <3>0. i - Len(q) + 1 \in 1..(Len(bs) + 1)
      <4>1. i \in 0..(Len(q) + Len(bs))
        BY <1>2
      <4> QED BY <1>0, <2>2, <4>1
    <3>1. PICK j \in 1..(Len(bs) + 1) : j = i - Len(q) + 1
      BY <3>0
    <3>2. j \in 1..(Len(bs) + 2) /\ Len(q) + j - 1 = i /\ j + 1 \in 1..(Len(bs) + 2)
          /\ Len(q) + (j + 1) - 1 = i + 1 /\ i \in 0..(Len(t) + 1)
      BY <1>0, <1>2, <3>1
    <3>3. place(Cell(t, i)) = j /\ row[j + 1] = Cell(t, i + 1)
      BY <1>7, <1>8, <3>2
    <3>4. Cell(t, i) \in {last} \cup ToSet(bs)
      <4>1. CASE i = Len(q)
        BY <1>5, <4>1
      <4>2. CASE i # Len(q)
        <5>1. i - Len(q) \in 1..Len(bs) /\ Len(q) + (i - Len(q)) = i
          BY <1>0, <1>2, <2>2, <4>2
        <5>2. bs[i - Len(q)] = Cell(t, i) /\ bs[i - Len(q)] \in ToSet(bs)
          BY <1>10, <5>1
        <5> QED BY <5>2
      <4> QED BY <4>1, <4>2
    <3> QED BY <1>3, <1>9, <3>2, <3>3, <3>4
  <2> QED BY <1>0, <2>1, <2>2
<1>13. ASSUME NEW i \in 0..Len(t) PROVE prevOf'[Cell(t, i + 1)] = Cell(t, i)
  <2>0. i + 1 \in 0..(Len(t) + 1) /\ i \in Nat
    BY <1>0, <1>2
  <2>1. CASE i < Len(q)
    <3>1. i \in 0..Len(q) /\ i + 1 \in 0..Len(q)
      BY <1>0, <1>2, <2>1
    <3>2. Cell(t, i + 1) # FakeTail
      <4>1. Len(t) + 1 \in 0..(Len(t) + 1) /\ i + 1 # Len(t) + 1
        BY <1>0, <1>2, <2>1
      <4> QED BY <1>3, <2>0, <4>1
    <3>3. Cell(t, i + 1) \notin ToSet(bs)
      <4> SUFFICES ASSUME NEW j \in 1..Len(bs), Cell(t, i + 1) = Cell(t, Len(q) + j) PROVE FALSE
        BY <1>11
      <4>1. Len(q) + j \in 0..(Len(t) + 1) /\ i + 1 # Len(q) + j
        BY <1>0, <1>2, <2>1
      <4> QED BY <1>3, <2>0, <4>1
    <3> QED BY <1>2, <1>3, <1>4, <1>9, <2>0, <3>1, <3>2, <3>3
  <2>2. CASE i >= Len(q)
    <3>0. i - Len(q) + 2 \in 2..(Len(bs) + 2)
      <4>1. i \in 0..(Len(q) + Len(bs))
        BY <1>2
      <4> QED BY <1>0, <2>2, <4>1
    <3>1. PICK j \in 2..(Len(bs) + 2) : j = i - Len(q) + 2
      BY <3>0
    <3>2. j \in 1..(Len(bs) + 2) /\ Len(q) + j - 1 = i + 1 /\ j - 1 \in 1..(Len(bs) + 2)
          /\ Len(q) + (j - 1) - 1 = i
      BY <1>0, <1>2, <3>1
    <3>3. place(Cell(t, i + 1)) = j /\ row[j - 1] = Cell(t, i)
      BY <1>7, <1>8, <3>2
    <3>4. Cell(t, i + 1) \in {FakeTail} \cup ToSet(bs)
      <4>1. CASE i = Len(t)
        BY <1>3, <4>1
      <4>2. CASE i # Len(t)
        <5>1. i + 1 - Len(q) \in 1..Len(bs) /\ Len(q) + (i + 1 - Len(q)) = i + 1
          BY <1>0, <1>2, <2>2, <4>2
        <5>2. bs[i + 1 - Len(q)] = Cell(t, i + 1) /\ bs[i + 1 - Len(q)] \in ToSet(bs)
          BY <1>10, <5>1
        <5> QED BY <5>2
      <4> QED BY <4>1, <4>2
    <3> QED BY <1>3, <1>9, <2>0, <3>3, <3>4
  <2> QED BY <1>0, <2>0, <2>1, <2>2
<1>14. ASSUME NEW x \in ListBlocks \ ToSet(t) PROVE nextOf'[x] = NoBlock /\ prevOf'[x] = NoBlock
  <2>1. x \in ListCells /\ x # FakeHead /\ x # FakeTail
    BY DEF ListCells, ListBlocks, FakeHead, FakeTail
  <2>2. x \notin ToSet(bs) /\ x \notin ToSet(q)
    BY <1>2
  <2>3. x # last
    <3>1. CASE Len(q) = 0
      BY <1>3, <1>5, <2>1, <3>1
    <3>2. CASE Len(q) # 0
      <4>1. Len(q) \in 1..Len(t) /\ DOMAIN t = 1..Len(t)
        BY <1>0, <1>2, <3>2
      <4>2. last = t[Len(q)] /\ t[Len(q)] \in ToSet(t)
        BY <1>3, <1>5, <4>1 DEF ToSet
      <4> QED BY <4>2
    <3> QED BY <3>1, <3>2
  <2> QED BY <1>4, <1>9, <2>1, <2>2, <2>3
<1>15. /\ prevOf'[FakeHead] = NoBlock /\ nextOf'[FakeTail] = NoBlock
       /\ DOMAIN nextOf' = ListCells /\ DOMAIN prevOf' = ListCells
  <2>1. FakeHead \in ListCells /\ FakeTail \in ListCells /\ FakeHead # FakeTail
        /\ \A x \in ToSet(bs) : x # FakeHead /\ x # FakeTail
    <3>1. \A x \in ToSet(bs) : x \in ListBlocks
      BY <1>0 DEF ToSet
    <3> QED BY <3>1 DEF ListCells, ListBlocks, FakeHead, FakeTail
  <2>2. FakeTail # last
    <3>1. Len(q) \in 0..(Len(t) + 1) /\ Len(t) + 1 \in 0..(Len(t) + 1) /\ Len(q) # Len(t) + 1
      BY <1>0, <1>2
    <3> QED BY <1>3, <1>5, <3>1
  <2> QED BY <1>4, <1>9, <2>1, <2>2
<1>16. Linked(t, nextOf', prevOf')
  BY <1>2, <1>12, <1>13, <1>14, <1>15, LinkedBy
<1> QED BY <1>1, <1>9, <1>16 DEF ListHolds

\* The list is a list at first.
LEMMA ListHoldsInit ==
  ASSUME ListSize \in Nat \ {0}, ListInit
  PROVE  ListHolds([i \in 1..ListSize |-> i])
<1> DEFINE q == [i \in 1..ListSize |-> i]
<1>1. q \in Seq(ListBlocks) /\ Len(q) = ListSize /\ DOMAIN q = 1..ListSize /\ IsInjective(q)
      /\ ToSet(q) = ListBlocks
  BY DEF ListBlocks, IsInjective, ToSet
<1>2. \A i \in 0..(ListSize + 1) : Cell(q, i) = i
  BY <1>1 DEF Cell, FakeHead, FakeTail
<1> HIDE DEF q
<1>3. ASSUME NEW i \in 0..Len(q)
      PROVE  nextOf[Cell(q, i)] = Cell(q, i + 1) /\ prevOf[Cell(q, i + 1)] = Cell(q, i)
  <2>1. /\ i \in 0..(ListSize + 1) /\ i + 1 \in 0..(ListSize + 1)
        /\ i \in ListCells /\ i + 1 \in ListCells /\ i # FakeTail /\ i + 1 # FakeHead
    BY <1>1 DEF ListCells, ListBlocks, FakeHead, FakeTail
  <2>2. nextOf[i] = i + 1 /\ prevOf[i + 1] = (i + 1) - 1
    BY <2>1 DEF ListInit
  <2>3. (i + 1) - 1 = i
    BY <2>1
  <2> QED BY <1>2, <2>1, <2>2, <2>3
<1>4. /\ DOMAIN nextOf = ListCells /\ DOMAIN prevOf = ListCells
      /\ prevOf[FakeHead] = NoBlock /\ nextOf[FakeTail] = NoBlock /\ freeCount = ListSize
  BY DEF ListInit, ListCells
<1>5. Linked(q, nextOf, prevOf)
  BY <1>1, <1>3, <1>4, LinkedBy
<1> QED BY <1>1, <1>4, <1>5 DEF ListHolds, q

\* Every step of the list is one of the queue, of the blocks that it holds.
LEMMA ListStep ==
  ASSUME ListSize \in Nat \ {0}, NEW q, ListHolds(q), [ListNext]_listVars
  PROVE  \E t : ListHolds(t)' /\ [BQ!QueueNext]_ListedBlocks
<1>1. q \in Seq(ListBlocks) /\ IsInjective(q) /\ Len(q) \in Nat /\ Len(q) <= ListSize
      /\ DOMAIN q = 1..Len(q) /\ ListedBlocks = q
  BY ListFits, ListedIs, SMTT(30) DEF ListHolds, Linked, ListedBlocks, Along
<1>2. ASSUME NEW t, ListHolds(t)' PROVE ListedBlocks' = t
  BY <1>2, ListedIs DEF ListHolds, ListedBlocks, Along
<1>3. ASSUME NEW n \in 1..ListSize, PopLeft(n) PROVE \E t : ListHolds(t)' /\ [BQ!QueueNext]_ListedBlocks
  <2>1. n \in 1..Len(q) /\ ListHolds(SubSeq(q, n + 1, Len(q)))'
    BY <1>3, PopLeftMaps
  <2>2. ListedBlocks' = SubSeq(q, n + 1, Len(q))
    BY <1>2, <2>1
  <2>3. n \in 0..ListSize /\ n <= Len(q)
    BY <1>1, <2>1
  <2>4. BQ!TakeFront(n)
    BY <1>1, <2>2, <2>3 DEF BQ!TakeFront
  <2> QED BY <2>1, <2>3, <2>4 DEF BQ!QueueNext
<1>4. ASSUME NEW b \in ListBlocks, RemoveBlock(b)
      PROVE  \E t : ListHolds(t)' /\ [BQ!QueueNext]_ListedBlocks
  <2>1. PICK k \in 1..Len(q) : ListHolds(RemoveAt(q, k))'
    BY <1>4, RemoveBlockMaps
  <2>2. ListedBlocks' = RemoveAt(q, k)
    BY <1>2, <2>1
  <2>3. k \in 1..ListSize /\ k \in DOMAIN q
    BY <1>1, <2>1
  <2>4. BQ!TakeOut(k)
    BY <1>1, <2>2, <2>3 DEF BQ!TakeOut, BQ!RemoveAt, RemoveAt
  <2> QED BY <2>1, <2>3, <2>4 DEF BQ!QueueNext
<1>5. ASSUME NEW n \in 1..2, NEW bs \in [1..n -> TakenBlocks], IsInjective(bs), AppendBlocks(bs)
      PROVE  \E t : ListHolds(t)' /\ [BQ!QueueNext]_ListedBlocks
  <2>1. TakenBlocks \subseteq ListBlocks /\ TakenBlocks \cap ToSet(q) = {}
    <3>1. ASSUME NEW b \in ToSet(q) PROVE nextOf[b] # NoBlock
      <4>1. PICK i \in 1..Len(q) : b = q[i]
        BY <1>1 DEF ToSet
      <4>2. b = Cell(q, i) /\ i \in 0..Len(q) /\ i + 1 \in 0..(Len(q) + 1)
        BY <1>1, <4>1, CellsDiffer
      <4>3. Cell(q, i + 1) # NoBlock
        BY <1>1, <4>2, CellsDiffer
      <4>4. nextOf[b] = Cell(q, i + 1)
        BY <4>2 DEF ListHolds, Linked
      <4> QED BY <4>3, <4>4
    <3> QED BY <3>1 DEF TakenBlocks
  <2>2. bs \in Seq(ListBlocks) /\ DOMAIN bs = 1..n /\ Len(bs) = n
    <3>1. bs \in [1..n -> ListBlocks] /\ n \in Nat
      BY <2>1
    <3> QED BY <3>1
  <2>3. ToSet(bs) \cap ToSet(q) = {}
    BY <2>1, <2>2 DEF ToSet
  <2>4. ListHolds(q \o bs)'
    BY <1>5, <2>2, <2>3, AppendBlocksMaps
  <2>5. ListedBlocks' = q \o bs
    BY <1>2, <2>4
  <2>6. n \in 0..ListSize
    <3>1. n <= ListSize
      BY <2>2, <1>5, ListFits
    <3> QED BY <3>1
  <2>7. bs \in [1..n -> BQ!OutOfQueue]
    <3>1. TakenBlocks \subseteq BQ!OutOfQueue
      BY <1>1, <2>1 DEF BQ!OutOfQueue, BQ!ToSet, ToSet, ListBlocks
    <3> QED BY <3>1
  <2>8. BQ!PutBack(bs)
    <3>1. IsInjective(q \o bs)
      BY <1>1, <1>5, <2>2, <2>3, Behind
    <3> QED BY <1>1, <2>5, <3>1 DEF BQ!PutBack, BQ!IsInjective, IsInjective
  <2>9. bs \in UNION {[1..k -> BQ!OutOfQueue] : k \in 0..ListSize}
    BY <2>6, <2>7
  <2>10. BQ!QueueNext
    BY <2>8, <2>9 DEF BQ!QueueNext
  <2> QED BY <2>4, <2>10
<1>6. CASE UNCHANGED listVars
  <2>1. ListHolds(q)'
    BY <1>6 DEF ListHolds, listVars
  <2>2. ListedBlocks' = ListedBlocks
    BY <1>1, <1>2, <2>1
  <2> QED BY <2>1, <2>2
<1>7. CASE \E bs \in {t \in UNION {[1..n -> TakenBlocks] : n \in 1..2} : IsInjective(t)} : AppendBlocks(bs)
  <2>1. PICK n \in 1..2, bs \in UNION {[1..m -> TakenBlocks] : m \in 1..2} :
          bs \in [1..n -> TakenBlocks] /\ IsInjective(bs) /\ AppendBlocks(bs)
    BY <1>7
  <2> QED BY <1>5, <2>1
<1> QED BY <1>3, <1>4, <1>6, <1>7 DEF ListNext

\* FreeKVCacheBlockQueue is a queue: whatever is popped, appended and taken out of the middle
\* of its linked list, what the list holds is what a queue would hold after the same calls.
THEOREM ListIsAQueue == ListSpec => ListIsQueue
<1> DEFINE Holds == \E q : ListHolds(q)
<1>0. ListSize \in Nat \ {0}
  BY ListAssumption
<1>1. ListInit => Holds /\ BQ!QueueInit
  <2> SUFFICES ASSUME ListInit PROVE Holds /\ BQ!QueueInit
    OBVIOUS
  <2>1. ListHolds([i \in 1..ListSize |-> i])
    BY <1>0, ListHoldsInit
  <2>2. ListedBlocks = [i \in 1..ListSize |-> i]
    BY <1>0, <2>1, ListedIs DEF ListHolds, ListedBlocks, Along
  <2> QED BY <2>1, <2>2 DEF BQ!QueueInit
<1>2. Holds /\ [ListNext]_listVars => Holds' /\ [BQ!QueueNext]_ListedBlocks
  BY <1>0, ListStep
<1> QED BY <1>1, <1>2, PTL DEF ListSpec, ListIsQueue, BQ!QueueSpec

--------------------------------------------------------------------------------
(* The trie of the prefix cache, the pixel cache and the multimodal cache.   *)

\* A node is on the way to an entry.
LEMMA WaysTo ==
  \A S, p : p \in Ways(S) <=> p = <<>> \/ \E s \in S : p \in PathTo(s)
<1> SUFFICES ASSUME NEW S, NEW p PROVE p \in Ways(S) <=> p = <<>> \/ \E s \in S : p \in PathTo(s)
  OBVIOUS
<1> DEFINE all == {PathTo(t) : t \in S}
           some == UNION all
<1>1. Ways(S) = {<<>>} \cup some
  BY DEF Ways
<1>2. p \in some <=> \E P \in all : p \in P
  <2> HIDE DEF all
  <2> QED OBVIOUS
<1>3. (\E P \in all : p \in P) <=> \E s \in S : p \in PathTo(s)
  OBVIOUS
<1> HIDE DEF all, some
<1> QED BY <1>1, <1>2, <1>3

TrieInv ==
  /\ trieLru \in Seq(TrieKeys) /\ TrieAgrees /\ TrieFits

\* The nodes on the way to a key are its prefixes.
LEMMA PathsArePrefixes ==
  ASSUME NEW k \in Seq(Nat)
  PROVE  /\ \A p \in PathTo(k) : p \in Seq(Nat) /\ Len(p) <= Len(k) /\ IsPrefix(p, k)
         /\ \A p \in Seq(Nat) : p \in PathTo(k) <=> IsPrefix(p, k)
         /\ k \in PathTo(k) /\ <<>> \in PathTo(k)
<1>1. Len(k) \in Nat
  OBVIOUS
<1>2. ASSUME NEW p \in PathTo(k) PROVE p \in Seq(Nat) /\ Len(p) <= Len(k) /\ IsPrefix(p, k)
  <2>1. PICK n \in 0..Len(k) : p = SubSeq(k, 1, n)
    BY DEF PathTo
  <2>2. p \in Seq(Nat) /\ Len(p) = n
    BY <2>1
  <2>3. p = SubSeq(k, 1, Len(p))
    BY <2>1, <2>2
  <2>4. Len(p) <= Len(k)
    BY <1>1, <2>1, <2>2
  <2>5. IsPrefix(p, k)
    BY <2>2, <2>3, <2>4, PrefixPlaces
  <2> QED BY <2>2, <2>4, <2>5
<1>3. ASSUME NEW p \in Seq(Nat), IsPrefix(p, k) PROVE p \in PathTo(k)
  <2>1. Len(p) <= Len(k) /\ p = SubSeq(k, 1, Len(p)) /\ Len(p) \in Nat
    BY <1>3, PrefixPlaces
  <2>2. Len(p) \in 0..Len(k)
    BY <1>1, <2>1
  <2> QED BY <2>1, <2>2 DEF PathTo
<1>4. k = SubSeq(k, 1, Len(k)) /\ <<>> = SubSeq(k, 1, 0)
  OBVIOUS
<1>5. Len(k) \in 0..Len(k) /\ 0 \in 0..Len(k)
  BY <1>1
<1>6. k \in PathTo(k) /\ <<>> \in PathTo(k)
  BY <1>4, <1>5 DEF PathTo
<1> QED BY <1>2, <1>3, <1>6

\* _search: the walk ends at a node on the way to k.
LEMMA WalkEnds ==
  ASSUME NEW k \in Seq(Nat), <<>> \in nodes
  PROVE  WalkEnd(k) \in PathTo(k) \cap nodes
<1> DEFINE T == {n \in 0..Len(k) : SubSeq(k, 1, Len(k) - n) \in nodes}
<1>1. Len(k) \in Nat /\ SubSeq(k, 1, 0) = <<>>
  OBVIOUS
<1>2. T \in SUBSET Nat /\ Len(k) \in T
  <2>1. Len(k) \in 0..Len(k) /\ Len(k) - Len(k) = 0
    BY <1>1
  <2>2. SubSeq(k, 1, Len(k) - Len(k)) \in nodes
    BY <1>1, <2>1
  <2>3. T \in SUBSET Nat
    BY <1>1
  <2> QED BY <2>1, <2>2, <2>3
<1>3. PICK m \in T : \A n \in T : m <= n
  BY <1>2, LeastNatural
<1> DEFINE p == SubSeq(k, 1, Len(k) - m)
<1>4. m \in 0..Len(k) /\ Len(k) - m \in 0..Len(k) /\ p \in nodes /\ Len(p) = Len(k) - m
  BY <1>1
<1>5. p \in PathTo(k) \cap nodes
  BY <1>4 DEF PathTo
<1>6. p = k \/ SubSeq(k, 1, Len(p) + 1) \notin nodes
  <2>1. CASE m = 0
    BY <2>1
  <2>2. CASE m # 0
    <3>1. m - 1 \in 0..Len(k) /\ m - 1 \notin T
      <4> HIDE DEF T
      <4>1. m \in Nat /\ m - 1 \in 0..Len(k) /\ ~(m <= m - 1)
        BY <1>1, <1>4, <2>2
      <4> QED BY <1>3, <4>1
    <3>2. Len(k) - (m - 1) = Len(p) + 1
      BY <1>1, <1>4
    <3> QED BY <3>1, <3>2
  <2> QED BY <2>1, <2>2
<1> HIDE DEF p
<1> QED BY <1>5, <1>6 DEF WalkEnd

\* What every look-up and every store starts from.
LEMMA TrieFacts ==
  ASSUME TrieInv
  PROVE  /\ trieLru \in Seq(TrieKeys) /\ IsInjective(trieLru) /\ ToSet(trieLru) = holders
         /\ holders \subseteq TrieKeys /\ TrieKeys \subseteq Seq(Nat) /\ <<>> \in nodes
         /\ Len(trieLru) \in Nat /\ Len(trieLru) <= TrieMax /\ TrieMax \in Nat /\ TrieMax # 0
<1>1. ToSet(trieLru) \subseteq TrieKeys
  BY DEF TrieInv, ToSet
<1>2. Len(trieLru) \in Nat /\ TrieMax \in Nat /\ TrieMax # 0
  <2>1. trieLru \in Seq(TrieKeys)
    BY DEF TrieInv
  <2>2. Len(trieLru) \in Nat
    BY <2>1
  <2> QED BY <2>2, TrieAssumption
<1>3. ToSet(trieLru) = holders /\ IsInjective(trieLru) /\ Len(trieLru) <= TrieMax /\ <<>> \in nodes
  <2>1. nodes = Ways(holders)
    BY DEF TrieInv, TrieAgrees
  <2> QED BY <2>1, WaysTo DEF TrieInv, TrieAgrees
<1>4. holders \subseteq TrieKeys /\ TrieKeys \subseteq Seq(Nat)
  BY <1>1, <1>3, TrieAssumption
<1> QED BY <1>2, <1>3, <1>4 DEF TrieInv

\* fetch_cache gives what covers a beginning of what is asked for.
LEMMA TrieFetchStep ==
  ASSUME TrieInv, NEW k \in TrieKeys, TrieFetch(k)
  PROVE  TrieInv'
<1>1. k \in Seq(Nat) /\ WalkEnd(k) \in PathTo(k) /\ nodes' = nodes /\ holders' = holders
  <2>1. k \in Seq(Nat)
    BY TrieFacts
  <2> QED BY <2>1, TrieFacts, WalkEnds DEF TrieFetch
<1> DEFINE e == WalkEnd(k)
<1>2. /\ trieLru' \in Seq(TrieKeys) /\ IsInjective(trieLru') /\ ToSet(trieLru') = holders
      /\ Len(trieLru') <= TrieMax
  <2>1. CASE trieLru' = trieLru
    BY <2>1, TrieFacts
  <2>2. CASE trieLru' = Touched(e) /\ e \in holders
    <3>1. PICK x \in TrieKeys : x = e /\ x \in ToSet(trieLru)
      BY <2>2, TrieFacts
    <3>2. trieLru' = MovedIn(trieLru, x)
      BY <2>2, <3>1 DEF Touched, MovedIn
    <3>3. trieLru \in Seq(TrieKeys) /\ IsInjective(trieLru)
      BY TrieFacts
    <3>4. /\ trieLru' \in Seq(TrieKeys) /\ IsInjective(trieLru') /\ ToSet(trieLru') = ToSet(trieLru) \cup {x}
          /\ Len(trieLru') = Len(trieLru)
      <4>1. /\ MovedIn(trieLru, x) \in Seq(TrieKeys) /\ IsInjective(MovedIn(trieLru, x))
            /\ ToSet(MovedIn(trieLru, x)) = ToSet(trieLru) \cup {x}
            /\ x \in ToSet(trieLru) => Len(MovedIn(trieLru, x)) = Len(trieLru)
        BY <3>3, MovedToEnd
      <4> QED BY <3>1, <3>2, <4>1
    <3> QED BY <3>1, <3>4, TrieFacts
  <2> QED BY <2>1, <2>2 DEF TrieFetch
<1>3. TrieFits'
  <2>1. CASE trieAnswer' = [at |-> "hit", want |-> k, kv |-> e, done |-> Len(e)]
    <3>1. IsPrefix(e, k)
      BY <1>1, PathsArePrefixes
    <3> QED BY <2>1, <3>1 DEF TrieFits
  <2>2. CASE trieAnswer' = [at |-> "hit", want |-> k, kv |-> k, done |-> Len(k)]
    <3>1. IsPrefix(k, k)
      BY <1>1, PathsArePrefixes
    <3> QED BY <2>2, <3>1 DEF TrieFits
  <2>3. CASE trieAnswer' = [at |-> "miss", want |-> k]
    BY <2>3 DEF TrieFits
  <2> QED BY <2>1, <2>2, <2>3 DEF TrieFetch, CutTo
<1>4. TrieAgrees'
  BY <1>1, <1>2 DEF TrieInv, TrieAgrees
<1> QED BY <1>2, <1>3, <1>4 DEF TrieInv

\* store_cache: the nodes are those on the way to an entry before and after an eviction.
LEMMA TrieStoreStep ==
  ASSUME TrieInv, NEW k \in TrieKeys, TrieStore(k)
  PROVE  TrieInv'
<1> DEFINE queue == IF k \in holders THEN Touched(k) ELSE Append(trieLru, k)
           full == Len(queue) > TrieMax
           left == (holders \cup {k}) \ (IF full THEN {Head(queue)} ELSE {})
           grown == nodes \cup PathTo(k)
<1>1. /\ trieLru' = IF full THEN Tail(queue) ELSE queue
      /\ holders' = left /\ trieAnswer' = trieAnswer
      /\ nodes' = IF full THEN Pruned(grown, left, Head(queue)) ELSE grown
  BY DEF TrieStore
<1>2. /\ queue \in Seq(TrieKeys) /\ IsInjective(queue) /\ ToSet(queue) = holders \cup {k}
      /\ Len(queue) \in Nat /\ Len(queue) <= TrieMax + 1 /\ Len(queue) # 0
  <2>1. CASE k \in holders
    <3>1. queue = MovedIn(trieLru, k)
      BY <2>1 DEF Touched, MovedIn
    <3> HIDE DEF queue
    <3>2. /\ queue \in Seq(TrieKeys) /\ IsInjective(queue) /\ ToSet(queue) = ToSet(trieLru) \cup {k}
          /\ Len(queue) \in Nat /\ Len(queue) <= Len(trieLru) + 1 /\ Len(queue) # 0
      <4>1. trieLru \in Seq(TrieKeys) /\ IsInjective(trieLru)
        BY TrieFacts
      <4>2. /\ MovedIn(trieLru, k) \in Seq(TrieKeys) /\ IsInjective(MovedIn(trieLru, k))
            /\ ToSet(MovedIn(trieLru, k)) = ToSet(trieLru) \cup {k}
            /\ Len(MovedIn(trieLru, k)) \in Nat /\ Len(MovedIn(trieLru, k)) <= Len(trieLru) + 1
            /\ Len(MovedIn(trieLru, k)) # 0
        BY <4>1, MovedToEnd
      <4> QED BY <3>1, <4>2
    <3> QED BY <3>2, TrieFacts
  <2>2. CASE k \notin holders
    <3>1. queue = Append(trieLru, k)
      BY <2>2
    <3> HIDE DEF queue
    <3>2. queue \in Seq(TrieKeys) /\ ToSet(queue) = ToSet(trieLru) \cup {k} /\ IsInjective(queue)
      BY <2>2, <3>1, TrieFacts, AppendToQueue
    <3>3. Len(queue) = Len(trieLru) + 1
      BY <3>1, TrieFacts
    <3> QED BY <3>2, <3>3, TrieFacts
  <2> QED BY <2>1, <2>2
<1>3. /\ nodes = Ways(holders) /\ grown = Ways(holders \cup {k})
      /\ \A p : p \in grown <=> p = <<>> \/ \E s \in holders \cup {k} : p \in PathTo(s)
  <2>1. nodes = Ways(holders)
    BY DEF TrieInv, TrieAgrees
  <2>2. \A p : p \in grown <=> p \in Ways(holders \cup {k})
    BY <2>1, WaysTo
  <2>3. grown = Ways(holders \cup {k})
    <3> HIDE DEF grown
    <3> QED BY <2>2
  <2> HIDE DEF grown
  <2> QED BY <2>1, <2>3, WaysTo
<1> HIDE DEF queue
<1>4. CASE ~full
  <2>1. trieLru' = queue /\ holders' = holders \cup {k} /\ nodes' = grown
    BY <1>1, <1>4
  <2>2. Len(trieLru') <= TrieMax
    BY <1>2, <1>4, <2>1, TrieFacts
  <2>3. TrieAgrees'
    <3> HIDE DEF grown, full
    <3> QED BY <1>2, <1>3, <2>1, <2>2 DEF TrieAgrees
  <2>4. TrieFits'
    BY <1>1 DEF TrieInv, TrieFits
  <2> QED BY <1>2, <2>1, <2>3, <2>4 DEF TrieInv
<1>5. CASE full
  <2> DEFINE v == Head(queue)
  <2>1. trieLru' = Tail(queue) /\ holders' = left /\ left = (holders \cup {k}) \ {v} /\ nodes' = Pruned(grown, left, v)
    BY <1>1, <1>5
  <2>2. queue # <<>>
    BY <1>2
  <2>3. /\ Tail(queue) \in Seq(TrieKeys) /\ v \in TrieKeys /\ v \in ToSet(queue)
        /\ ToSet(Tail(queue)) \subseteq ToSet(queue) /\ ToSet(queue) \subseteq ToSet(Tail(queue)) \cup {v}
        /\ v \notin ToSet(Tail(queue)) /\ IsInjective(Tail(queue))
    BY <1>2, <2>2, TailOfQueue
  <2>4. ToSet(Tail(queue)) = left
    <3> HIDE DEF v, left
    <3> QED BY <1>2, <2>1, <2>3
  <2>5. Len(Tail(queue)) = Len(queue) - 1
    BY <1>2, <2>2
  <2>6. Len(trieLru') <= TrieMax
    BY <1>2, <2>1, <2>5, TrieFacts
  <2>7. Pruned(grown, left, v) = Ways(left)
    <3> HIDE DEF full, v
    <3>1. left \subseteq TrieKeys /\ left \subseteq Seq(Nat) /\ v \in Seq(Nat)
      <4>1. left \subseteq TrieKeys /\ v \in TrieKeys
        BY <2>1, <2>3, TrieFacts
      <4> QED BY <4>1, TrieFacts
    <3>2. \A p \in Seq(Nat) : (\E s \in left : IsPrefix(p, s)) <=> (\E s \in left : p \in PathTo(s))
      BY <3>1, PathsArePrefixes
    <3>3. \A p \in grown : p \in Seq(Nat)
      <4>1. \A s \in holders \cup {k} : s \in Seq(Nat)
        BY TrieFacts
      <4>2. \A s \in holders \cup {k} : \A p \in PathTo(s) : p \in Seq(Nat)
        BY <4>1, PathsArePrefixes
      <4>3. <<>> \in Seq(Nat)
        OBVIOUS
      <4> HIDE DEF grown
      <4> QED BY <1>3, <4>2, <4>3
    <3>4. \A p : p \in grown <=> p = <<>> \/ p \in PathTo(v) \/ \E s \in left : p \in PathTo(s)
      <4>1. v \in holders \cup {k}
        BY <1>2, <2>3
      <4> HIDE DEF grown, left
      <4> QED BY <1>3, <2>1, <4>1
    <3> HIDE DEF grown, left
    <3>5. \A p : p \in Pruned(grown, left, v) <=> p = <<>> \/ \E s \in left : p \in PathTo(s)
      <4>1. \A p : p \in Pruned(grown, left, v) <=>
                     p \in grown /\ (p = <<>> \/ p \notin PathTo(v) \/ \E s \in left : IsPrefix(p, s))
        BY DEF Pruned
      <4> QED BY <3>2, <3>3, <3>4, <4>1
    <3> HIDE DEF left
    <3>6. \A p : p \in Ways(left) <=> p = <<>> \/ \E s \in left : p \in PathTo(s)
      BY WaysTo
    <3> QED BY <3>5, <3>6
  <2>8. TrieAgrees'
    <3> HIDE DEF grown, full, left, v
    <3> QED BY <2>1, <2>3, <2>4, <2>6, <2>7 DEF TrieAgrees
  <2>9. TrieFits'
    BY <1>1 DEF TrieInv, TrieFits
  <2> QED BY <2>1, <2>3, <2>8, <2>9 DEF TrieInv
<1> QED BY <1>4, <1>5

\* An empty trie.
LEMMA TrieEmpty ==
  /\ <<>> \in Seq(TrieKeys) /\ IsInjective(<<>>) /\ ToSet(<<>>) = {} /\ Len(<<>>) <= TrieMax
  /\ Ways({}) = {<<>>}
<1>1. TrieMax \in Nat
  BY TrieAssumption
<1>2. IsInjective(<<>>) /\ ToSet(<<>>) = {}
  BY DEF IsInjective, ToSet
<1>3. <<>> \in Seq(TrieKeys) /\ Len(<<>>) = 0
  OBVIOUS
<1>4. Ways({}) = {<<>>}
  <2>1. \A p : p \in Ways({}) <=> p = <<>>
    BY WaysTo
  <2> QED BY <2>1
<1> QED BY <1>1, <1>2, <1>3, <1>4

\* The trie at the start.
LEMMA TrieInvInit == TrieInit => TrieInv
  BY TrieEmpty DEF TrieInit, TrieInv, TrieAgrees, TrieFits, TrieMiss

\* The invariant of the trie is kept.
LEMMA TrieInvStep == TrieInv /\ [TrieNext]_trieVars => TrieInv'
<1> SUFFICES ASSUME TrieInv, [TrieNext]_trieVars PROVE TrieInv'
  OBVIOUS
<1>1. ASSUME NEW k \in TrieKeys, TrieFetch(k) PROVE TrieInv'
  BY <1>1, TrieFetchStep
<1>2. ASSUME NEW k \in TrieKeys, TrieStore(k) PROVE TrieInv'
  BY <1>2, TrieStoreStep
<1>3. ASSUME TrieClear PROVE TrieInv'
  BY <1>3, TrieEmpty DEF TrieClear, TrieInv, TrieAgrees, TrieFits
<1>4. ASSUME UNCHANGED trieVars PROVE TrieInv'
  BY <1>4 DEF trieVars, TrieInv, TrieAgrees, TrieFits
<1> QED BY <1>1, <1>2, <1>3, <1>4 DEF TrieNext

\* What keys and values are made of.
Words == {"prompt", "output"}

PixelEntries == [images : ImageLists, prompt : VisionPrompts]
MmEntries == [images : ImageLists, prompt : VisionPrompts, kv : Seq(Words)]

\* A dictionary has one entry for a key.
OneForAKey(cache) ==
  /\ IsInjective(cache)
  /\ \A e, f \in ToSet(cache) : EntryKey(e) = EntryKey(f) => e = f

\* Sizes as a function of the entries.
SizeOf == [e \in MmEntries |-> Len(e.kv)]

HeldIn(cache) == SumFunctionOnSet(SizeOf, ToSet(cache))

VisionInv ==
  /\ pixelCache \in Seq(PixelEntries) /\ OneForAKey(pixelCache) /\ Len(pixelCache) <= PixelMax
  /\ mmCache \in Seq(MmEntries) /\ OneForAKey(mmCache) /\ Len(mmCache) <= MmMax
  /\ mmMemory \in Int /\ mmGrows \in Nat
  /\ mmMemory <= HeldIn(mmCache)
  /\ mmGrows = 0 => mmMemory = HeldIn(mmCache) /\ (mmMemory <= MmBytes \/ Len(mmCache) = 1)
  /\ visionUse.at # "none" =>
       /\ visionUse.given.prompt = visionUse.asked.prompt
       /\ ToSet(visionUse.given.images) = ToSet(visionUse.asked.images)

\* The same key is the same prompt and the same set of images.
LEMMA KeysTell ==
  ASSUME NEW e, NEW images, NEW prompt, EntryKey(e) = VisionKey(images, prompt)
  PROVE  e.prompt = prompt /\ ToSet(e.images) = ToSet(images)
<1>1. ImagesKey(e.images) = ImagesKey(images) /\ e.prompt = prompt
  BY DEF EntryKey, VisionKey
<1>2. DOMAIN ImagesKey(e.images) = DOMAIN ImagesKey(images)
  BY <1>1
<1>3. \A s : DOMAIN ImagesKey(s) = ToSet(s)
  BY DEF ImagesKey
<1> QED BY <1>1, <1>2, <1>3

\* One entry for a key, place by place.
LEMMA KeyPlaces ==
  ASSUME NEW S, NEW cache \in Seq(S), OneForAKey(cache)
  PROVE  \A i, j \in DOMAIN cache : EntryKey(cache[i]) = EntryKey(cache[j]) => i = j
<1> SUFFICES ASSUME NEW i \in DOMAIN cache, NEW j \in DOMAIN cache, EntryKey(cache[i]) = EntryKey(cache[j])
             PROVE  i = j
  OBVIOUS
<1>1. cache[i] \in ToSet(cache) /\ cache[j] \in ToSet(cache)
  BY DEF ToSet
<1>2. cache[i] = cache[j]
  BY <1>1 DEF OneForAKey
<1> QED BY <1>2 DEF OneForAKey, IsInjective

FoundAt(cache, key) == cache[CHOOSE i \in EntryAt(cache, key) : TRUE]

\* What is found under a key, and what the cache is without it.
LEMMA KeyFound ==
  ASSUME NEW S, NEW cache \in Seq(S), OneForAKey(cache), NEW key, EntryAt(cache, key) # {}
  PROVE  /\ FoundAt(cache, key) \in S /\ EntryKey(FoundAt(cache, key)) = key
         /\ WithoutKey(cache, key) \in Seq(S) /\ OneForAKey(WithoutKey(cache, key))
         /\ ToSet(cache) = ToSet(WithoutKey(cache, key)) \cup {FoundAt(cache, key)}
         /\ FoundAt(cache, key) \notin ToSet(WithoutKey(cache, key))
         /\ \A e \in ToSet(WithoutKey(cache, key)) : EntryKey(e) # key
         /\ Len(WithoutKey(cache, key)) = Len(cache) - 1 /\ Len(cache) \in Nat
<1> DEFINE others == {e \in ToSet(cache) : EntryKey(e) # key}
           u == WithoutKey(cache, key)
<1>0. PICK i \in EntryAt(cache, key) : FoundAt(cache, key) = cache[i]
  BY DEF FoundAt
<1>1. i \in DOMAIN cache /\ EntryKey(cache[i]) = key
  BY DEF EntryAt
<1>2. cache[i] \in ToSet(cache) /\ cache[i] \in S
  <2>1. cache[i] \in ToSet(cache)
    BY <1>1 DEF ToSet
  <2> QED BY <1>1, <2>1
<1>3. u \in Seq(S) /\ ToSet(u) = ToSet(cache) \cap others /\ IsInjective(u) /\ Len(u) \in Nat
  <2>1. u = Selected(cache, others)
    BY DEF WithoutKey
  <2> HIDE DEF others, u
  <2>2. u \in Seq(S) /\ ToSet(u) = ToSet(cache) \cap others /\ (IsInjective(cache) => IsInjective(u))
    BY <2>1, SelectedQueue
  <2>3. Len(u) \in Nat
    BY <2>2
  <2> QED BY <2>2, <2>3 DEF OneForAKey
<1> HIDE DEF u
<1>4. \A e \in ToSet(cache) : EntryKey(e) = key => e = cache[i]
  BY <1>1, <1>2 DEF OneForAKey
<1>5. ToSet(u) = ToSet(cache) \ {cache[i]} /\ \A e \in ToSet(u) : EntryKey(e) # key
  BY <1>1, <1>3, <1>4
<1>6. OneForAKey(u)
  BY <1>3, <1>5 DEF OneForAKey
<1>7. Len(u) = Len(cache) - 1
  <2>1. IsFiniteSet(ToSet(cache)) /\ Cardinality(ToSet(cache)) = Len(cache) /\ Cardinality(ToSet(u)) = Len(u)
    BY <1>3, QueueLength DEF OneForAKey
  <2>2. Cardinality(ToSet(cache) \ {cache[i]}) = Cardinality(ToSet(cache)) - 1
    BY <1>2, <2>1, OneLess
  <2> QED BY <1>5, <2>1, <2>2
<1>8. Len(cache) \in Nat
  OBVIOUS
<1> QED BY <1>0, <1>1, <1>2, <1>3, <1>5, <1>6, <1>7, <1>8 DEF u

\* An entry under a key that is not there is put at the end.
LEMMA KeyAdded ==
  ASSUME NEW S, NEW cache \in Seq(S), OneForAKey(cache), NEW e \in S,
         \A f \in ToSet(cache) : EntryKey(f) # EntryKey(e)
  PROVE  /\ Append(cache, e) \in Seq(S) /\ OneForAKey(Append(cache, e))
         /\ ToSet(Append(cache, e)) = ToSet(cache) \cup {e} /\ e \notin ToSet(cache)
         /\ Len(Append(cache, e)) = Len(cache) + 1 /\ Len(cache) \in Nat
<1> DEFINE t == Append(cache, e)
<1>1. e \notin ToSet(cache)
  OBVIOUS
<1>2. t \in Seq(S) /\ ToSet(t) = ToSet(cache) \cup {e} /\ IsInjective(t)
  BY <1>1, AppendToQueue DEF OneForAKey
<1>3. Len(t) = Len(cache) + 1 /\ Len(cache) \in Nat
  OBVIOUS
<1> HIDE DEF t
<1>4. OneForAKey(t)
  BY <1>2 DEF OneForAKey
<1> QED BY <1>1, <1>2, <1>3, <1>4 DEF t

\* What is left of a sequence when the first n go.
LEMMA RestOf ==
  ASSUME NEW S, NEW s \in Seq(S), NEW n \in 0..Len(s)
  PROVE  /\ SubSeq(s, n + 1, Len(s)) \in Seq(S) /\ Len(SubSeq(s, n + 1, Len(s))) = Len(s) - n
         /\ \A i \in 1..(Len(s) - n) : SubSeq(s, n + 1, Len(s))[i] = s[i + n]
<1>1. Len(s) \in Nat /\ n \in Nat /\ n <= Len(s)
  OBVIOUS
<1>2. CASE n = Len(s)
  <2>1. SubSeq(s, n + 1, Len(s)) = <<>>
    BY <1>1, <1>2
  <2> QED BY <1>1, <1>2, <2>1
<1>3. CASE n < Len(s)
  <2>1. n + 1 \in 1..Len(s)
    BY <1>1, <1>3
  <2>2. SubSeq(s, n + 1, Len(s)) \in Seq(S)
    BY <1>1, <2>1
  <2>3. Len(SubSeq(s, n + 1, Len(s))) = Len(s) - n
    BY <1>1, <2>1
  <2>4. \A i \in 1..(Len(s) - n) : SubSeq(s, n + 1, Len(s))[i] = s[i + n]
    BY <1>1, <2>1
  <2> QED BY <2>2, <2>3, <2>4
<1> QED BY <1>1, <1>2, <1>3

LeftAfter(cache, n) == SubSeq(cache, n + 1, Len(cache))

\* The first of a cache goes, and any number of them.
LEMMA KeysLeft ==
  ASSUME NEW S, NEW cache \in Seq(S), OneForAKey(cache), NEW n \in 0..Len(cache)
  PROVE  /\ LeftAfter(cache, n) \in Seq(S) /\ OneForAKey(LeftAfter(cache, n))
         /\ Len(LeftAfter(cache, n)) = Len(cache) - n /\ Len(cache) \in Nat
         /\ ToSet(LeftAfter(cache, n)) = AreAt(cache, (n + 1)..Len(cache))
         /\ ToSet(LeftAfter(cache, n)) \subseteq ToSet(cache)
<1> DEFINE left == LeftAfter(cache, n)
<1>1. Len(cache) \in Nat /\ DOMAIN cache = 1..Len(cache)
  OBVIOUS
<1>2. /\ left \in Seq(S) /\ Len(left) = Len(cache) - n
      /\ \A i \in 1..(Len(cache) - n) : left[i] = cache[i + n]
  BY RestOf DEF LeftAfter
<1> HIDE DEF left
<1>3. DOMAIN left = 1..(Len(cache) - n)
  BY <1>2
<1>4. IsInjective(left)
  <2>1. ASSUME NEW i \in 1..(Len(cache) - n), NEW j \in 1..(Len(cache) - n), left[i] = left[j] PROVE i = j
    <3>1. i + n \in DOMAIN cache /\ j + n \in DOMAIN cache
      BY <1>1
    <3>0. cache[i + n] = cache[j + n]
      BY <1>2, <2>1
    <3>2. i + n = j + n
      BY <3>0, <3>1 DEF OneForAKey, IsInjective
    <3> QED BY <1>1, <3>2
  <2> QED BY <1>3, <2>1 DEF IsInjective
<1>5. ToSet(left) = {cache[i] : i \in (n + 1)..Len(cache)}
  <2>1. ASSUME NEW j \in DOMAIN left PROVE left[j] \in {cache[i] : i \in (n + 1)..Len(cache)}
    <3>0. j \in 1..(Len(cache) - n)
      BY <1>3
    <3>1. j + n \in (n + 1)..Len(cache)
      BY <1>1, <3>0
    <3>2. left[j] = cache[j + n]
      BY <1>2, <3>0
    <3> QED BY <3>1, <3>2
  <2>2. ASSUME NEW i \in (n + 1)..Len(cache) PROVE cache[i] \in ToSet(left)
    <3>1. i - n \in 1..(Len(cache) - n) /\ (i - n) + n = i
      BY <1>1
    <3>2. left[i - n] = cache[i]
      BY <1>2, <3>1
    <3> QED BY <1>3, <3>1, <3>2 DEF ToSet
  <2> QED BY <2>1, <2>2 DEF ToSet
<1>6. ToSet(left) \subseteq ToSet(cache)
  <2>1. \A i \in (n + 1)..Len(cache) : i \in DOMAIN cache
    BY <1>1
  <2> QED BY <1>5, <2>1 DEF ToSet
<1>7. OneForAKey(left)
  BY <1>4, <1>6 DEF OneForAKey
<1> QED BY <1>1, <1>2, <1>5, <1>6, <1>7 DEF left, AreAt

\* What is counted at the places of the cache is what its entries hold.
LEMMA HeldByEntries ==
  ASSUME NEW cache \in Seq(MmEntries), IsInjective(cache), NEW sizes,
         DOMAIN sizes = DOMAIN cache, \A i \in DOMAIN cache : sizes[i] = EntrySize(cache[i])
  PROVE  /\ SumFunction(sizes) = SumFunctionOnSet(SizeOf, ToSet(cache))
         /\ SumFunctionOnSet(SizeOf, ToSet(cache)) \in Int
         /\ IsFiniteSet(ToSet(cache))
         /\ \A n \in 0..Len(cache) :
              /\ SumFunctionOnSet(sizes, 1..n) \in Int
              /\ SumFunctionOnSet(SizeOf, ToSet(cache)) =
                   SumFunctionOnSet(sizes, 1..n) + SumFunctionOnSet(SizeOf, AreAt(cache, (n + 1)..Len(cache)))
<1>1. Len(cache) \in Nat /\ DOMAIN cache = 1..Len(cache)
  OBVIOUS
<1>2. \A i \in 1..Len(cache) : /\ cache[i] \in MmEntries /\ sizes[i] = SizeOf[cache[i]]
                               /\ sizes[i] \in Int
  <2> SUFFICES ASSUME NEW i \in 1..Len(cache)
               PROVE  cache[i] \in MmEntries /\ sizes[i] = SizeOf[cache[i]] /\ sizes[i] \in Int
    OBVIOUS
  <2>1. cache[i] \in MmEntries
    OBVIOUS
  <2>2. cache[i].kv \in Seq(Words)
    BY <2>1 DEF MmEntries
  <2>3. Len(cache[i].kv) \in Int
    BY <2>2
  <2>4. sizes[i] = Len(cache[i].kv)
    BY <1>1 DEF EntrySize
  <2>5. SizeOf[cache[i]] = Len(cache[i].kv)
    BY <2>1 DEF SizeOf
  <2> QED BY <2>1, <2>3, <2>4, <2>5
<1>3. \A i, j \in 1..Len(cache) : cache[i] = cache[j] => i = j
  BY <1>1 DEF IsInjective
<1>4. ASSUME NEW A \in SUBSET (1..Len(cache))
      PROVE  /\ IsFiniteSet(A) /\ SumFunctionOnSet(sizes, A) \in Int
             /\ SumFunctionOnSet(sizes, A) = SumFunctionOnSet(SizeOf, AreAt(cache, A))
  <2>1. IsFiniteSet(1..Len(cache))
    BY <1>1, Places
  <2>2. IsFiniteSet(A)
    BY <2>1, FS_Subset
  <2>3. \A x, y \in A : cache[x] = cache[y] => x = y
    BY <1>3
  <2>4. \A x \in A : sizes[x] \in Int /\ sizes[x] = SizeOf[cache[x]]
    BY <1>2
  <2>5. SumFunctionOnSet(sizes, A) \in Int
    BY <2>2, <2>4, SumTaken
  <2>6. SumFunctionOnSet(sizes, A) = SumFunctionOnSet(SizeOf, AreAt(cache, A))
    BY <2>2, <2>3, <2>4, SumMoved, ZenonT(30)
  <2> QED BY <2>2, <2>5, <2>6
<1>5. ToSet(cache) = AreAt(cache, 1..Len(cache))
  BY <1>1 DEF ToSet, AreAt
<1>6. SumFunction(sizes) = SumFunctionOnSet(sizes, 1..Len(cache))
  BY <1>1 DEF SumFunction
<1>7. /\ SumFunctionOnSet(sizes, 1..Len(cache)) = SumFunctionOnSet(SizeOf, ToSet(cache))
      /\ SumFunctionOnSet(sizes, 1..Len(cache)) \in Int
  BY <1>4, <1>5
<1>8. IsFiniteSet(ToSet(cache))
  BY QueueLength
<1>9. ASSUME NEW n \in 0..Len(cache)
      PROVE  /\ SumFunctionOnSet(sizes, 1..n) \in Int
             /\ SumFunctionOnSet(SizeOf, ToSet(cache)) =
                  SumFunctionOnSet(sizes, 1..n) + SumFunctionOnSet(SizeOf, AreAt(cache, (n + 1)..Len(cache)))
  <2> DEFINE A == 1..n
             B == (n + 1)..Len(cache)
  <2>1. /\ A \cup B = 1..Len(cache) /\ A \cap B = {} /\ A \in SUBSET (1..Len(cache))
        /\ B \in SUBSET (1..Len(cache)) /\ \A x \in A \cup B : sizes[x] \in Int
    BY <1>1, <1>2
  <2> HIDE DEF A, B
  <2>2. IsFiniteSet(A) /\ IsFiniteSet(B) /\ SumFunctionOnSet(sizes, A) \in Int
        /\ SumFunctionOnSet(sizes, B) = SumFunctionOnSet(SizeOf, AreAt(cache, B))
    BY <1>4, <2>1
  <2>3. SumFunctionOnSet(sizes, A \cup B) = SumFunctionOnSet(sizes, A) + SumFunctionOnSet(sizes, B)
    BY <2>1, <2>2, SumSplit
  <2>4. /\ SumFunctionOnSet(sizes, A) \in Int
        /\ SumFunctionOnSet(SizeOf, ToSet(cache)) =
             SumFunctionOnSet(sizes, A) + SumFunctionOnSet(SizeOf, AreAt(cache, B))
    BY <1>7, <2>1, <2>2, <2>3
  <2> QED BY <2>4 DEF A, B
<1> QED BY <1>6, <1>7, <1>8, <1>9

\* What the entries hold, when one comes, and when one takes the place of another.
LEMMA HeldChanges ==
  ASSUME NEW cache \in Seq(MmEntries), OneForAKey(cache), NEW new \in Seq(MmEntries),
         NEW e \in MmEntries, e \notin ToSet(cache), ToSet(new) = ToSet(cache) \cup {e}
  PROVE  HeldIn(new) = HeldIn(cache) + Len(e.kv) /\ HeldIn(cache) \in Int /\ Len(e.kv) \in Nat
<1>1. IsFiniteSet(ToSet(cache)) /\ ToSet(cache) \subseteq MmEntries
  <2>1. IsFiniteSet(ToSet(cache))
    BY QueueLength DEF OneForAKey
  <2> QED BY <2>1 DEF ToSet
<1>2. \A f \in MmEntries : SizeOf[f] = Len(f.kv) /\ Len(f.kv) \in Nat
  <2> SUFFICES ASSUME NEW f \in MmEntries PROVE SizeOf[f] = Len(f.kv) /\ Len(f.kv) \in Nat
    OBVIOUS
  <2>1. f.kv \in Seq(Words)
    BY DEF MmEntries
  <2>2. Len(f.kv) \in Nat
    BY <2>1
  <2> QED BY <2>2 DEF SizeOf
<1>3. IsFiniteSet(ToSet(new)) /\ ToSet(new) \subseteq MmEntries /\ e \in ToSet(new)
  <2>1. IsFiniteSet(ToSet(cache) \cup {e})
    BY <1>1, FS_AddElement
  <2> QED BY <1>1, <2>1
<1>4. \A f \in ToSet(new) : SizeOf[f] \in Int
  BY <1>2, <1>3
<1>5. SumFunctionOnSet(SizeOf, ToSet(new)) = SizeOf[e] + SumFunctionOnSet(SizeOf, ToSet(new) \ {e})
  BY <1>3, <1>4, SumTaken
<1>6. ToSet(new) \ {e} = ToSet(cache)
  OBVIOUS
<1>7. SumFunctionOnSet(SizeOf, ToSet(cache)) \in Int
  <2>1. \A f \in ToSet(cache) : SizeOf[f] \in Int
    BY <1>4
  <2> QED BY <1>1, <2>1, SumTaken
<1>8. SizeOf[e] = Len(e.kv) /\ Len(e.kv) \in Nat
  BY <1>2
<1>9. /\ HeldIn(new) = SumFunctionOnSet(SizeOf, ToSet(new))
      /\ HeldIn(cache) = SumFunctionOnSet(SizeOf, ToSet(cache))
      /\ SumFunctionOnSet(SizeOf, ToSet(new) \ {e}) = SumFunctionOnSet(SizeOf, ToSet(cache))
  BY <1>6 DEF HeldIn
<1>10. HeldIn(new) = SizeOf[e] + HeldIn(cache)
  BY <1>5, <1>9
<1>11. HeldIn(cache) \in Int
  BY <1>7, <1>9
<1> QED BY <1>8, <1>10, <1>11

\* What the places hold, for the cache as it is.
LEMMA HeldNow ==
  ASSUME mmCache \in Seq(MmEntries), OneForAKey(mmCache)
  PROVE  /\ SumFunction(Sizes) = HeldIn(mmCache) /\ HeldIn(mmCache) \in Int
         /\ \A n \in 0..Len(mmCache) :
              /\ SumFunctionOnSet(Sizes, 1..n) \in Int
              /\ \A left \in Seq(MmEntries) : ToSet(left) = AreAt(mmCache, (n + 1)..Len(mmCache)) =>
                   HeldIn(mmCache) = SumFunctionOnSet(Sizes, 1..n) + HeldIn(left)
<1>1. DOMAIN Sizes = DOMAIN mmCache /\ \A i \in DOMAIN mmCache : Sizes[i] = EntrySize(mmCache[i])
  BY DEF Sizes
<1>2. /\ SumFunction(Sizes) = SumFunctionOnSet(SizeOf, ToSet(mmCache))
      /\ SumFunctionOnSet(SizeOf, ToSet(mmCache)) \in Int
      /\ \A n \in 0..Len(mmCache) :
           /\ SumFunctionOnSet(Sizes, 1..n) \in Int
           /\ SumFunctionOnSet(SizeOf, ToSet(mmCache)) =
                SumFunctionOnSet(Sizes, 1..n) + SumFunctionOnSet(SizeOf, AreAt(mmCache, (n + 1)..Len(mmCache)))
  <2>1. IsInjective(mmCache)
    BY DEF OneForAKey
  <2> QED BY <1>1, <2>1, HeldByEntries
<1>3. ASSUME NEW n \in 0..Len(mmCache), NEW left \in Seq(MmEntries),
             ToSet(left) = AreAt(mmCache, (n + 1)..Len(mmCache))
      PROVE  HeldIn(mmCache) = SumFunctionOnSet(Sizes, 1..n) + HeldIn(left)
  <2>1. SumFunctionOnSet(SizeOf, AreAt(mmCache, (n + 1)..Len(mmCache))) = SumFunctionOnSet(SizeOf, ToSet(left))
    BY <1>3
  <2>2. SumFunctionOnSet(SizeOf, ToSet(mmCache)) =
          SumFunctionOnSet(Sizes, 1..n) + SumFunctionOnSet(SizeOf, AreAt(mmCache, (n + 1)..Len(mmCache)))
    BY <1>2
  <2> QED BY <2>1, <2>2 DEF HeldIn
<1> QED BY <1>2, <1>3 DEF HeldIn

\* _evict_by_memory and _evict_by_count: the fewest of the oldest that make room go.
LEMMA EvictsEnough ==
  ASSUME NEW size \in Nat, Len(mmCache) \in Nat, NEW n, n = EvictedCount(size)
  PROVE  /\ n \in 0..Len(mmCache)
         /\ \/ n = Len(mmCache)
            \/ /\ mmMemory - SumFunctionOnSet(Sizes, 1..n) + size <= MmBytes
               /\ Len(mmCache) - n < MmMax
<1> DEFINE enough(m) == \/ m = Len(mmCache)
                        \/ /\ mmMemory - SumFunctionOnSet(Sizes, 1..m) + size <= MmBytes
                           /\ Len(mmCache) - m < MmMax
           T == {m \in 0..Len(mmCache) : enough(m)}
<1>1. T \in SUBSET Nat /\ Len(mmCache) \in T
  OBVIOUS
<1>2. PICK m \in T : \A k \in T : m <= k
  <2> HIDE DEF T
  <2> QED BY <1>1, LeastNatural
<1>3. m \in 0..Len(mmCache) /\ enough(m) /\ \A k \in 0..(m - 1) : ~enough(k)
  <2>1. m \in 0..Len(mmCache) /\ enough(m) /\ m \in Nat
    BY <1>1, <1>2
  <2>2. ASSUME NEW k \in 0..(m - 1) PROVE ~enough(k)
    <3>1. k \in 0..Len(mmCache) /\ ~(m <= k)
      BY <2>1
    <3> HIDE DEF enough
    <3> QED BY <1>2, <3>1
  <2> QED BY <2>1, <2>2
<1>4. n = CHOOSE k \in 0..Len(mmCache) : enough(k) /\ \A j \in 0..(k - 1) : ~enough(j)
  BY DEF EvictedCount
<1> HIDE DEF enough
<1>5. n \in 0..Len(mmCache) /\ enough(n)
  BY <1>3, <1>4
<1> QED BY <1>5 DEF enough

\* What the entries of a class are made of.
LEMMA VisionEntries ==
  ASSUME NEW images \in ImageLists, NEW prompt \in VisionPrompts
  PROVE  /\ [images |-> images, prompt |-> prompt] \in PixelEntries
         /\ EntryKey([images |-> images, prompt |-> prompt]) = VisionKey(images, prompt)
         /\ \A kv \in Seq(Words) : /\ MmEntry(images, prompt, kv) \in MmEntries
                                    /\ MmEntry(images, prompt, kv).kv = kv
                                    /\ EntryKey(MmEntry(images, prompt, kv)) = VisionKey(images, prompt)
         /\ <<>> \in Seq(Words) /\ <<"prompt">> \in Seq(Words) /\ <<"prompt", "output">> \in Seq(Words)
<1>1. [images |-> images, prompt |-> prompt] \in PixelEntries
  BY DEF PixelEntries
<1>2. EntryKey([images |-> images, prompt |-> prompt]) = VisionKey(images, prompt)
  BY DEF EntryKey
<1>3. ASSUME NEW kv \in Seq(Words)
      PROVE  /\ MmEntry(images, prompt, kv) \in MmEntries
             /\ MmEntry(images, prompt, kv).kv = kv
             /\ EntryKey(MmEntry(images, prompt, kv)) = VisionKey(images, prompt)
  <2>1. MmEntry(images, prompt, kv) \in MmEntries
    BY DEF MmEntries, MmEntry
  <2>2. /\ MmEntry(images, prompt, kv).kv = kv
        /\ EntryKey(MmEntry(images, prompt, kv)) = VisionKey(images, prompt)
    BY DEF MmEntry, EntryKey
  <2> QED BY <2>1, <2>2
<1>4. "prompt" \in Words /\ "output" \in Words
  BY DEF Words
<1>5. <<>> \in Seq(Words) /\ <<"prompt">> \in Seq(Words) /\ <<"prompt", "output">> \in Seq(Words)
  BY <1>4
<1> QED BY <1>1, <1>2, <1>3, <1>5

\* store(): the entry is counted, what went for it no longer.
LEMMA MmStoreStep ==
  ASSUME VisionInv, NEW e \in MmEntries, MmStore(e), EntryAt(mmCache, EntryKey(e)) = {}
  PROVE  /\ mmCache' \in Seq(MmEntries) /\ OneForAKey(mmCache)' /\ Len(mmCache') <= MmMax
         /\ mmMemory' \in Int /\ mmMemory' <= HeldIn(mmCache')
         /\ mmGrows = 0 => mmMemory' = HeldIn(mmCache') /\ (mmMemory' <= MmBytes \/ Len(mmCache') = 1)
<1>1. /\ mmCache \in Seq(MmEntries) /\ OneForAKey(mmCache) /\ Len(mmCache) <= MmMax /\ mmMemory \in Int
      /\ Len(mmCache) \in Nat
  <2>1. mmCache \in Seq(MmEntries) /\ OneForAKey(mmCache) /\ Len(mmCache) <= MmMax /\ mmMemory \in Int
    BY DEF VisionInv
  <2> QED BY <2>1
<1>2. Len(e.kv) \in Nat /\ MmMax \in Nat /\ MmMax # 0 /\ MmBytes \in Nat
  <2>1. e.kv \in Seq(Words)
    BY DEF MmEntries
  <2>2. Len(e.kv) \in Nat
    BY <2>1
  <2> QED BY <2>2, VisionAssumption
<1> DEFINE n == EvictedCount(Len(e.kv))
           left == LeftAfter(mmCache, n)
           gone == SumFunctionOnSet(Sizes, 1..n)
<1>3. mmCache' = Append(left, e) /\ mmMemory' = mmMemory + Len(e.kv) - gone
  BY DEF MmStore, EntrySize, MemoryAfter, LeftAfter
<1>4. /\ n \in 0..Len(mmCache)
      /\ n = Len(mmCache) \/ (mmMemory - gone + Len(e.kv) <= MmBytes /\ Len(mmCache) - n < MmMax)
  BY <1>1, <1>2, EvictsEnough
<1> HIDE DEF n
<1>5. /\ left \in Seq(MmEntries) /\ OneForAKey(left) /\ Len(left) = Len(mmCache) - n
      /\ ToSet(left) = AreAt(mmCache, (n + 1)..Len(mmCache)) /\ ToSet(left) \subseteq ToSet(mmCache)
  BY <1>1, <1>4, KeysLeft
<1> HIDE DEF left, gone
<1>6. gone \in Int /\ HeldIn(mmCache) = gone + HeldIn(left) /\ HeldIn(mmCache) \in Int
  BY <1>1, <1>4, <1>5, HeldNow DEF gone
<1>7. \A f \in ToSet(left) : EntryKey(f) # EntryKey(e)
  <2>1. \A f \in ToSet(mmCache) : EntryKey(f) # EntryKey(e)
    BY DEF EntryAt, ToSet
  <2> QED BY <1>5, <2>1
<1>8. /\ mmCache' \in Seq(MmEntries) /\ OneForAKey(Append(left, e)) /\ Len(mmCache') = Len(mmCache) - n + 1
      /\ ToSet(Append(left, e)) = ToSet(left) \cup {e} /\ e \notin ToSet(left)
  BY <1>3, <1>5, <1>7, KeyAdded
<1>9. HeldIn(Append(left, e)) = HeldIn(left) + Len(e.kv) /\ HeldIn(left) \in Int
  BY <1>3, <1>5, <1>8, HeldChanges
<1>10. OneForAKey(mmCache)'
  BY <1>3, <1>8 DEF OneForAKey, EntryKey, VisionKey, ImagesKey
<1>11. Len(mmCache') <= MmMax /\ (n = Len(mmCache) => Len(mmCache') = 1)
  BY <1>1, <1>2, <1>4, <1>8
<1>12. mmMemory' \in Int /\ mmMemory' - HeldIn(mmCache') = mmMemory - HeldIn(mmCache)
  BY <1>1, <1>2, <1>3, <1>6, <1>9, SMTT(30)
<1>13. mmMemory <= HeldIn(mmCache) /\ (mmGrows = 0 => mmMemory = HeldIn(mmCache))
  BY DEF VisionInv
<1>14. HeldIn(mmCache') \in Int
  BY <1>2, <1>3, <1>9
<1>15. mmMemory' <= HeldIn(mmCache') /\ (mmGrows = 0 => mmMemory' = HeldIn(mmCache'))
  BY <1>1, <1>6, <1>12, <1>13, <1>14
<1>16. mmMemory' <= MmBytes \/ Len(mmCache') = 1
  BY <1>1, <1>2, <1>3, <1>4, <1>6, <1>11
<1> QED BY <1>8, <1>10, <1>11, <1>12, <1>15, <1>16

HitOf(cache, key, used) == Append(WithoutKey(cache, key), used)

\* A hit: the entry goes to the end, as it is or longer.
LEMMA HitStep ==
  ASSUME NEW S, NEW cache \in Seq(S), OneForAKey(cache), NEW key, EntryAt(cache, key) # {},
         NEW used \in S, EntryKey(used) = key
  PROVE  /\ HitOf(cache, key, used) \in Seq(S) /\ OneForAKey(HitOf(cache, key, used))
         /\ Len(HitOf(cache, key, used)) = Len(cache)
         /\ ToSet(HitOf(cache, key, used)) = ToSet(WithoutKey(cache, key)) \cup {used}
         /\ used \notin ToSet(WithoutKey(cache, key))
<1> DEFINE u == WithoutKey(cache, key)
           t == HitOf(cache, key, used)
<1>1. /\ u \in Seq(S) /\ OneForAKey(u) /\ \A f \in ToSet(u) : EntryKey(f) # key
      /\ Len(u) = Len(cache) - 1 /\ Len(cache) \in Nat
  BY KeyFound
<1>2. t = Append(u, used)
  BY DEF HitOf
<1> HIDE DEF u, t
<1>3. /\ Append(u, used) \in Seq(S) /\ OneForAKey(Append(u, used))
      /\ ToSet(Append(u, used)) = ToSet(u) \cup {used} /\ used \notin ToSet(u)
      /\ Len(Append(u, used)) = Len(u) + 1
  BY <1>1, KeyAdded
<1>4. Len(t) = Len(cache)
  BY <1>1, <1>2, <1>3
<1> QED BY <1>2, <1>3, <1>4 DEF t, u

\* What the entries hold then.
LEMMA HitHeld ==
  ASSUME NEW cache \in Seq(MmEntries), OneForAKey(cache), NEW key, EntryAt(cache, key) # {},
         NEW used \in MmEntries, EntryKey(used) = key
  PROVE  /\ HeldIn(cache) \in Int /\ Len(used.kv) \in Nat /\ Len(FoundAt(cache, key).kv) \in Nat
         /\ HeldIn(HitOf(cache, key, used)) =
              HeldIn(cache) + Len(used.kv) - Len(FoundAt(cache, key).kv)
<1> DEFINE u == WithoutKey(cache, key)
           e == FoundAt(cache, key)
           t == HitOf(cache, key, used)
<1>1. /\ e \in MmEntries /\ u \in Seq(MmEntries) /\ OneForAKey(u) /\ ToSet(cache) = ToSet(u) \cup {e}
      /\ e \notin ToSet(u)
  BY KeyFound
<1>2. t \in Seq(MmEntries) /\ ToSet(t) = ToSet(u) \cup {used} /\ used \notin ToSet(u)
  BY HitStep
<1> HIDE DEF u, e, t
<1>3. HeldIn(cache) = HeldIn(u) + Len(e.kv) /\ HeldIn(u) \in Int /\ Len(e.kv) \in Nat
  BY <1>1, HeldChanges
<1>4. HeldIn(t) = HeldIn(u) + Len(used.kv) /\ Len(used.kv) \in Nat
  BY <1>1, <1>2, HeldChanges
<1>5. HeldIn(t) = HeldIn(cache) + Len(used.kv) - Len(e.kv) /\ HeldIn(cache) \in Int
  <2>1. \A h, m, n \in Int : h + m = (h + n) + m - n /\ h + n \in Int
    OBVIOUS
  <2>2. /\ HeldIn(u) \in Int /\ Len(e.kv) \in Int /\ Len(used.kv) \in Int
    BY <1>3, <1>4
  <2>3. /\ HeldIn(u) + Len(used.kv) = (HeldIn(u) + Len(e.kv)) + Len(used.kv) - Len(e.kv)
        /\ HeldIn(u) + Len(e.kv) \in Int
    BY <2>1, <2>2, ZenonT(30)
  <2> QED BY <1>3, <1>4, <2>3
<1> QED BY <1>3, <1>4, <1>5 DEF t, e

\* The invariant says what is wanted of the two caches.
LEMMA VisionInvSays == VisionInv => VisionAccounts /\ VisionMatches
<1> SUFFICES ASSUME VisionInv PROVE VisionAccounts /\ VisionMatches
  OBVIOUS
<1>1. /\ pixelCache \in Seq(PixelEntries) /\ OneForAKey(pixelCache) /\ Len(pixelCache) <= PixelMax
      /\ mmCache \in Seq(MmEntries) /\ OneForAKey(mmCache) /\ Len(mmCache) <= MmMax
  BY DEF VisionInv
<1>2. SumFunction(Sizes) = HeldIn(mmCache)
  BY <1>1, HeldNow
<1>3. VisionAccounts
  BY <1>1, <1>2 DEF VisionInv, VisionAccounts
<1>4. /\ \A i, j \in DOMAIN pixelCache : EntryKey(pixelCache[i]) = EntryKey(pixelCache[j]) => i = j
      /\ \A i, j \in DOMAIN mmCache : EntryKey(mmCache[i]) = EntryKey(mmCache[j]) => i = j
  BY <1>1, KeyPlaces
<1> QED BY <1>3, <1>4 DEF VisionInv, VisionMatches

\* The pixels of a request.
LEMMA PixelStep ==
  ASSUME VisionInv, NEW images \in ImageLists, NEW prompt \in VisionPrompts, PixelRequest(images, prompt)
  PROVE  VisionInv'
<1> DEFINE key == VisionKey(images, prompt)
           new == [images |-> images, prompt |-> prompt]
<1>1. /\ pixelCache \in Seq(PixelEntries) /\ OneForAKey(pixelCache) /\ Len(pixelCache) <= PixelMax
      /\ Len(pixelCache) \in Nat /\ PixelMax \in Nat /\ PixelMax # 0
  <2>1. pixelCache \in Seq(PixelEntries) /\ OneForAKey(pixelCache) /\ Len(pixelCache) <= PixelMax
    BY DEF VisionInv
  <2> QED BY <2>1, VisionAssumption
<1>2. new \in PixelEntries /\ EntryKey(new) = key
  BY VisionEntries
<1>3. UNCHANGED <<mmCache, mmMemory, mmGrows>>
  BY DEF PixelRequest
<1>4. ASSUME /\ pixelCache' \in Seq(PixelEntries) /\ OneForAKey(pixelCache') /\ Len(pixelCache') <= PixelMax,
             /\ visionUse'.given.prompt = visionUse'.asked.prompt
             /\ ToSet(visionUse'.given.images) = ToSet(visionUse'.asked.images)
      PROVE  VisionInv'
  BY <1>3, <1>4 DEF VisionInv, OneForAKey, HeldIn
<1>5. CASE EntryAt(pixelCache, key) # {}
  <2> DEFINE e == FoundAt(pixelCache, key)
  <2>1. /\ pixelCache' = HitOf(pixelCache, key, e)
        /\ visionUse' = [at |-> "pixels", asked |-> new, given |-> e]
    BY <1>5 DEF PixelRequest, FoundAt, HitOf
  <2>2. e \in PixelEntries /\ EntryKey(e) = key
    BY <1>1, <1>5, KeyFound
  <2>3. e.prompt = prompt /\ ToSet(e.images) = ToSet(images)
    <3> HIDE DEF e
    <3> QED BY <2>2, KeysTell
  <2>4. pixelCache' \in Seq(PixelEntries) /\ OneForAKey(pixelCache') /\ Len(pixelCache') <= PixelMax
    <3> HIDE DEF e, key
    <3>1. /\ HitOf(pixelCache, key, e) \in Seq(PixelEntries)
          /\ OneForAKey(HitOf(pixelCache, key, e))
          /\ Len(HitOf(pixelCache, key, e)) = Len(pixelCache)
      BY <1>1, <1>5, <2>2, HitStep
    <3> QED BY <1>1, <2>1, <3>1
  <2> HIDE DEF e
  <2> QED BY <1>4, <2>1, <2>3, <2>4
<1>6. CASE EntryAt(pixelCache, key) = {}
  <2> DEFINE room == IF Len(pixelCache) >= PixelMax THEN Tail(pixelCache) ELSE pixelCache
  <2>1. /\ pixelCache' = Append(room, new)
        /\ visionUse' = [at |-> "pixels", asked |-> new, given |-> new]
    BY <1>6 DEF PixelRequest
  <2>2. /\ room \in Seq(PixelEntries) /\ OneForAKey(room) /\ ToSet(room) \subseteq ToSet(pixelCache)
        /\ Len(room) < PixelMax
    <3>1. CASE Len(pixelCache) >= PixelMax
      <4>1. pixelCache # <<>>
        BY <1>1, <3>1
      <4>2. /\ Tail(pixelCache) \in Seq(PixelEntries) /\ ToSet(Tail(pixelCache)) \subseteq ToSet(pixelCache)
            /\ IsInjective(Tail(pixelCache))
        BY <1>1, <4>1, TailOfQueue DEF OneForAKey
      <4>3. Len(Tail(pixelCache)) = Len(pixelCache) - 1
        BY <1>1, <4>1
      <4>4. OneForAKey(Tail(pixelCache))
        BY <1>1, <4>2 DEF OneForAKey
      <4> QED BY <1>1, <3>1, <4>2, <4>3, <4>4
    <3>2. CASE ~(Len(pixelCache) >= PixelMax)
      BY <1>1, <3>2
    <3> QED BY <3>1, <3>2
  <2> HIDE DEF room
  <2>3. \A f \in ToSet(room) : EntryKey(f) # EntryKey(new)
    <3>1. \A f \in ToSet(pixelCache) : EntryKey(f) # key
      BY <1>6 DEF EntryAt, ToSet
    <3> QED BY <1>2, <2>2, <3>1
  <2>4. pixelCache' \in Seq(PixelEntries) /\ OneForAKey(pixelCache') /\ Len(pixelCache') <= PixelMax
    <3> HIDE DEF new
    <3>1. /\ Append(room, new) \in Seq(PixelEntries) /\ OneForAKey(Append(room, new))
          /\ Len(Append(room, new)) = Len(room) + 1 /\ Len(room) \in Nat
      BY <1>2, <2>2, <2>3, KeyAdded
    <3> QED BY <1>1, <2>1, <2>2, <3>1
  <2> QED BY <1>4, <2>1, <2>4
<1> QED BY <1>5, <1>6

\* What the keys and values of a request were made for.
LEMMA MmStep ==
  ASSUME VisionInv, NEW images \in ImageLists, NEW prompt \in VisionPrompts,
         MmGenerate(images, prompt) \/ MmChat(images, prompt)
  PROVE  VisionInv'
<1> DEFINE key == VisionKey(images, prompt)
           new == [images |-> images, prompt |-> prompt]
           fresh == MmEntry(images, prompt, <<>>)
           e == FoundAt(mmCache, key)
           longer == [e EXCEPT !.kv = @ \o <<"prompt", "output">>]
<1>1. /\ mmCache \in Seq(MmEntries) /\ OneForAKey(mmCache) /\ Len(mmCache) <= MmMax
      /\ mmMemory \in Int /\ mmGrows \in Nat /\ mmMemory <= HeldIn(mmCache)
      /\ mmGrows = 0 => mmMemory = HeldIn(mmCache) /\ (mmMemory <= MmBytes \/ Len(mmCache) = 1)
  BY DEF VisionInv
<1>2. UNCHANGED pixelCache
  BY DEF MmGenerate, MmChat
<1>3. ASSUME /\ mmCache' \in Seq(MmEntries) /\ OneForAKey(mmCache') /\ Len(mmCache') <= MmMax
             /\ mmMemory' \in Int /\ mmGrows' \in Nat /\ mmMemory' <= HeldIn(mmCache')
             /\ mmGrows' = 0 => mmMemory' = HeldIn(mmCache') /\ (mmMemory' <= MmBytes \/ Len(mmCache') = 1),
             /\ visionUse'.given.prompt = visionUse'.asked.prompt
             /\ ToSet(visionUse'.given.images) = ToSet(visionUse'.asked.images)
      PROVE  VisionInv'
  BY <1>2, <1>3 DEF VisionInv, OneForAKey
<1>4. ASSUME visionUse' = [at |-> "kv", asked |-> new, given |-> fresh]
      PROVE  /\ visionUse'.given.prompt = visionUse'.asked.prompt
             /\ ToSet(visionUse'.given.images) = ToSet(visionUse'.asked.images)
  BY <1>4 DEF MmEntry
<1>5. CASE EntryAt(mmCache, key) # {}
  <2>1. e \in MmEntries /\ EntryKey(e) = key
    BY <1>1, <1>5, KeyFound
  <2>2. e.prompt = prompt /\ ToSet(e.images) = ToSet(images)
    <3> HIDE DEF e
    <3> QED BY <2>1, KeysTell
  <2>3. CASE MmGenerate(images, prompt)
    <3>1. /\ mmCache' = HitOf(mmCache, key, longer)
          /\ visionUse' = [at |-> "kv", asked |-> new, given |-> e]
          /\ mmGrows' = mmGrows + 1 /\ mmMemory' = mmMemory
      BY <1>5, <2>3 DEF MmGenerate, FoundAt, HitOf
    <3>2. longer \in MmEntries /\ EntryKey(longer) = key /\ Len(longer.kv) = Len(e.kv) + 2
      <4> HIDE DEF e
      <4>1. /\ e.kv \in Seq(Words) /\ e.images \in ImageLists /\ e.prompt \in VisionPrompts
            /\ e = [images |-> e.images, prompt |-> e.prompt, kv |-> e.kv]
        BY <2>1 DEF MmEntries
      <4>2. <<"prompt", "output">> \in Seq(Words) /\ Len(<<"prompt", "output">>) = 2
        BY VisionEntries
      <4>3. /\ e.kv \o <<"prompt", "output">> \in Seq(Words)
            /\ Len(e.kv \o <<"prompt", "output">>) = Len(e.kv) + 2
        BY <4>1, <4>2
      <4>4. /\ longer = [images |-> e.images, prompt |-> e.prompt, kv |-> e.kv \o <<"prompt", "output">>]
            /\ longer.images = e.images /\ longer.prompt = e.prompt
            /\ longer.kv = e.kv \o <<"prompt", "output">>
        <5>1. \A kv : [e EXCEPT !.kv = kv] = [images |-> e.images, prompt |-> e.prompt, kv |-> kv]
          BY <4>1
        <5>2. longer = [images |-> e.images, prompt |-> e.prompt, kv |-> e.kv \o <<"prompt", "output">>]
          BY <5>1
        <5> HIDE DEF longer
        <5> QED BY <5>2
      <4>5. longer \in MmEntries
        BY <4>1, <4>3, <4>4 DEF MmEntries
      <4>6. EntryKey(longer) = EntryKey(e)
        BY <4>4 DEF EntryKey
      <4> QED BY <2>1, <4>3, <4>4, <4>5, <4>6
    <3> HIDE DEF longer, e, key
    <3>3. /\ mmCache' \in Seq(MmEntries) /\ OneForAKey(mmCache') /\ Len(mmCache') = Len(mmCache)
          /\ HeldIn(mmCache) \in Int /\ Len(e.kv) \in Nat
          /\ HeldIn(mmCache') = HeldIn(mmCache) + Len(longer.kv) - Len(e.kv)
      <4>1. /\ HitOf(mmCache, key, longer) \in Seq(MmEntries) /\ OneForAKey(HitOf(mmCache, key, longer))
            /\ Len(HitOf(mmCache, key, longer)) = Len(mmCache)
        BY <1>1, <1>5, <3>2, HitStep
      <4>2. /\ HeldIn(mmCache) \in Int /\ Len(e.kv) \in Nat
            /\ HeldIn(HitOf(mmCache, key, longer)) = HeldIn(mmCache) + Len(longer.kv) - Len(e.kv)
        BY <1>1, <1>5, <3>2, HitHeld DEF e
      <4> QED BY <3>1, <4>1, <4>2
    <3>4. mmMemory' <= HeldIn(mmCache') /\ mmMemory' \in Int /\ mmGrows' \in Nat /\ mmGrows' # 0
      BY <1>1, <3>1, <3>2, <3>3
    <3>5. /\ visionUse'.given.prompt = visionUse'.asked.prompt
          /\ ToSet(visionUse'.given.images) = ToSet(visionUse'.asked.images)
      BY <2>2, <3>1
    <3> QED BY <1>1, <1>3, <3>3, <3>4, <3>5
  <2>4. CASE MmChat(images, prompt)
    <3>1. /\ mmCache' = HitOf(mmCache, key, e)
          /\ visionUse' = [at |-> "kv", asked |-> new, given |-> fresh]
          /\ mmGrows' = mmGrows /\ mmMemory' = mmMemory
      BY <1>5, <2>4 DEF MmChat, FoundAt, HitOf
    <3> HIDE DEF e, key, new, fresh
    <3>2. /\ mmCache' \in Seq(MmEntries) /\ OneForAKey(mmCache') /\ Len(mmCache') = Len(mmCache)
          /\ HeldIn(mmCache) \in Int /\ Len(e.kv) \in Nat
          /\ HeldIn(mmCache') = HeldIn(mmCache) + Len(e.kv) - Len(e.kv)
      <4>1. /\ HitOf(mmCache, key, e) \in Seq(MmEntries) /\ OneForAKey(HitOf(mmCache, key, e))
            /\ Len(HitOf(mmCache, key, e)) = Len(mmCache)
        BY <1>1, <1>5, <2>1, HitStep
      <4>2. /\ HeldIn(mmCache) \in Int /\ Len(e.kv) \in Nat
            /\ HeldIn(HitOf(mmCache, key, e)) = HeldIn(mmCache) + Len(e.kv) - Len(FoundAt(mmCache, key).kv)
        BY <1>1, <1>5, <2>1, HitHeld
      <4> QED BY <3>1, <4>1, <4>2 DEF e
    <3>3. HeldIn(mmCache') = HeldIn(mmCache)
      BY <3>2
    <3> QED BY <1>1, <1>3, <1>4, <3>1, <3>2, <3>3
  <2> QED BY <2>3, <2>4
<1>6. CASE EntryAt(mmCache, key) = {}
  <2>1. \E kv \in Seq(Words) : /\ MmStore(MmEntry(images, prompt, kv))
                               /\ visionUse' = [at |-> "kv", asked |-> new, given |-> fresh]
                               /\ mmGrows' = mmGrows
    <3>1. CASE MmGenerate(images, prompt)
      <4>1. /\ MmStore(MmEntry(images, prompt, <<"prompt", "output">>))
            /\ visionUse' = [at |-> "kv", asked |-> new, given |-> fresh] /\ mmGrows' = mmGrows
        BY <1>6, <3>1 DEF MmGenerate
      <4> HIDE DEF new, fresh
      <4> QED BY <4>1, VisionEntries
    <3>2. CASE MmChat(images, prompt)
      <4>1. /\ MmStore(MmEntry(images, prompt, <<"prompt">>))
            /\ visionUse' = [at |-> "kv", asked |-> new, given |-> fresh] /\ mmGrows' = mmGrows
        BY <1>6, <3>2 DEF MmChat
      <4> HIDE DEF new, fresh
      <4> QED BY <4>1, VisionEntries
    <3> QED BY <3>1, <3>2
  <2>2. PICK kv \in Seq(Words) : /\ MmStore(MmEntry(images, prompt, kv))
                                 /\ visionUse' = [at |-> "kv", asked |-> new, given |-> fresh]
                                 /\ mmGrows' = mmGrows
    BY <2>1
  <2> DEFINE f == MmEntry(images, prompt, kv)
  <2>3. f \in MmEntries /\ EntryKey(f) = key
    BY VisionEntries
  <2>4. MmStore(f) /\ EntryAt(mmCache, EntryKey(f)) = {}
    BY <1>6, <2>2, <2>3
  <2> HIDE DEF f, new, fresh
  <2>5. /\ mmCache' \in Seq(MmEntries) /\ OneForAKey(mmCache)' /\ Len(mmCache') <= MmMax
        /\ mmMemory' \in Int /\ mmMemory' <= HeldIn(mmCache')
        /\ mmGrows = 0 => mmMemory' = HeldIn(mmCache') /\ (mmMemory' <= MmBytes \/ Len(mmCache') = 1)
    BY <2>3, <2>4, MmStoreStep
  <2>6. OneForAKey(mmCache')
    BY <2>5 DEF OneForAKey
  <2> QED BY <1>1, <1>3, <1>4, <2>2, <2>5, <2>6
<1> QED BY <1>5, <1>6

\* Empty caches.
LEMMA VisionEmpty ==
  /\ <<>> \in Seq(PixelEntries) /\ <<>> \in Seq(MmEntries) /\ OneForAKey(<<>>) /\ Len(<<>>) = 0
  /\ HeldIn(<<>>) = 0 /\ PixelMax \in Nat /\ MmMax \in Nat /\ MmBytes \in Nat
<1>1. ToSet(<<>>) = {} /\ IsInjective(<<>>)
  BY DEF ToSet, IsInjective
<1>2. IsFiniteSet({})
  BY FS_EmptySet
<1>3. HeldIn(<<>>) = 0
  BY <1>1, <1>2, SumFirst DEF HeldIn
<1>4. OneForAKey(<<>>)
  BY <1>1 DEF OneForAKey
<1> QED BY <1>3, <1>4, VisionAssumption

\* The caches of images at the start.
LEMMA VisionInvInit == VisionInit => VisionInv
  BY VisionEmpty DEF VisionInit, VisionInv

\* The invariant of the two caches is kept.
LEMMA VisionInvStep == VisionInv /\ [VisionNext]_visionVars => VisionInv'
<1> SUFFICES ASSUME VisionInv, [VisionNext]_visionVars PROVE VisionInv'
  OBVIOUS
<1>1. ASSUME NEW images \in ImageLists, NEW prompt \in VisionPrompts, PixelRequest(images, prompt)
      PROVE  VisionInv'
  BY <1>1, PixelStep
<1>2. ASSUME NEW images \in ImageLists, NEW prompt \in VisionPrompts,
             MmGenerate(images, prompt) \/ MmChat(images, prompt)
      PROVE  VisionInv'
  BY <1>2, MmStep
<1>3. ASSUME VisionClear PROVE VisionInv'
  <2>1. pixelCache' = <<>> /\ mmCache' = <<>> /\ mmMemory' = 0 /\ mmGrows' = 0 /\ visionUse' = visionUse
    BY <1>3 DEF VisionClear
  <2>2. /\ visionUse.at # "none" => /\ visionUse.given.prompt = visionUse.asked.prompt
                                    /\ ToSet(visionUse.given.images) = ToSet(visionUse.asked.images)
    BY DEF VisionInv
  <2> QED BY <2>1, <2>2, VisionEmpty DEF VisionInv, OneForAKey, HeldIn
<1>4. ASSUME UNCHANGED visionVars PROVE VisionInv'
  BY <1>4 DEF visionVars, VisionInv, OneForAKey, HeldIn
<1> QED BY <1>1, <1>2, <1>3, <1>4 DEF VisionNext

\* What the three caches find was stored for what is asked and covers a beginning of
\* it, a key has one entry, queue and trie name the same sequences, and the memory that
\* is counted is what the entries hold.
THEOREM SmallCachesServe == SmallSpec => []SmallCachesSound
<1>1. TrieInit /\ VisionInit => TrieInv /\ VisionInv
  BY TrieInvInit, VisionInvInit
<1>2. TrieInv /\ VisionInv /\ [TrieNext]_trieVars /\ [VisionNext]_visionVars => TrieInv' /\ VisionInv'
  BY TrieInvStep, VisionInvStep
<1>3. TrieInv /\ VisionInv => SmallCachesSound
  BY VisionInvSays DEF TrieInv, SmallCachesSound
<1> QED BY <1>1, <1>2, <1>3, PTL DEF SmallSpec, TrieSpec, VisionSpec

================================================================================
