----------------------------- MODULE FreeQueueList -----------------------------
(***************************************************************************)
(* FreeKVCacheBlockQueue (vllm_mlx/paged_cache.py) as it is: a doubly      *)
(* linked list through the blocks between two sentinels, and a count.      *)
(***************************************************************************)
EXTENDS Integers, Sequences, SequencesExt

CONSTANT ListSize   \* blocks 1..ListSize

ASSUME ListAssumption == ListSize \in Nat \ {0}

VARIABLES
  nextOf, prevOf,   \* next_free_block, prev_free_block
  freeCount         \* num_free_blocks

listVars == <<nextOf, prevOf, freeCount>>

ListBlocks == 1..ListSize
FakeHead == 0
FakeTail == ListSize + 1
NoBlock == -1
ListCells == {FakeHead, FakeTail} \cup ListBlocks

ListInit ==
  /\ nextOf = [c \in ListCells |-> IF c = FakeTail THEN NoBlock ELSE c + 1]
  /\ prevOf = [c \in ListCells |-> IF c = FakeHead THEN NoBlock ELSE c - 1]
  /\ freeCount = ListSize

\* The cells one meets from the front, by these links.
CellsAlong(links) ==
  LET along[i \in 0..ListSize] ==
        IF i = 0 THEN FakeHead
        ELSE IF along[i - 1] = NoBlock THEN NoBlock ELSE links[along[i - 1]]
  IN along
Along == CellsAlong(nextOf)

\* The blocks that get_all_free_blocks gives when the count is right.
ListedBlocks == [i \in 1..freeCount |-> Along[i]]

\* Mutant: the block after the ones that are taken still points back at them.
FrontLinked_Not(taken, first) ==
  [c \in ListCells |-> IF c \in taken THEN NoBlock ELSE prevOf[c]]

FrontLinked(taken, first) ==
  [c \in ListCells |-> IF c \in taken THEN NoBlock
                       ELSE IF c = first THEN FakeHead ELSE prevOf[c]]

\* popleft is popleft_n(1).
PopLeft(n) ==
  /\ n \in 1..freeCount
  /\ LET taken == {Along[i] : i \in 1..n}
         last == Along[n] IN
     /\ nextOf' = [c \in ListCells |-> IF c \in taken THEN NoBlock
                                       ELSE IF c = FakeHead THEN nextOf[last] ELSE nextOf[c]]
     /\ prevOf' = FrontLinked(taken, nextOf[last])
  /\ freeCount' = freeCount - n

\* remove: of a block in the middle, which knows its neighbours.
RemoveBlock(b) ==
  /\ prevOf[b] # NoBlock /\ nextOf[b] # NoBlock
  /\ nextOf' = [nextOf EXCEPT ![prevOf[b]] = nextOf[b], ![b] = NoBlock]
  /\ prevOf' = [prevOf EXCEPT ![nextOf[b]] = prevOf[b], ![b] = NoBlock]
  /\ freeCount' = freeCount - 1

\* append is append_n of one block.
AppendBlocks(bs) ==
  /\ bs # <<>>
  /\ LET last == prevOf[FakeTail]
         row == <<last>> \o bs \o <<FakeTail>>
         place(c) == CHOOSE i \in DOMAIN row : row[i] = c IN
     /\ nextOf' = [c \in ListCells |-> IF c \in {last} \cup ToSet(bs)
                                       THEN row[place(c) + 1] ELSE nextOf[c]]
     /\ prevOf' = [c \in ListCells |-> IF c \in {FakeTail} \cup ToSet(bs)
                                       THEN row[place(c) - 1] ELSE prevOf[c]]
  /\ freeCount' = freeCount + Len(bs)

\* Callers give back what they took, each block once.
TakenBlocks == {b \in ListBlocks : nextOf[b] = NoBlock}

ListNext ==
  \/ \E n \in 1..ListSize : PopLeft(n)
  \/ \E b \in ListBlocks : RemoveBlock(b)
  \/ \E bs \in {t \in UNION {[1..n -> TakenBlocks] : n \in 1..2} : IsInjective(t)} :
       AppendBlocks(bs)

ListSpec == ListInit /\ [][ListNext]_listVars

--------------------------------------------------------------------------------
BQ == INSTANCE BlockQueue WITH QueueSize <- ListSize, queue <- ListedBlocks

\* The list is a queue: whatever is popped, appended and taken out of its middle,
\* it has the blocks that are free in the order in which they were freed, and
\* num_free_blocks of them.
ListIsQueue == BQ!QueueSpec

================================================================================
