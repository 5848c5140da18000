--------------------------- MODULE MemManagerProofs ---------------------------
(***************************************************************************)
(* Weights are safe from the reuse of memory, for every alignment, every   *)
(* capacity and every number and size of tensors.                          *)
(***************************************************************************)
EXTENDS MemManager, TLAPS

(* A block that may be handed out: below the end of the range and clear of *)
(* every weight.                                                           *)
Clear(b, top, weights, blocks) ==
    /\ b \in Blocks
    /\ End(b) <= top
    /\ \A r \in weights : Disjoint(b, blocks[r])
Good(b) == Clear(b, current, residents, pool)

(* Every place a block can come from holds good blocks only: the free set, *)
(* the heap and the collect loop, the workspace that reclaim_memory will   *)
(* push, the pending blocks, and the pool, whose sizes aquire_memory uses. *)
GoodBlocks ==
    /\ \A b \in freeSet \union BagToSet(heap) \union last : Good(b)
    /\ \A o \in DOMAIN temp : Good(Block(o, temp[o]))
    /\ \A o \in DOMAIN pending : Good(Block(o, pending[o].size))
    /\ \A o \in DOMAIN pool : o \in residents \/ (Good(pool[o]) /\ Good(Block(o, pool[o].size)))

GoodTensors ==
    \A id \in DOMAIN tensors :
        IF tensors[id].type = "RESIDENT" THEN tensors[id].off \in residents
                                              /\ End(TensorBlock(id)) <= current
        ELSE Good(TensorBlock(id))

(* Where the weights are, and what the pool knows about them.              *)
Weights ==
    /\ \A r \in residents :
         /\ r \in DOMAIN pool /\ pool[r].off = r /\ pool[r].size > 0
         /\ End(pool[r]) <= current
    /\ \A q, r \in residents : q # r => Disjoint(pool[q], pool[r])
    /\ \A o \in DOMAIN pool : o < current

(* The allocation in the collect loop is not a weight's.                   *)
CallKind ==
    \A a \in call : a.type # "RESIDENT"

IInv ==
    /\ TypeOK
    /\ GoodBlocks
    /\ GoodTensors
    /\ Weights
    /\ CallKind

USE SizesAssumption, SeedAssumption, AlignmentAssumption, BoundsAssumption, CapacityAssumption
USE DEF TensorRecords, Stages
-----------------------------------------------------------------------------
LEMMA SizesArePositive == \A z \in Sizes : z \in Nat /\ z > 0
  OBVIOUS

(* Rounding up neither shrinks a size nor makes it more than Alignment - 1 *)
(* larger.                                                                 *)
LEMMA AlignUpBounds ==
    ASSUME NEW n \in Nat
    PROVE  AlignUp(n) \in Nat /\ AlignUp(n) >= n
<1> DEFINE q == (n + Alignment - 1) \div Alignment
<1>1. q \in Nat
  OBVIOUS
<1>2. q * Alignment \in Nat
  BY <1>1
<1>3. (n + Alignment - 1) = q * Alignment + ((n + Alignment - 1) % Alignment)
  BY SMTT(60)
<1>4. (n + Alignment - 1) % Alignment \in 0 .. Alignment - 1
  OBVIOUS
<1> QED
  BY <1>2, <1>3, <1>4 DEF AlignUp

-----------------------------------------------------------------------------
(* What the two operations on the heap do to the set of its blocks.        *)
LEMMA PushBlocks ==
    ASSUME NEW S, IsABag(heap), Push(S)
    PROVE  IsABag(heap') /\ BagToSet(heap') = BagToSet(heap) \union S
  BY DEF Push, IsABag, BagToSet, SetToBag, (+)

LEMMA PopBlock ==
    ASSUME NEW b, IsABag(heap), heap' = heap (-) SetToBag({b})
    PROVE  IsABag(heap') /\ BagToSet(heap') \subseteq BagToSet(heap)
  BY DEF IsABag, BagToSet, SetToBag, (-)

(* A good block stays good while the weights stay where they are and the   *)
(* range does not shrink.                                                  *)
LEMMA GoodStays ==
    ASSUME NEW b, Good(b), current \in Int, current' \in Int, current' >= current,
           residents' = residents, \A r \in residents : pool'[r] = pool[r]
    PROVE  Good(b)'
  BY DEF Good, Clear, Blocks, Offsets, End, Disjoint

(* Two good blocks that touch make a good one. *)
LEMMA GoodMerge ==
    ASSUME IInv, NEW a, NEW b, Good(a), Good(b), End(a) = b.off
    PROVE  Good(Block(a.off, End(b) - a.off))
<1>1. a.off \in Nat /\ a.size \in Nat /\ b.off \in Nat /\ b.size \in Nat
  BY DEF Good, Clear, Blocks, Offsets
<1>2. current \in Nat /\ current <= Capacity
  BY DEF IInv, TypeOK, Offsets
<1> DEFINE c == Block(a.off, End(b) - a.off)
<1>3. c \in Blocks /\ End(c) = End(b) /\ c.off = a.off
  BY <1>1, <1>2 DEF Block, Blocks, Offsets, End, Good, Clear
<1>4. ASSUME NEW r \in residents PROVE Disjoint(c, pool[r])
  <2>1. pool[r].off \in Nat /\ pool[r].size \in Nat /\ pool[r].size > 0
    BY DEF IInv, TypeOK, Weights, Blocks, Offsets
  <2>2. Disjoint(a, pool[r]) /\ Disjoint(b, pool[r])
    BY DEF Good, Clear
  <2> QED
    BY <1>1, <1>3, <2>1, <2>2 DEF Disjoint, End
<1> QED
  BY <1>3, <1>4 DEF Good, Clear

(* A part of a good block is good. *)
LEMMA GoodPart ==
    ASSUME IInv, NEW b, Good(b), NEW o \in Int, NEW n \in Int,
           b.off <= o, 0 <= n, o + n <= End(b)
    PROVE  Good(Block(o, n))
<1>1. b.off \in Nat /\ b.size \in Nat
  BY DEF Good, Clear, Blocks, Offsets
<1>2. current \in Nat /\ current <= Capacity
  BY DEF IInv, TypeOK, Offsets
<1>3. Block(o, n) \in Blocks /\ End(Block(o, n)) <= current
  BY <1>1, <1>2 DEF Block, Blocks, Offsets, End, Good, Clear
<1>4. ASSUME NEW r \in residents PROVE Disjoint(Block(o, n), pool[r])
  <2>1. pool[r].off \in Nat /\ pool[r].size \in Nat
    BY DEF IInv, TypeOK, Weights, Blocks, Offsets
  <2>2. Disjoint(b, pool[r])
    BY DEF Good, Clear
  <2> QED
    BY <1>1, <2>1, <2>2 DEF Disjoint, End, Block
<1> QED
  BY <1>3, <1>4 DEF Good, Clear

(* What collect puts in the free set is good. *)
LEMMA PutFreeGood ==
    ASSUME IInv, NEW b, Good(b), PutFree(b)
    PROVE  \A c \in freeSet' : Good(c)
<1> DEFINE below == Below(freeSet, b)
           above == Above(freeSet, b)
<1>1. PICK lo \in IF below = {} THEN {b} ELSE below,
           hi \in IF above = {} THEN {b} ELSE above :
        freeSet' = InsertFree(freeSet \ (below \union above), Block(lo.off, End(hi) - lo.off))
  BY DEF PutFree
<1>2. \A c \in freeSet : Good(c)
  BY DEF IInv, GoodBlocks
<1>3. b.off \in Nat /\ b.size \in Nat
  BY DEF Good, Clear, Blocks, Offsets
<1>4. Good(Block(lo.off, End(b) - lo.off)) /\ lo.off \in Nat /\ lo.off <= b.off
  <2>1. CASE below = {}
    <3>1. lo = b /\ Block(b.off, End(b) - b.off) = Block(b.off, b.size)
      BY <2>1, <1>3 DEF End, Block
    <3>2. b.off + b.size <= End(b)
      BY <1>3 DEF End
    <3>3. Good(Block(b.off, b.size))
      BY <3>2, <1>3, GoodPart
    <3> QED
      BY <3>1, <3>3, <1>3
  <2>2. CASE below # {}
    <3>1. lo \in freeSet /\ End(lo) = b.off
      BY <2>2 DEF Below
    <3>2. Good(lo) /\ lo.off \in Nat /\ lo.size \in Nat
      BY <3>1, <1>2 DEF Good, Clear, Blocks, Offsets
    <3> QED
      BY <3>1, <3>2, <1>3, GoodMerge DEF End
  <2> QED
    BY <2>1, <2>2
<1> DEFINE m == Block(lo.off, End(b) - lo.off)
<1>5. Good(Block(lo.off, End(hi) - lo.off))
  <2>1. CASE above = {}
    BY <2>1, <1>4
  <2>2. CASE above # {}
    <3>1. hi \in freeSet /\ hi.off = End(b) /\ Good(hi)
      BY <2>2, <1>2 DEF Above
    <3>2. End(m) = hi.off /\ m.off = lo.off
      BY <3>1, <1>3, <1>4 DEF End, Block
    <3>3. Good(Block(m.off, End(hi) - m.off))
      BY <1>4, <3>1, <3>2, GoodMerge
    <3> QED
      BY <3>2, <3>3
  <2> QED
    BY <2>1, <2>2
<1> QED
  BY <1>1, <1>2, <1>5 DEF InsertFree

-----------------------------------------------------------------------------
LEMMA InitIInv == Init => IInv
<1> SUFFICES ASSUME Init PROVE IInv
  OBVIOUS
<1> DEFINE n == AlignUp(SeedBytes)
           seed == Block(0, n)
<1>1. n \in Nat /\ n > 0 /\ n <= Capacity
  BY AlignUpBounds
<1>2. seed \in Blocks /\ seed.size = n /\ seed.off = 0 /\ End(seed) = n /\ Block(0, seed.size) = seed
  BY <1>1 DEF Blocks, Block, Offsets, End
<1> HIDE DEF n
<1>3. /\ current = n
      /\ DOMAIN temp = {0} /\ temp[0] = n
      /\ DOMAIN pool = {0} /\ pool[0] = seed
      /\ IsABag(heap) /\ BagToSet(heap) = {seed}
      /\ residents = {} /\ kvOffsets = {} /\ freeSet = {} /\ call = {} /\ last = {}
      /\ DOMAIN pending = {} /\ DOMAIN tensors = {}
      /\ phase = "build" /\ calls = 0
  BY <1>2 DEF Init, n, BagToSet, SetToBag, IsABag
<1>4. Good(seed)
  BY <1>1, <1>2, <1>3 DEF Good, Clear
<1>5. TypeOK
  BY <1>1, <1>2, <1>3 DEF TypeOK, Offsets
<1>6. GoodBlocks
  BY <1>2, <1>3, <1>4 DEF GoodBlocks
<1> QED
  BY <1>1, <1>3, <1>5, <1>6 DEF IInv, GoodTensors, Weights, CallKind

(* Steps after which the weights are where they were: it is enough to look *)
(* at the blocks that are new in a list.                                   *)
LEMMA SameWeights ==
    ASSUME IInv, TypeOK', current' >= current, residents' = residents,
           \A o \in DOMAIN pool : o \in DOMAIN pool' /\ pool'[o] = pool[o]
    PROVE  /\ \A b : Good(b) => Good(b)'
           /\ \A q, r \in residents' : q # r => Disjoint(pool[q], pool[r])'
           /\ \A r \in residents' :
                /\ r \in DOMAIN pool' /\ pool'[r].off = r /\ pool'[r].size > 0
                /\ End(pool'[r]) <= current'
<1>1. current \in Nat /\ current' \in Nat
  BY DEF IInv, TypeOK, Offsets
<1>2. \A r \in residents : r \in DOMAIN pool /\ pool'[r] = pool[r]
  BY DEF IInv, Weights
<1>3. ASSUME NEW b, Good(b) PROVE Good(b)'
  BY <1>1, <1>2, <1>3, GoodStays
<1>4. \A r \in residents : pool[r].off \in Nat /\ pool[r].size \in Nat
  BY DEF IInv, TypeOK, Weights, Blocks, Offsets
<1>5. \A q, r \in residents : q # r => Disjoint(pool'[q], pool'[r])
  BY <1>2 DEF IInv, Weights
<1> QED
  BY <1>1, <1>2, <1>3, <1>4, <1>5 DEF IInv, Weights, End, Disjoint

-----------------------------------------------------------------------------
(* A weight is placed at the end of the range, above every block.          *)
LEMMA AllocateResidentStep ==
    ASSUME IInv, NEW id \in Ids, NEW size \in Sizes, AllocateResident(id, size)
    PROVE  IInv'
<1> DEFINE n == AlignUp(size)
<1>1. n \in Nat /\ n >= size /\ size \in Nat /\ size > 0
  <2>1. size \in Nat /\ size > 0
    OBVIOUS
  <2> QED
    BY <2>1, AlignUpBounds
<1> HIDE DEF n
<1>2. /\ current \in Nat /\ current' = current + n /\ current' \in Offsets
      /\ current \in Offsets /\ n \in Offsets
  BY <1>1 DEF AllocateResident, IInv, TypeOK, Offsets, n
<1>3. /\ DOMAIN pool' = DOMAIN pool \union {current}
      /\ current \notin DOMAIN pool
      /\ \A o \in DOMAIN pool : pool'[o] = pool[o]
      /\ pool'[current] = Block(current, n)
  <2>1. pool' = InsertNew(pool, current, Block(current, n)) /\ current \notin DOMAIN pool
    BY <1>2 DEF AllocateResident, IInv, Weights, n
  <2> QED
    BY <2>1 DEF InsertNew
<1>4. Block(current, n) \in Blocks /\ Block(current, n).off = current
      /\ Block(current, n).size = n /\ End(Block(current, n)) = current'
  BY <1>2 DEF Block, Blocks, End
<1>5. \A r \in residents : r \in DOMAIN pool /\ pool[r] \in Blocks
  BY DEF IInv, Weights, TypeOK
<1>6. residents' = residents \union {current}
  BY DEF AllocateResident
<1>7. ASSUME NEW b, Good(b) PROVE Good(b)'
  <2>1. b \in Blocks /\ End(b) <= current /\ End(b) \in Int
    BY <1>7 DEF Good, Clear, Blocks, Offsets, End
  <2>2. \A r \in residents' : Disjoint(b, pool'[r])
    BY <1>3, <1>4, <1>5, <1>6, <1>7, <2>1 DEF Good, Clear, Disjoint
  <2> QED
    BY <1>1, <1>2, <2>1, <2>2 DEF Good, Clear, Disjoint, End, Blocks, Offsets
<1>8. /\ DOMAIN tensors' = DOMAIN tensors \union {id} /\ id \notin DOMAIN tensors
      /\ \A x \in DOMAIN tensors : tensors'[x] = tensors[x]
      /\ tensors'[id] = [off |-> current, size |-> size, type |-> "RESIDENT",
                         stage |-> "ready", uses |-> 0, due |-> 0]
  BY DEF AllocateResident, NewTensor, InsertNew
<1>9. TypeOK'
  <2>1. /\ UNCHANGED <<kvOffsets, temp, heap, freeSet, pending, call, last, phase>>
        /\ calls' \in 0 .. MaxCalls
    BY DEF AllocateResident, IInv, TypeOK
  <2>2. DOMAIN pool' \subseteq Offsets /\ \A o \in DOMAIN pool' : pool'[o] \in Blocks
    BY <1>2, <1>3, <1>4 DEF IInv, TypeOK
  <2>3. DOMAIN tensors' \subseteq Ids
        /\ \A x \in DOMAIN tensors' :
             tensors'[x] \in TensorRecords
    <3>1. 0 \in 0 .. MaxUses
      OBVIOUS
    <3> QED
      BY <1>2, <1>8, <3>1 DEF IInv, TypeOK, Types
  <2> QED
    BY <1>2, <1>6, <2>1, <2>2, <2>3 DEF IInv, TypeOK, Blocks, Offsets
<1>10. GoodBlocks'
  <2>1. UNCHANGED <<temp, heap, freeSet, pending, last>>
    BY DEF AllocateResident
  <2>2. \A o \in DOMAIN pool' : o \in residents'
          \/ (Good(pool[o])' /\ Good(Block(o, pool[o].size))')
    BY <1>3, <1>6, <1>7 DEF IInv, GoodBlocks, Good
  <2>3. \A o \in DOMAIN temp' : Good(Block(o, temp[o]))'
    BY <1>7, <2>1 DEF IInv, GoodBlocks, Good, Block
  <2>4. \A o \in DOMAIN pending' : Good(Block(o, pending[o].size))'
    BY <1>7, <2>1 DEF IInv, GoodBlocks, Good, Block
  <2>5. \A b \in (freeSet \union BagToSet(heap) \union last)' : Good(b)'
    BY <1>7, <2>1 DEF IInv, GoodBlocks, Good
  <2> QED
    BY <2>2, <2>3, <2>4, <2>5 DEF GoodBlocks, Good
<1>11. GoodTensors'
  <2>1. \A x \in DOMAIN tensors : TensorBlock(x)' = TensorBlock(x)
    BY <1>8 DEF TensorBlock, Block
  <2>2. TensorBlock(id)' = Block(current, size)
    BY <1>8 DEF TensorBlock, Block
  <2>3. End(Block(current, size)) <= current'
    BY <1>1, <1>2 DEF End, Block
  <2>4. ASSUME NEW x \in DOMAIN tensors PROVE End(TensorBlock(x)) \in Int
    <3>1. tensors[x].off \in Offsets /\ tensors[x].size \in Nat
      BY DEF IInv, TypeOK
    <3> QED
      BY <3>1 DEF TensorBlock, Block, End, Offsets
  <2>5. ASSUME NEW x \in DOMAIN tensors
        PROVE  IF tensors'[x].type = "RESIDENT"
               THEN tensors'[x].off \in residents' /\ End(TensorBlock(x)') <= current'
               ELSE Good(TensorBlock(x))'
    <3>1. tensors'[x] = tensors[x]
      BY <1>8
    <3>2. CASE tensors[x].type = "RESIDENT"
      <4>1. tensors[x].off \in residents /\ End(TensorBlock(x)) <= current
        BY <3>2 DEF IInv, GoodTensors
      <4>2. End(TensorBlock(x)') <= current'
        BY <1>1, <1>2, <2>1, <2>4, <4>1 DEF Offsets
      <4> QED
        BY <1>6, <3>1, <3>2, <4>1, <4>2
    <3>3. CASE tensors[x].type # "RESIDENT"
      BY <1>7, <2>1, <3>1, <3>3 DEF IInv, GoodTensors, Good
    <3> QED
      BY <3>2, <3>3
  <2>6. tensors'[id].off \in residents' /\ End(TensorBlock(id)') <= current'
    BY <1>6, <1>8, <2>2, <2>3
  <2> QED
    BY <1>8, <2>5, <2>6 DEF GoodTensors, End, Good
<1>12. Weights'
  <2>1. \A r \in residents :
          pool[r].off \in Nat /\ pool[r].size \in Nat /\ End(pool[r]) <= current
    BY <1>5 DEF IInv, Weights, Blocks, Offsets
  <2>2. \A q, r \in residents' : q # r => Disjoint(pool'[q], pool'[r])
    BY <1>2, <1>3, <1>4, <1>5, <1>6, <2>1 DEF IInv, Weights, Disjoint
  <2>3. \A r \in residents' :
         /\ r \in DOMAIN pool' /\ pool'[r].off = r /\ pool'[r].size > 0
         /\ End(pool'[r]) <= current'
    BY <1>1, <1>2, <1>3, <1>4, <1>5, <1>6, <2>1 DEF IInv, Weights, End
  <2>4. \A o \in DOMAIN pool' : o < current'
    BY <1>1, <1>2, <1>3 DEF IInv, Weights, TypeOK, Offsets
  <2> QED
    BY <2>2, <2>3, <2>4 DEF Weights, Disjoint, End
<1>13. CallKind'
  BY DEF AllocateResident, Idle, CallKind
<1> QED
  BY <1>9, <1>10, <1>11, <1>12, <1>13 DEF IInv

-----------------------------------------------------------------------------
(* A step that leaves the range, the weights and the pool's entries as they *)
(* are keeps the invariant when all blocks it leaves behind are good.      *)
LEMMA QuietStep ==
    ASSUME IInv, TypeOK', current' = current, residents' = residents,
           \A o \in DOMAIN pool : o \in DOMAIN pool' /\ pool'[o] = pool[o],
           \A b \in freeSet' \union BagToSet(heap') \union last' : Good(b),
           \A o \in DOMAIN temp' : Good(Block(o, temp'[o])),
           \A o \in DOMAIN pending' : Good(Block(o, pending'[o].size)),
           \A o \in DOMAIN pool' :
              /\ o < current
              /\ o \in residents \/ (Good(pool'[o]) /\ Good(Block(o, pool'[o].size))),
           \A id \in DOMAIN tensors' :
              LET block == Block(tensors'[id].off, tensors'[id].size) IN
              IF tensors'[id].type = "RESIDENT"
              THEN tensors'[id].off \in residents /\ End(block) <= current
              ELSE Good(block),
           CallKind'
    PROVE  IInv'
<1>1. current \in Nat
  BY DEF IInv, TypeOK, Offsets
<1>2. \A b : Good(b) => Clear(b, current', residents', pool')
  BY <1>1, SameWeights DEF Good
<1>3. Weights'
  BY <1>1, SameWeights DEF Weights
<1>4. GoodBlocks'
  BY <1>2 DEF GoodBlocks, Good
<1>5. GoodTensors'
  BY <1>2 DEF GoodTensors, Good, TensorBlock
<1> QED
  BY <1>3, <1>4, <1>5 DEF IInv

(* Tensors that are dropped, or change their stage or their uses only.     *)
LEMMA TensorsStay ==
    ASSUME IInv, DOMAIN tensors' \subseteq DOMAIN tensors,
           \A id \in DOMAIN tensors' :
              /\ tensors'[id].off = tensors[id].off
              /\ tensors'[id].size = tensors[id].size
              /\ tensors'[id].type = tensors[id].type
    PROVE  \A id \in DOMAIN tensors' :
              LET block == Block(tensors'[id].off, tensors'[id].size) IN
              IF tensors'[id].type = "RESIDENT"
              THEN tensors'[id].off \in residents /\ End(block) <= current
              ELSE Good(block)
  BY DEF IInv, GoodTensors, TensorBlock

(* An invariant of the pool alone, for the steps that leave it unchanged.  *)
LEMMA PoolStays ==
    ASSUME IInv, pool' = pool
    PROVE  /\ \A o \in DOMAIN pool : o \in DOMAIN pool' /\ pool'[o] = pool[o]
           /\ \A o \in DOMAIN pool' :
                /\ o < current
                /\ o \in residents \/ (Good(pool'[o]) /\ Good(Block(o, pool'[o].size)))
  BY DEF IInv, GoodBlocks, Weights

(* An allocation begins: it may push blocks that were pending.             *)
LEMMA AllocateBeginStep ==
    ASSUME IInv, NEW id \in Ids, NEW size \in Sizes, NEW type \in {"WORKSPACE", "KV_CACHE"},
           AllocateBegin(id, size, type)
    PROVE  IInv'
<1>1. /\ UNCHANGED <<current, residents, kvOffsets, temp, pool, freeSet, last, tensors, phase>>
      /\ calls' \in 0 .. MaxCalls
  BY DEF AllocateBegin, IInv, TypeOK
<1>2. call' = {[id |-> id, size |-> size, type |-> type]}
  BY DEF AllocateBegin
<1>3. \/ \E S \in SUBSET Reclaimable :
           /\ Push({Block(o, pending[o].size) : o \in S})
           /\ pending' = Erase(pending, S)
      \/ UNCHANGED <<heap, pending>>
  BY DEF AllocateBegin
<1>4. IsABag(heap') /\ \A b \in BagToSet(heap') : Good(b)
  <2>1. IsABag(heap)
    BY DEF IInv, TypeOK
  <2>2. ASSUME NEW S \in SUBSET Reclaimable, Push({Block(o, pending[o].size) : o \in S})
        PROVE  IsABag(heap') /\ \A b \in BagToSet(heap') : Good(b)
    <3>1. BagToSet(heap') = BagToSet(heap) \union {Block(o, pending[o].size) : o \in S}
          /\ IsABag(heap')
      BY <2>1, <2>2, PushBlocks
    <3>2. \A o \in S : Good(Block(o, pending[o].size))
      BY DEF IInv, GoodBlocks, Reclaimable
    <3> QED
      BY <3>1, <3>2 DEF IInv, GoodBlocks
  <2>3. CASE heap' = heap
    BY <2>1, <2>3 DEF IInv, GoodBlocks
  <2> QED
    BY <1>3, <2>2, <2>3
<1>5. /\ DOMAIN pending' \subseteq DOMAIN pending
      /\ \A o \in DOMAIN pending' : pending'[o] = pending[o]
  BY <1>3 DEF Erase, Restrict
<1>6. TypeOK'
  <2>1. call' \subseteq [id : Ids, size : Sizes, type : Types]
    BY <1>2 DEF Types
  <2>2. BagToSet(heap') \subseteq Blocks
    BY <1>4 DEF Good, Clear
  <2>3. DOMAIN pending' \subseteq Offsets
        /\ \A o \in DOMAIN pending' :
             pending'[o] \in [size : Offsets, ref : Int]
    BY <1>5 DEF IInv, TypeOK
  <2> QED
    BY <1>1, <1>4, <2>1, <2>2, <2>3 DEF IInv, TypeOK, Blocks, Offsets
<1>7. CallKind'
  BY <1>2 DEF CallKind
<1>8. \A b \in freeSet' \union BagToSet(heap') \union last' : Good(b)
  BY <1>1, <1>4 DEF IInv, GoodBlocks
<1>9. /\ \A o \in DOMAIN temp' : Good(Block(o, temp'[o]))
      /\ \A o \in DOMAIN pending' : Good(Block(o, pending'[o].size))
  BY <1>1, <1>5 DEF IInv, GoodBlocks
<1> QED
  BY <1>1, <1>6, <1>7, <1>8, <1>9, QuietStep, TensorsStay, PoolStays

-----------------------------------------------------------------------------
(* A step of the collect loop changes the heap, the free set and the last  *)
(* block only.                                                             *)
LEMMA CollectKeeps ==
    ASSUME IInv,
           UNCHANGED <<current, residents, kvOffsets, temp, pool, pending, call, tensors, phase, calls>>,
           IsABag(heap'), BagToSet(heap') \subseteq BagToSet(heap),
           \A b \in freeSet' : Good(b), \A b \in last' : Good(b)
    PROVE  IInv'
<1>1. \A b \in freeSet' \union BagToSet(heap') \union last' : Good(b)
  BY DEF IInv, GoodBlocks
<1>2. BagToSet(heap') \subseteq Blocks /\ freeSet' \subseteq Blocks /\ last' \subseteq Blocks
  BY <1>1 DEF Good, Clear
<1>3. TypeOK'
  BY <1>2 DEF IInv, TypeOK, Blocks, Offsets
<1>4. CallKind'
  BY DEF IInv, CallKind
<1>5. /\ \A o \in DOMAIN temp' : Good(Block(o, temp'[o]))
      /\ \A o \in DOMAIN pending' : Good(Block(o, pending'[o].size))
  BY DEF IInv, GoodBlocks
<1> QED
  BY <1>1, <1>3, <1>4, <1>5, QuietStep, TensorsStay, PoolStays

LEMMA CollectLoopStep ==
    ASSUME IInv,
           \/ \E b \in BagToSet(heap) :
                \/ CollectFirst(b)
                \/ CollectAdjacent(b)
                \/ CollectOverlapping(b)
                \/ CollectApart(b)
           \/ CollectEnd
    PROVE  IInv'
<1>1. /\ IsABag(heap)
      /\ \A c \in freeSet \union BagToSet(heap) \union last : Good(c)
  BY DEF IInv, TypeOK, GoodBlocks
<1>2. ASSUME NEW b \in BagToSet(heap), Pop(b)
      PROVE  /\ UNCHANGED <<current, residents, kvOffsets, temp, pool, pending, call, tensors, phase, calls>>
             /\ IsABag(heap') /\ BagToSet(heap') \subseteq BagToSet(heap)
  <2>1. heap' = heap (-) SetToBag({b})
    BY <1>2 DEF Pop
  <2> QED
    BY <1>1, <1>2, <2>1, PopBlock DEF Pop
<1>3. ASSUME NEW b \in BagToSet(heap), CollectFirst(b) PROVE IInv'
  BY <1>1, <1>2, <1>3, CollectKeeps DEF CollectFirst
<1>4. ASSUME NEW b \in BagToSet(heap), CollectAdjacent(b) PROVE IInv'
  <2>1. PICK l \in last : End(l) = b.off /\ last' = {Block(l.off, l.size + b.size)}
    BY <1>4 DEF CollectAdjacent
  <2>2. Good(l) /\ Good(b) /\ l.off \in Nat /\ l.size \in Nat /\ b.off \in Nat /\ b.size \in Nat
    BY <1>1 DEF Good, Clear, Blocks, Offsets
  <2>3. l.size + b.size = End(b) - l.off
    BY <2>1, <2>2 DEF End
  <2>4. Good(Block(l.off, l.size + b.size))
    BY <2>1, <2>2, <2>3, GoodMerge
  <2> QED
    BY <1>1, <1>2, <1>4, <2>1, <2>4, CollectKeeps DEF CollectAdjacent
<1>5. ASSUME NEW b \in BagToSet(heap), CollectOverlapping(b) PROVE IInv'
  BY <1>1, <1>2, <1>5, CollectKeeps DEF CollectOverlapping
<1>6. ASSUME NEW b \in BagToSet(heap), CollectApart(b) PROVE IInv'
  <2>1. PICK l \in last : PutFree(l)
    BY <1>6 DEF CollectApart
  <2>2. \A c \in freeSet' : Good(c)
    BY <1>1, <2>1, PutFreeGood
  <2> QED
    BY <1>1, <1>2, <1>6, <2>2, CollectKeeps DEF CollectApart
<1>7. CASE CollectEnd
  <2>1. PICK l \in last : PutFree(l)
    BY <1>7 DEF CollectEnd
  <2>2. \A c \in freeSet' : Good(c)
    BY <1>1, <2>1, PutFreeGood
  <2> QED
    BY <1>1, <1>7, <2>2, CollectKeeps DEF CollectEnd
<1> QED
  BY <1>3, <1>4, <1>5, <1>6, <1>7

-----------------------------------------------------------------------------
(* What NewTensor leaves of the old tensors, and what it adds.             *)
LEMMA NewTensorFields ==
    ASSUME NEW id, NEW offset, NEW size, NEW type, NEW stage,
           NewTensor(id, offset, size, type, stage)
    PROVE  /\ DOMAIN tensors' = DOMAIN tensors \union {id}
           /\ \A x \in DOMAIN tensors : tensors'[x] = tensors[x]
           /\ id \notin DOMAIN tensors =>
                tensors'[id] = [off |-> offset, size |-> size, type |-> type,
                                stage |-> stage, uses |-> 0, due |-> 0]
  BY DEF NewTensor, InsertNew

LEMMA AllocateFromFreeStep ==
    ASSUME IInv, NEW c \in freeSet, AllocateFromFree(c)
    PROVE  IInv'
<1>1. PICK a \in call :
         /\ Fits(c, a.size)
         /\ NoteType(a.type, c.off, AlignUp(a.size))
         /\ freeSet' = IF c.size >= AlignUp(a.size) + Alignment
                       THEN InsertFree(freeSet \ {c},
                                       Block(c.off + AlignUp(a.size), c.size - AlignUp(a.size)))
                       ELSE freeSet \ {c}
         /\ NewTensor(a.id, c.off, a.size, a.type, "placed")
  BY DEF AllocateFromFree
<1> DEFINE n == AlignUp(a.size)
<1>2. /\ a.id \in Ids /\ a.size \in Sizes /\ a.type \in Types
      /\ a.size \in Nat /\ a.size > 0
  <2>1. a \in [id : Ids, size : Sizes, type : Types]
    BY DEF IInv, TypeOK
  <2> QED
    BY <2>1, SizesArePositive
<1>3. n \in Nat /\ n >= a.size
  BY <1>2, AlignUpBounds
<1>4. c.size >= n
  BY <1>1 DEF Fits
<1> HIDE DEF n
<1>5. /\ UNCHANGED <<current, residents, pool, heap, pending, last, phase, calls>>
      /\ call' = {}
  BY DEF AllocateFromFree
<1>6. Good(c) /\ c.off \in Offsets /\ c.off \in Nat /\ c.size \in Nat
  BY DEF IInv, GoodBlocks, Good, Clear, Blocks, Offsets
<1>7. Good(Block(c.off, n)) /\ Good(Block(c.off + n, c.size - n)) /\ Good(Block(c.off, a.size))
  <2>1. Good(Block(c.off, n))
    BY <1>3, <1>4, <1>6, GoodPart DEF End
  <2>2. Good(Block(c.off + n, c.size - n))
    BY <1>3, <1>4, <1>6, GoodPart DEF End
  <2>3. Good(Block(c.off, a.size))
    BY <1>2, <1>3, <1>4, <1>6, GoodPart DEF End
  <2> QED
    BY <2>1, <2>2, <2>3
<1>8. \A b \in freeSet' \union BagToSet(heap') \union last' : Good(b)
  <2>1. \A b \in freeSet' : b \in freeSet \/ b = Block(c.off + n, c.size - n)
    BY <1>1 DEF InsertFree, n
  <2> QED
    BY <1>5, <1>7, <2>1 DEF IInv, GoodBlocks
<1>9. /\ DOMAIN temp' \subseteq DOMAIN temp \union {c.off}
      /\ \A o \in DOMAIN temp' : (o \in DOMAIN temp /\ temp'[o] = temp[o])
                                  \/ (o = c.off /\ temp'[o] = n)
      /\ kvOffsets' \subseteq kvOffsets \union {c.off}
  BY <1>1 DEF NoteType, Assign, n
<1>10. \A o \in DOMAIN temp' : Good(Block(o, temp'[o]))
  BY <1>7, <1>9 DEF IInv, GoodBlocks
<1>11. /\ DOMAIN tensors' = DOMAIN tensors \union {a.id}
       /\ \A x \in DOMAIN tensors : tensors'[x] = tensors[x]
       /\ a.id \notin DOMAIN tensors =>
            tensors'[a.id] = [off |-> c.off, size |-> a.size, type |-> a.type,
                              stage |-> "placed", uses |-> 0, due |-> 0]
  BY <1>1, NewTensorFields
<1>12. \A x \in DOMAIN tensors' :
          LET block == Block(tensors'[x].off, tensors'[x].size) IN
          IF tensors'[x].type = "RESIDENT"
          THEN tensors'[x].off \in residents /\ End(block) <= current
          ELSE Good(block)
  <2>1. ASSUME NEW x \in DOMAIN tensors
        PROVE  LET block == Block(tensors'[x].off, tensors'[x].size) IN
               IF tensors'[x].type = "RESIDENT"
               THEN tensors'[x].off \in residents /\ End(block) <= current
               ELSE Good(block)
    BY <1>11 DEF IInv, GoodTensors, TensorBlock
  <2>2. CASE a.id \notin DOMAIN tensors
    <3>1. tensors'[a.id].off = c.off /\ tensors'[a.id].size = a.size
      BY <1>11, <2>2
    <3>2. a.type # "RESIDENT"
      BY DEF IInv, CallKind
    <3> QED
      BY <1>7, <1>11, <2>1, <2>2, <3>1, <3>2
  <2> QED
    BY <1>11, <2>1, <2>2
<1>13. TypeOK'
  <2>1. freeSet' \subseteq Blocks /\ \A o \in DOMAIN temp' : Block(o, temp'[o]) \in Blocks
    BY <1>8, <1>10 DEF Good, Clear
  <2>2. DOMAIN temp' \subseteq Offsets /\ \A o \in DOMAIN temp' : temp'[o] \in Offsets
    BY <2>1 DEF Block, Blocks
  <2>3. kvOffsets' \subseteq Offsets
    BY <1>6, <1>9 DEF IInv, TypeOK
  <2>4. /\ DOMAIN tensors' \subseteq Ids
        /\ \A x \in DOMAIN tensors' :
             tensors'[x] \in TensorRecords
    <3>1. 0 \in 0 .. MaxUses
      OBVIOUS
    <3> QED
      BY <1>2, <1>6, <1>11, <3>1 DEF IInv, TypeOK
  <2> QED
    BY <1>5, <2>1, <2>2, <2>3, <2>4 DEF IInv, TypeOK, Blocks, Offsets
<1>14. CallKind'
  BY <1>5 DEF CallKind
<1>15. \A o \in DOMAIN pending' : Good(Block(o, pending'[o].size))
  BY <1>5 DEF IInv, GoodBlocks
<1> QED
  BY <1>5, <1>8, <1>10, <1>12, <1>13, <1>14, <1>15, QuietStep, PoolStays

(* The range grows by a block that lies above every weight.                *)
LEMMA AllocateAtEndStep ==
    ASSUME IInv, AllocateAtEnd
    PROVE  IInv'
<1>1. PICK a \in call :
         /\ current + AlignUp(a.size) <= Capacity
         /\ current' = current + AlignUp(a.size)
         /\ IF a.type = "KV_CACHE"
            THEN kvOffsets' = kvOffsets \union {current} /\ UNCHANGED temp
            ELSE temp' = InsertNew(temp, current, AlignUp(a.size)) /\ UNCHANGED kvOffsets
         /\ pool' = InsertNew(pool, current, Block(current, AlignUp(a.size)))
         /\ NewTensor(a.id, current, a.size, a.type, "placed")
  BY DEF AllocateAtEnd
<1> DEFINE n == AlignUp(a.size)
<1>2. /\ a.id \in Ids /\ a.size \in Sizes /\ a.type \in Types
      /\ a.size \in Nat /\ a.size > 0
  <2>1. a \in [id : Ids, size : Sizes, type : Types]
    BY DEF IInv, TypeOK
  <2> QED
    BY <2>1, SizesArePositive
<1>3. n \in Nat /\ n >= a.size
  BY <1>2, AlignUpBounds
<1>4. current + n <= Capacity /\ a.type # "RESIDENT"
  BY <1>1 DEF IInv, CallKind
<1> HIDE DEF n
<1>5. current \in Nat /\ current' = current + n /\ n \in Offsets
      /\ current \in Offsets /\ current' \in Offsets
  BY <1>1, <1>3, <1>4 DEF IInv, TypeOK, Offsets, n
<1>6. UNCHANGED <<residents, heap, freeSet, pending, last, phase, calls>> /\ call' = {}
  BY DEF AllocateAtEnd
<1>7. /\ DOMAIN pool' = DOMAIN pool \union {current}
      /\ current \notin DOMAIN pool
      /\ \A o \in DOMAIN pool : pool'[o] = pool[o]
      /\ pool'[current] = Block(current, n)
  <2>1. current \notin DOMAIN pool
    BY <1>5 DEF IInv, Weights
  <2> QED
    BY <1>1, <2>1 DEF InsertNew, n
<1>8. /\ DOMAIN temp' \subseteq DOMAIN temp \union {current}
      /\ \A o \in DOMAIN temp' : (o \in DOMAIN temp /\ temp'[o] = temp[o])
                                  \/ (o = current /\ temp'[o] = n)
      /\ kvOffsets' \subseteq kvOffsets \union {current}
  BY <1>1 DEF InsertNew, n
<1>9. /\ DOMAIN tensors' = DOMAIN tensors \union {a.id}
      /\ \A x \in DOMAIN tensors : tensors'[x] = tensors[x]
      /\ a.id \notin DOMAIN tensors =>
           tensors'[a.id] = [off |-> current, size |-> a.size, type |-> a.type,
                             stage |-> "placed", uses |-> 0, due |-> 0]
  BY <1>1, NewTensorFields
<1>10. TypeOK'
  <2>1. DOMAIN pool' \subseteq Offsets /\ \A o \in DOMAIN pool' : pool'[o] \in Blocks
    BY <1>5, <1>7 DEF IInv, TypeOK, Block, Blocks
  <2>2. DOMAIN temp' \subseteq Offsets /\ \A o \in DOMAIN temp' : temp'[o] \in Offsets
    BY <1>5, <1>8 DEF IInv, TypeOK
  <2>3. kvOffsets' \subseteq Offsets
    BY <1>5, <1>8 DEF IInv, TypeOK
  <2>4. /\ DOMAIN tensors' \subseteq Ids
        /\ \A x \in DOMAIN tensors' :
             tensors'[x] \in TensorRecords
    <3>1. 0 \in 0 .. MaxUses
      OBVIOUS
    <3> QED
      BY <1>2, <1>5, <1>9, <3>1 DEF IInv, TypeOK
  <2> QED
    BY <1>5, <1>6, <2>1, <2>2, <2>3, <2>4 DEF IInv, TypeOK, Blocks, Offsets
<1>11. current' >= current
  BY <1>3, <1>5
<1>12. /\ \A b : Good(b) => Clear(b, current', residents', pool')
       /\ \A q, r \in residents' : q # r => Disjoint(pool[q], pool[r])'
       /\ \A r \in residents' :
            /\ r \in DOMAIN pool' /\ pool'[r].off = r /\ pool'[r].size > 0
            /\ End(pool'[r]) <= current'
  BY <1>6, <1>7, <1>10, <1>11, SameWeights DEF Good
<1>13. \A m \in Nat : m <= n => Clear(Block(current, m), current', residents', pool')
  <2> SUFFICES ASSUME NEW m \in Nat, m <= n
               PROVE  Clear(Block(current, m), current', residents', pool')
    OBVIOUS
  <2>1. /\ Block(current, m) \in Blocks /\ End(Block(current, m)) <= current'
        /\ Block(current, m).off = current
    BY <1>3, <1>5 DEF Block, Blocks, End, Offsets
  <2>2. \A r \in residents' : End(pool'[r]) <= current
    BY <1>6, <1>7 DEF IInv, Weights
  <2> QED
    BY <2>1, <2>2 DEF Clear, Disjoint
<1>14. Clear(Block(current, n), current', residents', pool')
       /\ Clear(Block(current, a.size), current', residents', pool')
  BY <1>2, <1>3, <1>13
<1>15. GoodBlocks'
  <2>1. \A b \in (freeSet \union BagToSet(heap) \union last)' : Good(b)'
    BY <1>6, <1>12 DEF IInv, GoodBlocks, Good
  <2>2. \A o \in DOMAIN temp' : Good(Block(o, temp[o]))'
    BY <1>8, <1>12, <1>14 DEF IInv, GoodBlocks, Good
  <2>3. \A o \in DOMAIN pending' : Good(Block(o, pending[o].size))'
    BY <1>6, <1>12 DEF IInv, GoodBlocks, Good
  <2>4. \A o \in DOMAIN pool' : o \in residents'
          \/ (Good(pool[o])' /\ Good(Block(o, pool[o].size))')
    <3>1. pool'[current].size = n
      BY <1>7 DEF Block
    <3> QED
      BY <1>6, <1>7, <1>12, <1>14, <3>1 DEF IInv, GoodBlocks, Good
  <2> QED
    BY <2>1, <2>2, <2>3, <2>4 DEF GoodBlocks, Good
<1>16. GoodTensors'
  <2>1. ASSUME NEW x \in DOMAIN tensors
        PROVE  IF tensors'[x].type = "RESIDENT"
               THEN tensors'[x].off \in residents' /\ End(TensorBlock(x)') <= current'
               ELSE Good(TensorBlock(x))'
    <3>1. tensors'[x] = tensors[x] /\ TensorBlock(x)' = TensorBlock(x)
      BY <1>9 DEF TensorBlock, Block
    <3>2. CASE tensors[x].type = "RESIDENT"
      <4>1. tensors[x].off \in residents /\ End(TensorBlock(x)) <= current
        BY <3>2 DEF IInv, GoodTensors
      <4>2. tensors[x].off \in Nat /\ tensors[x].size \in Nat
        <5>1. tensors[x].off \in Offsets /\ tensors[x].size \in Sizes
          BY DEF IInv, TypeOK
        <5>2. tensors[x].off \in Nat
          BY <5>1 DEF Offsets
        <5>3. tensors[x].size \in Nat
          BY <5>1, SizesArePositive
        <5> QED
          BY <5>2, <5>3
      <4>3. End(TensorBlock(x)) \in Int
        BY <4>2 DEF TensorBlock, Block, End
      <4>4. End(TensorBlock(x)') <= current'
        BY <1>5, <1>11, <3>1, <4>1, <4>3
      <4> QED
        BY <1>6, <3>1, <3>2, <4>1, <4>4
    <3>3. CASE tensors[x].type # "RESIDENT"
      BY <1>12, <3>1, <3>3 DEF IInv, GoodTensors, Good
    <3> QED
      BY <3>2, <3>3
  <2>2. CASE a.id \notin DOMAIN tensors
    <3>1. tensors'[a.id].type # "RESIDENT" /\ TensorBlock(a.id)' = Block(current, a.size)
      BY <1>4, <1>9, <2>2 DEF TensorBlock
    <3> QED
      BY <1>9, <1>14, <2>1, <3>1 DEF GoodTensors, Good
  <2> QED
    BY <1>9, <2>1, <2>2 DEF GoodTensors, Good
<1>17. Weights'
  <2>1. \A o \in DOMAIN pool' : o < current'
    BY <1>2, <1>3, <1>5, <1>7 DEF IInv, Weights, TypeOK, Offsets
  <2> QED
    BY <1>12, <2>1 DEF Weights
<1>18. CallKind'
  BY <1>6 DEF CallKind
<1> QED
  BY <1>10, <1>15, <1>16, <1>17, <1>18 DEF IInv

-----------------------------------------------------------------------------
(* Counting a use up, or entering the block, keeps the pending blocks good. *)
LEMMA AquirePending ==
    ASSUME IInv, NEW offset \in Offsets, NEW size, AquireMemory(offset, size),
           offset \notin residents => Good(Block(offset, size))
    PROVE  /\ DOMAIN pending' \subseteq Offsets
           /\ \A o \in DOMAIN pending' :
                /\ pending'[o] \in [size : Offsets, ref : Int]
                /\ Good(Block(o, pending'[o].size))
<1>1. /\ DOMAIN pending \subseteq Offsets
      /\ \A o \in DOMAIN pending :
           /\ pending[o] \in [size : Offsets, ref : Int]
           /\ Good(Block(o, pending[o].size))
  BY DEF IInv, TypeOK, GoodBlocks
<1>2. CASE offset \in residents
  BY <1>1, <1>2 DEF AquireMemory
<1>3. CASE offset \notin residents /\ offset \in DOMAIN pending
  BY <1>1, <1>3 DEF AquireMemory
<1>4. CASE offset \notin residents /\ offset \notin DOMAIN pending
  <2>1. Good(Block(offset, size)) /\ size \in Offsets
    BY <1>4 DEF Good, Clear, Block, Blocks
  <2>2. pending' = InsertNew(pending, offset,
                             [size |-> size, ref |-> 0])
    BY <1>4 DEF AquireMemory
  <2>3. /\ DOMAIN pending' = DOMAIN pending \union {offset}
        /\ \A o \in DOMAIN pending : pending'[o] = pending[o]
        /\ pending'[offset] = [size |-> size, ref |-> 0]
    BY <1>4, <2>2 DEF InsertNew
  <2> QED
    BY <1>1, <2>1, <2>3
<1> QED
  BY <1>2, <1>3, <1>4

(* get_ptr_by_offset may enter an empty block in the pool, never over a    *)
(* weight and always below the end of the range.                           *)
LEMMA GetPtrStep ==
    ASSUME IInv, NEW id \in Ids, GetPtr(id)
    PROVE  IInv'
<1> DEFINE offset == tensors[id].off
<1>1. /\ pool' = InsertNew(pool, offset, Block(0, 0))
      /\ AquireMemory(offset, pool'[offset].size)
      /\ tensors' = [tensors EXCEPT ![id].stage = "ready"]
      /\ UNCHANGED <<current, residents, kvOffsets, temp, heap, freeSet, call, last, phase, calls>>
      /\ id \in DOMAIN tensors
  BY DEF GetPtr
<1>2. offset \in Offsets /\ offset \in Nat /\ tensors[id].size \in Nat /\ tensors[id].size > 0
  BY <1>1, SizesArePositive DEF IInv, TypeOK, Offsets
<1>3. current \in Nat /\ current <= Capacity
  BY DEF IInv, TypeOK, Offsets
<1>4. offset < current
  <2>1. End(TensorBlock(id)) <= current
    BY <1>1 DEF IInv, GoodTensors, Good, Clear
  <2> QED
    BY <1>2, <1>3, <2>1 DEF TensorBlock, Block, End
<1>5. offset \notin residents => Good(Block(offset, 0))
  <2> SUFFICES ASSUME offset \notin residents PROVE Good(Block(offset, 0))
    OBVIOUS
  <2>1. Good(TensorBlock(id))
    BY <1>1 DEF IInv, GoodTensors
  <2> QED
    BY <1>2, <2>1, GoodPart DEF TensorBlock, Block, End
<1>6. Good(Block(0, 0)) /\ Block(0, 0).size = 0
  <2>1. Block(0, 0) \in Blocks /\ End(Block(0, 0)) = 0 /\ Block(0, 0).size = 0
    BY <1>3 DEF Block, Blocks, Offsets, End
  <2>2. \A r \in residents : pool[r].off \in Nat
    BY DEF IInv, Weights, TypeOK, Blocks, Offsets
  <2> QED
    BY <1>3, <2>1, <2>2 DEF Good, Clear, Disjoint
<1>7. /\ DOMAIN pool' = DOMAIN pool \union {offset}
      /\ \A o \in DOMAIN pool : pool'[o] = pool[o]
      /\ offset \notin DOMAIN pool => pool'[offset] = Block(0, 0)
  BY <1>1 DEF InsertNew
<1>8. /\ \A o \in DOMAIN pool : o \in DOMAIN pool' /\ pool'[o] = pool[o]
      /\ \A o \in DOMAIN pool' :
           /\ o < current
           /\ o \in residents \/ (Good(pool'[o]) /\ Good(Block(o, pool'[o].size)))
  <2>1. \A o \in DOMAIN pool :
           /\ o < current
           /\ o \in residents \/ (Good(pool[o]) /\ Good(Block(o, pool[o].size)))
    BY DEF IInv, Weights, GoodBlocks
  <2> QED
    BY <1>4, <1>5, <1>6, <1>7, <2>1
<1>9. offset \notin residents => Good(Block(offset, pool'[offset].size))
  BY <1>7, <1>8
<1>10. /\ DOMAIN pending' \subseteq Offsets
       /\ \A o \in DOMAIN pending' :
            /\ pending'[o] \in [size : Offsets, ref : Int]
            /\ Good(Block(o, pending'[o].size))
  BY <1>1, <1>2, <1>9, AquirePending
<1>11. TypeOK'
  <2>1. DOMAIN pool' \subseteq Offsets /\ \A o \in DOMAIN pool' : pool'[o] \in Blocks
    BY <1>2, <1>6, <1>7 DEF IInv, TypeOK, Good, Clear
  <2>2. /\ DOMAIN tensors' \subseteq Ids
        /\ \A x \in DOMAIN tensors' :
             tensors'[x] \in TensorRecords
    BY <1>1 DEF IInv, TypeOK
  <2> QED
    BY <1>1, <1>10, <2>1, <2>2 DEF IInv, TypeOK, Blocks, Offsets
<1>12. CallKind'
  BY <1>1 DEF IInv, CallKind
<1>13. /\ \A b \in freeSet' \union BagToSet(heap') \union last' : Good(b)
       /\ \A o \in DOMAIN temp' : Good(Block(o, temp'[o]))
  BY <1>1 DEF IInv, GoodBlocks
<1>14. /\ DOMAIN tensors' \subseteq DOMAIN tensors
       /\ \A x \in DOMAIN tensors' :
            /\ tensors'[x].off = tensors[x].off
            /\ tensors'[x].size = tensors[x].size
            /\ tensors'[x].type = tensors[x].type
  BY <1>1 DEF IInv, TypeOK
<1> QED
  BY <1>1, <1>8, <1>10, <1>11, <1>12, <1>13, <1>14, QuietStep, TensorsStay

LEMMA AquireStep ==
    ASSUME IInv, NEW id \in Ids, Aquire(id)
    PROVE  IInv'
<1> DEFINE offset == tensors[id].off
<1>1. /\ AquireMemory(offset, tensors[id].size)
      /\ tensors' \in {tensors, [tensors EXCEPT ![id].uses = @ + 1]}
      /\ UNCHANGED <<current, residents, kvOffsets, temp, pool, heap, freeSet, call, last, phase, calls>>
      /\ id \in DOMAIN tensors /\ tensors[id].uses < MaxUses
  BY DEF Aquire
<1>2. offset \in Offsets /\ tensors[id].uses \in 0 .. MaxUses
  BY <1>1 DEF IInv, TypeOK
<1>3. offset \notin residents => Good(Block(offset, tensors[id].size))
  BY <1>1 DEF IInv, GoodTensors, TensorBlock
<1>4. /\ DOMAIN pending' \subseteq Offsets
      /\ \A o \in DOMAIN pending' :
           /\ pending'[o] \in [size : Offsets, ref : Int]
           /\ Good(Block(o, pending'[o].size))
  BY <1>1, <1>2, <1>3, AquirePending
<1>5. TypeOK'
  <2>1. tensors[id].uses + 1 \in 0 .. MaxUses
    BY <1>1, <1>2
  <2>2. /\ DOMAIN tensors' \subseteq Ids
        /\ \A x \in DOMAIN tensors' :
             tensors'[x] \in TensorRecords
    BY <1>1, <2>1 DEF IInv, TypeOK
  <2> QED
    BY <1>1, <1>4, <2>2 DEF IInv, TypeOK, Blocks, Offsets
<1>6. CallKind'
  BY <1>1 DEF IInv, CallKind
<1>7. /\ \A b \in freeSet' \union BagToSet(heap') \union last' : Good(b)
      /\ \A o \in DOMAIN temp' : Good(Block(o, temp'[o]))
  BY <1>1 DEF IInv, GoodBlocks
<1>8. /\ DOMAIN tensors' \subseteq DOMAIN tensors
      /\ \A x \in DOMAIN tensors' :
           /\ tensors'[x].off = tensors[x].off
           /\ tensors'[x].size = tensors[x].size
           /\ tensors'[x].type = tensors[x].type
  BY <1>1 DEF IInv, TypeOK
<1> QED
  BY <1>1, <1>4, <1>5, <1>6, <1>7, <1>8, QuietStep, TensorsStay, PoolStays

-----------------------------------------------------------------------------
(* Releasing an offset pushes a block that is pending, or that the pool    *)
(* has for an offset that is not a weight's.                               *)
LEMMA ReleaseBlocks ==
    ASSUME IInv, NEW offset \in Offsets, ReleaseMemory(offset)
    PROVE  /\ IsABag(heap') /\ \A b \in BagToSet(heap') : Good(b)
           /\ DOMAIN pending' \subseteq Offsets
           /\ \A o \in DOMAIN pending' :
                /\ pending'[o] \in [size : Offsets, ref : Int]
                /\ Good(Block(o, pending'[o].size))
<1>1. /\ IsABag(heap) /\ \A b \in BagToSet(heap) : Good(b)
      /\ DOMAIN pending \subseteq Offsets
      /\ \A o \in DOMAIN pending :
           /\ pending[o] \in [size : Offsets, ref : Int]
           /\ Good(Block(o, pending[o].size))
  BY DEF IInv, TypeOK, GoodBlocks
<1>2. CASE UNCHANGED <<heap, pending>>
  BY <1>1, <1>2
<1>3. CASE /\ offset \in DOMAIN pending
           /\ Push({Block(offset, pending[offset].size)})
           /\ pending' = Erase(pending, {offset})
  <2>1. IsABag(heap')
        /\ BagToSet(heap') = BagToSet(heap) \union {Block(offset, pending[offset].size)}
    BY <1>1, <1>3, PushBlocks
  <2>2. /\ DOMAIN pending' \subseteq DOMAIN pending
        /\ \A o \in DOMAIN pending' : pending'[o] = pending[o]
    BY <1>3 DEF Erase, Restrict
  <2>3. IsABag(heap') /\ \A b \in BagToSet(heap') : Good(b)
    <3>1. Good(Block(offset, pending[offset].size))
      BY <1>1, <1>3
    <3> QED
      BY <1>1, <2>1, <3>1
  <2>4. /\ DOMAIN pending' \subseteq Offsets
        /\ \A o \in DOMAIN pending' :
             /\ pending'[o] \in [size : Offsets, ref : Int]
             /\ Good(Block(o, pending'[o].size))
    BY <1>1, <2>2
  <2> QED
    BY <2>3, <2>4
<1>4. CASE /\ offset \in DOMAIN pending
           /\ pending' = [pending EXCEPT ![offset].ref = pending[offset].ref - 1]
           /\ UNCHANGED heap
  <2>1. pending[offset].ref - 1 \in Int
    BY <1>1, <1>4
  <2>2. /\ DOMAIN pending' = DOMAIN pending
        /\ \A o \in DOMAIN pending : o # offset => pending'[o] = pending[o]
        /\ pending'[offset].size = pending[offset].size
        /\ pending'[offset] \in [size : Offsets, ref : Int]
    BY <1>1, <1>4, <2>1
  <2>3. \A o \in DOMAIN pending' :
             /\ pending'[o] \in [size : Offsets, ref : Int]
             /\ pending'[o].size = pending[o].size
    BY <1>1, <2>2
  <2>4. IsABag(heap') /\ \A b \in BagToSet(heap') : Good(b)
    BY <1>1, <1>4
  <2>5. \A o \in DOMAIN pending' : Good(Block(o, pending'[o].size))
    BY <1>1, <2>2, <2>3
  <2> QED
    BY <1>1, <2>2, <2>3, <2>4, <2>5
<1>5. CASE /\ offset \in DOMAIN pool /\ offset \notin residents
           /\ Push({pool[offset]})
           /\ UNCHANGED pending
  <2>1. IsABag(heap') /\ BagToSet(heap') = BagToSet(heap) \union {pool[offset]}
    BY <1>1, <1>5, PushBlocks
  <2>2. Good(pool[offset])
    BY <1>5 DEF IInv, GoodBlocks
  <2>3. IsABag(heap') /\ \A b \in BagToSet(heap') : Good(b)
    BY <1>1, <2>1, <2>2
  <2>4. pending' = pending
    BY <1>5
  <2> QED
    BY <1>1, <2>3, <2>4
<1> QED
  BY <1>2, <1>3, <1>4, <1>5 DEF ReleaseMemory

LEMMA ReleaseStep ==
    ASSUME IInv, NEW id \in Ids, Release(id)
    PROVE  IInv'
<1> DEFINE offset == tensors[id].off
<1>1. /\ ReleaseMemory(offset)
      /\ tensors' = [tensors EXCEPT ![id].due = @ - 1]
      /\ UNCHANGED <<current, residents, kvOffsets, temp, pool, freeSet, call, last, phase, calls>>
      /\ id \in DOMAIN tensors /\ tensors[id].due > 0
  BY DEF Release
<1>2. offset \in Offsets /\ tensors[id].due \in 0 .. MaxUses
  BY <1>1 DEF IInv, TypeOK
<1>3. /\ IsABag(heap') /\ \A b \in BagToSet(heap') : Good(b)
      /\ DOMAIN pending' \subseteq Offsets
      /\ \A o \in DOMAIN pending' :
           /\ pending'[o] \in [size : Offsets, ref : Int]
           /\ Good(Block(o, pending'[o].size))
  BY <1>1, <1>2, ReleaseBlocks
<1>4. /\ DOMAIN tensors' = DOMAIN tensors
      /\ \A x \in DOMAIN tensors' : x # id => tensors'[x] = tensors[x]
      /\ tensors'[id] = [tensors[id] EXCEPT !.due = @ - 1]
  BY <1>1
<1>5. TypeOK'
  <2>1. tensors[id].due - 1 \in 0 .. MaxUses
    BY <1>1, <1>2
  <2>2. \A x \in DOMAIN tensors :
          tensors[x] \in TensorRecords
    BY DEF IInv, TypeOK
  <2>3. /\ DOMAIN tensors' \subseteq Ids
        /\ \A x \in DOMAIN tensors' :
             tensors'[x] \in TensorRecords
    BY <1>4, <2>1, <2>2 DEF IInv, TypeOK
  <2>4. BagToSet(heap') \subseteq Blocks
    BY <1>3 DEF Good, Clear
  <2> QED
    BY <1>1, <1>3, <2>3, <2>4 DEF IInv, TypeOK, Blocks, Offsets
<1>6. CallKind'
  BY <1>1 DEF IInv, CallKind
<1>7. /\ \A b \in freeSet' \union BagToSet(heap') \union last' : Good(b)
      /\ \A o \in DOMAIN temp' : Good(Block(o, temp'[o]))
  BY <1>1, <1>3 DEF IInv, GoodBlocks
<1>8. /\ DOMAIN tensors' \subseteq DOMAIN tensors
      /\ \A x \in DOMAIN tensors' :
           /\ tensors'[x].off = tensors[x].off
           /\ tensors'[x].size = tensors[x].size
           /\ tensors'[x].type = tensors[x].type
  BY <1>4 DEF IInv, TypeOK
<1> QED
  BY <1>1, <1>3, <1>5, <1>6, <1>7, <1>8, QuietStep, TensorsStay, PoolStays

LEMMA ReclaimMemoryStep ==
    ASSUME IInv, ReclaimMemory
    PROVE  IInv'
<1> DEFINE S == {Block(o, temp[o]) : o \in DOMAIN temp}
           gone == {id \in DOMAIN tensors : tensors[id].type = "WORKSPACE"}
<1>1. /\ Push(S)
      /\ temp' = << >>
      /\ tensors' = Erase([id \in DOMAIN tensors |->
                             IF id \in gone
                             THEN [tensors[id] EXCEPT !.stage = "reclaimed"]
                             ELSE tensors[id]],
                          {id \in gone : tensors[id].uses = 0})
      /\ UNCHANGED <<current, residents, kvOffsets, pool, freeSet, pending, call, last, phase, calls>>
  BY DEF ReclaimMemory
<1>2. IsABag(heap') /\ \A b \in BagToSet(heap') : Good(b)
  <2>1. IsABag(heap)
    BY DEF IInv, TypeOK
  <2>2. \A b \in S \union BagToSet(heap) : Good(b)
    BY DEF IInv, GoodBlocks
  <2> QED
    BY <1>1, <2>1, <2>2, PushBlocks
<1>3. DOMAIN temp' = {}
  BY <1>1
<1>4. /\ DOMAIN tensors' \subseteq DOMAIN tensors
      /\ \A x \in DOMAIN tensors' :
           tensors'[x] = tensors[x] \/ tensors'[x] = [tensors[x] EXCEPT !.stage = "reclaimed"]
  BY <1>1 DEF Erase, Restrict
<1>5. TypeOK'
  <2>1. \A x \in DOMAIN tensors :
          tensors[x] \in TensorRecords
    BY DEF IInv, TypeOK
  <2>2. /\ DOMAIN tensors' \subseteq Ids
        /\ \A x \in DOMAIN tensors' :
             tensors'[x] \in TensorRecords
    BY <1>4, <2>1 DEF IInv, TypeOK
  <2>3. BagToSet(heap') \subseteq Blocks
    BY <1>2 DEF Good, Clear
  <2> QED
    BY <1>1, <1>2, <1>3, <2>2, <2>3 DEF IInv, TypeOK, Blocks, Offsets
<1>6. CallKind'
  BY <1>1 DEF IInv, CallKind
<1>7. /\ \A b \in freeSet' \union BagToSet(heap') \union last' : Good(b)
      /\ \A o \in DOMAIN pending' : Good(Block(o, pending'[o].size))
  BY <1>1, <1>2 DEF IInv, GoodBlocks
<1>8. /\ DOMAIN tensors' \subseteq DOMAIN tensors
      /\ \A x \in DOMAIN tensors' :
           /\ tensors'[x].off = tensors[x].off
           /\ tensors'[x].size = tensors[x].size
           /\ tensors'[x].type = tensors[x].type
  BY <1>4 DEF IInv, TypeOK
<1> QED
  BY <1>1, <1>3, <1>5, <1>6, <1>7, <1>8, QuietStep, TensorsStay, PoolStays

(* A run begins or a schedule is cleared: the memory stays as it is, and   *)
(* tensors are dropped or counted anew.                                    *)
LEMMA ScheduleStep ==
    ASSUME IInv, StartRun \/ ClearSchedule
    PROVE  IInv'
<1>1. UNCHANGED <<current, residents, kvOffsets, temp, pool, heap, freeSet, pending,
                  call, last, calls>>
  BY DEF StartRun, ClearSchedule, mem
<1>2. /\ DOMAIN tensors' \subseteq DOMAIN tensors
      /\ \A x \in DOMAIN tensors' :
           \/ tensors'[x] = [tensors[x] EXCEPT !.due = tensors[x].uses]
           \/ tensors'[x] = [tensors[x] EXCEPT !.uses = 0]
      /\ phase' \in {"build", "run"}
  BY DEF StartRun, ClearSchedule
<1>3. \A x \in DOMAIN tensors : tensors[x] \in TensorRecords
  BY DEF IInv, TypeOK
<1>4. 0 \in 0 .. MaxUses
  OBVIOUS
<1>5. /\ DOMAIN tensors' \subseteq Ids
      /\ \A x \in DOMAIN tensors' : tensors'[x] \in TensorRecords
  BY <1>2, <1>3, <1>4 DEF IInv, TypeOK
<1>6. TypeOK'
  BY <1>1, <1>2, <1>5 DEF IInv, TypeOK, Blocks, Offsets
<1>7. CallKind'
  BY <1>1 DEF IInv, CallKind
<1>8. /\ \A b \in freeSet' \union BagToSet(heap') \union last' : Good(b)
      /\ \A o \in DOMAIN temp' : Good(Block(o, temp'[o]))
      /\ \A o \in DOMAIN pending' : Good(Block(o, pending'[o].size))
  BY <1>1 DEF IInv, GoodBlocks
<1>9. \A x \in DOMAIN tensors' :
         /\ tensors'[x].off = tensors[x].off
         /\ tensors'[x].size = tensors[x].size
         /\ tensors'[x].type = tensors[x].type
  BY <1>2, <1>3
<1> QED
  BY <1>1, <1>2, <1>6, <1>7, <1>8, <1>9, QuietStep, TensorsStay, PoolStays

-----------------------------------------------------------------------------
LEMMA NextIInv == IInv /\ [Next]_vars => IInv'
<1> SUFFICES ASSUME IInv, [Next]_vars PROVE IInv'
  OBVIOUS
<1>1. ASSUME NEW id \in Ids, NEW size \in Sizes,
             \/ AllocateResident(id, size)
             \/ AllocateBegin(id, size, "WORKSPACE")
             \/ AllocateBegin(id, size, "KV_CACHE")
      PROVE  IInv'
  BY <1>1, AllocateResidentStep, AllocateBeginStep
<1>2. CASE Collect
  BY <1>2, CollectLoopStep, AllocateFromFreeStep, AllocateAtEndStep DEF Collect
<1>3. ASSUME NEW id \in Ids, GetPtr(id) \/ Aquire(id) \/ Release(id) PROVE IInv'
  BY <1>3, GetPtrStep, AquireStep, ReleaseStep
<1>4. CASE ReclaimMemory
  BY <1>4, ReclaimMemoryStep
<1>5. CASE StartRun \/ ClearSchedule
  BY <1>5, ScheduleStep
<1>6. CASE UNCHANGED vars
  <2>1. UNCHANGED <<current, residents, kvOffsets, temp, pool, heap, freeSet, pending,
                    call, last, tensors, phase, calls>>
    BY <1>6 DEF vars, mem
  <2>2. TypeOK'
    BY <2>1 DEF IInv, TypeOK, Blocks, Offsets
  <2>3. CallKind'
    BY <2>1 DEF IInv, CallKind
  <2>4. /\ \A b \in freeSet' \union BagToSet(heap') \union last' : Good(b)
        /\ \A o \in DOMAIN temp' : Good(Block(o, temp'[o]))
        /\ \A o \in DOMAIN pending' : Good(Block(o, pending'[o].size))
    BY <2>1 DEF IInv, GoodBlocks
  <2> QED
    BY <2>1, <2>2, <2>3, <2>4, QuietStep, TensorsStay, PoolStays
<1> QED
  BY <1>1, <1>2, <1>3, <1>4, <1>5, <1>6 DEF Next

LEMMA SpecIInv == Spec => []IInv
  BY InitIInv, NextIInv, PTL DEF Spec

(* The memory manager's state keeps its types through every call, however  *)
(* often a schedule runs and releases again what was aquired once.         *)
THEOREM TypeCorrect == Spec => []TypeOK
<1>1. IInv => TypeOK
  BY DEF IInv
<1> QED
  BY <1>1, SpecIInv, PTL

(* Whatever is released, once or in every run anew, reclaimed, merged or   *)
(* split, no block that can be handed out and no other tensor reaches into *)
(* a weight.                                                               *)
THEOREM WeightsAreSafe == Spec => []ResidentSafe
<1>1. IInv => ResidentSafe
  <2> SUFFICES ASSUME IInv, NEW r \in residents
               PROVE  /\ \A b \in Reusable : Disjoint(b, pool[r])
                      /\ \A id \in DOMAIN tensors :
                           tensors[id].type # "RESIDENT" => Disjoint(TensorBlock(id), pool[r])
                      /\ \A q \in residents : q # r => Disjoint(pool[q], pool[r])
    BY DEF ResidentSafe
  <2>1. \A b \in Reusable : Good(b)
    BY DEF IInv, GoodBlocks, Reusable
  <2>2. \A id \in DOMAIN tensors : tensors[id].type # "RESIDENT" => Good(TensorBlock(id))
    BY DEF IInv, GoodTensors
  <2>3. \A q \in residents : q # r => Disjoint(pool[q], pool[r])
    BY DEF IInv, Weights
  <2> QED
    BY <2>1, <2>2, <2>3 DEF Good, Clear
<1> QED
  BY <1>1, SpecIInv, PTL

(* No free, waiting or used block ever reaches past the end of the range,  *)
(* and no block that is released twice makes a merged one longer.          *)
THEOREM BlocksStayInside == Spec => []InsideRange
<1>1. IInv => InsideRange
  <2> SUFFICES ASSUME IInv PROVE InsideRange
    OBVIOUS
  <2>1. \A b \in Reusable : Good(b)
    BY DEF IInv, GoodBlocks, Reusable
  <2>2. \A id \in DOMAIN tensors : End(TensorBlock(id)) <= current
    BY DEF IInv, GoodTensors, Good, Clear
  <2> QED
    BY <2>1, <2>2 DEF Good, Clear, InsideRange
<1> QED
  BY <1>1, SpecIInv, PTL

=============================================================================
