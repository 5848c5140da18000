------------------------------ MODULE MemManager ------------------------------
(***************************************************************************)
(* LLMMemManager for one CUDA device: offsets into one virtual range are   *)
(* handed out from a free set (first fit) or from the end of the range;    *)
(* released blocks wait on a heap, and the next allocation collects them:  *)
(* it drains the heap in offset order, merges neighbours and puts them in  *)
(* the free set.  Everything happens under _mutex; the collect loop is a   *)
(* sequence of steps during which "call" keeps every other call out.       *)
(*                                                                         *)
(* The callers are modelled by the calls they make for a tensor.  While a  *)
(* schedule is built: allocate, get_ptr_by_offset (a second critical       *)
(* section), aquire_memory for each consumer, reclaim_memory at a          *)
(* MEM_RECYCLE node.  A schedule that is built runs again and again, and   *)
(* in every run each consumer calls release_memory for what it lists as an *)
(* input, aquired once or not at all, while KV pages are still allocated.  *)
(***************************************************************************)
EXTENDS Integers, Bags, Functions

CONSTANTS Ids,        \* tensors the callers may hold at a time
          Sizes,      \* their sizes in bytes
          SeedBytes,  \* bytes of all KV pages, reserved by PageManager
          Alignment,  \* _alignment (256)
          Capacity,   \* bound on _current_offset
          MaxUses,    \* bound on the consumers of a tensor
          MaxRef,     \* bound on _ref_count, above and below zero
          MaxHeap,    \* bound on the blocks of the heap before a release
          MaxCalls    \* bound on the calls of allocate_memory

ASSUME SizesAssumption     == Sizes \subseteq Nat \ {0}
ASSUME SeedAssumption      == SeedBytes \in Nat \ {0}
ASSUME AlignmentAssumption == Alignment \in Nat \ {0}
ASSUME BoundsAssumption    == {Capacity, MaxUses, MaxRef, MaxHeap, MaxCalls} \subseteq Nat

Types  == {"RESIDENT", "WORKSPACE", "KV_CACHE"}
Stages == {"placed", "ready", "reclaimed"}

VARIABLES
    current,    \* _current_offset
    residents,  \* _const_mem_offset
    kvOffsets,  \* _kv_cache_offset
    temp,       \* _temp_buffer_offset, offset -> size
    pool,       \* _mem_buffer_pool, offset -> block
    heap,       \* _memory_heap, a bag of blocks (all have _free_time 0)
    freeSet,    \* _free_set, ordered by offset
    pending,    \* __async_pending_offset_map, offset -> size, _ref_count; an event
                \* of it is found complete or running whenever it is asked for
    call,       \* the allocation that holds _mutex while it collects, if any
    last,       \* merged_internal.back() of that collect, if any
    tensors,    \* what the callers hold: id -> offset, size, type, stage, the
                \* consumers that list it, and those of them still to end in a run
    phase,      \* "build" or "run": what is done with the schedule
    calls       \* calls of allocate_memory so far

mem  == <<current, residents, kvOffsets, temp, pool, heap, freeSet, pending>>
vars == <<mem, call, last, tensors, phase, calls>>

-----------------------------------------------------------------------------
AlignUp(n) == ((n + Alignment - 1) \div Alignment) * Alignment     \* align_up
ASSUME CapacityAssumption == AlignUp(SeedBytes) <= Capacity

Block(offset, size) == [off |-> offset, size |-> size]
End(b) == b.off + b.size

(* std::map::insert and std::set<FreeBlock>::insert: a key that is there   *)
(* already stays as it is.                                                 *)
InsertNew(f, key, value) ==
    [x \in DOMAIN f \union {key} |-> IF x \in DOMAIN f THEN f[x] ELSE value]
InsertFree(free, b) == IF \E c \in free : c.off = b.off THEN free ELSE free \union {b}
Assign(f, key, value) ==
    [x \in DOMAIN f \union {key} |-> IF x = key THEN value ELSE f[x]]
Erase(f, keys) == Restrict(f, DOMAIN f \ keys)

(* add_memory_heap *)
Push(blocks) == heap' = heap (+) SetToBag(blocks)

Idle == call = {}          \* _mutex is free

(* PageManager's constructor has reserved the bytes of all its pages and   *)
(* has released them at once.                                              *)
Init ==
    LET seed == Block(0, AlignUp(SeedBytes))
    IN  /\ current = seed.size
        /\ temp = [o \in {0} |-> seed.size]
        /\ pool = [o \in {0} |-> seed]
        /\ heap = SetToBag({seed})
        /\ residents = {} /\ kvOffsets = {}
        /\ freeSet = {} /\ pending = << >>
        /\ call = {} /\ last = {}
        /\ tensors = << >>
        /\ phase = "build" /\ calls = 0

NewTensor(id, offset, size, type, stage) ==
    tensors' = InsertNew(tensors, id, [off |-> offset, size |-> size, type |-> type,
                                       stage |-> stage, uses |-> 0, due |-> 0])

(* An id is but a name for what a caller holds: any free one will do.      *)
NewId == CHOOSE id \in Ids \ DOMAIN tensors : TRUE

-----------------------------------------------------------------------------
(* allocate_memory of a weight: never collects, always at the end.         *)
AllocateResident(id, size) ==
    /\ Idle /\ phase = "build" /\ calls < MaxCalls
    /\ id \notin DOMAIN tensors /\ id = NewId
    /\ current + AlignUp(size) <= Capacity
    /\ current' = current + AlignUp(size)
    /\ residents' = residents \union {current}
    /\ pool' = InsertNew(pool, current, Block(current, AlignUp(size)))
    /\ NewTensor(id, current, size, "RESIDENT", "ready")
    /\ calls' = calls + 1
    /\ UNCHANGED <<kvOffsets, temp, heap, freeSet, pending, call, last, phase>>

(* Blocks reclaim_async(device) may free: nobody counts on them.           *)
Reclaimable == {o \in DOMAIN pending : pending[o].ref <= 0}

Fits(c, size) == c \in freeSet /\ c.size >= AlignUp(size)

Lowest(b) == b \in BagToSet(heap) /\ \A c \in BagToSet(heap) : b.off <= c.off

(* The bound on the range: an allocation begins when it is sure to end, at *)
(* the end of the range, in the free set or in the block collected first.  *)
Room(size) ==
    \/ current + AlignUp(size) <= Capacity
    \/ \E c \in freeSet : Fits(c, size)
    \/ /\ freeSet = {} /\ heap # EmptyBag
       /\ \A b \in BagToSet(heap) : Lowest(b) => b.size >= AlignUp(size)

(* allocate_memory of any other tensor up to the drain loop of collect,    *)
(* which looks at the pending blocks only when there is nothing else.  A   *)
(* node that stores keys or values allocates pages when it is built, and a *)
(* page that a later run is the first to reach while the schedule runs.    *)
AllocateBegin(id, size, type) ==
    /\ Idle /\ (type = "KV_CACHE" \/ phase = "build") /\ calls < MaxCalls
    /\ id \notin DOMAIN tensors /\ id = NewId
    /\ Room(size)
    /\ call' = {[id |-> id, size |-> size, type |-> type]}
    /\ calls' = calls + 1
    /\ IF freeSet = {} /\ heap = EmptyBag
       THEN \E S \in SUBSET Reclaimable :       \* events found complete
                /\ Push({Block(o, pending[o].size) : o \in S})
                /\ pending' = Erase(pending, S)
       ELSE UNCHANGED <<heap, pending>>
    /\ UNCHANGED <<current, residents, kvOffsets, temp, pool, freeSet, last, tensors, phase>>

(* The blocks of the free set that touch b from below and from above.      *)
Below(free, b) ==
    {c \in free : /\ c.off < b.off /\ End(c) = b.off
                  /\ \A d \in free : d.off < b.off => d.off <= c.off}
Above(free, b) ==
    {c \in free : /\ c.off >= b.off /\ c.off = End(b)
                  /\ \A d \in free : d.off >= b.off => c.off <= d.off}

(* collect puts a block in the free set, merged with its neighbours.       *)
PutFree(b) ==
    LET below == Below(freeSet, b)
        above == Above(freeSet, b)
    IN  \E lo \in IF below = {} THEN {b} ELSE below,
           hi \in IF above = {} THEN {b} ELSE above :
            freeSet' = InsertFree(freeSet \ (below \union above),
                                  Block(lo.off, End(hi) - lo.off))

(* Mutant: the block is read from the top of the heap and not popped. *)
MutPop(b) ==
    /\ ~ Idle
    /\ Lowest(b)
    /\ UNCHANGED <<current, residents, kvOffsets, temp, pool, heap, pending, call, tensors, phase, calls>>

Pop(b) ==
    /\ ~ Idle
    /\ Lowest(b)
    /\ heap' = heap (-) SetToBag({b})
    /\ UNCHANGED <<current, residents, kvOffsets, temp, pool, pending, call, tensors, phase, calls>>

(* The drained blocks in offset order: the first one, ...                  *)
CollectFirst(b) == Pop(b) /\ last = {} /\ last' = {b} /\ UNCHANGED freeSet

(* Mutant: a block that begins before the last one ends is adjacent, too.  *)
MutCollectAdjacent(b) ==
    /\ Pop(b)
    /\ \E l \in last : End(l) >= b.off /\ last' = {Block(l.off, l.size + b.size)}
    /\ UNCHANGED freeSet

(* ... one that begins where the last one ends, ...                        *)
CollectAdjacent(b) ==
    /\ Pop(b)
    /\ \E l \in last : End(l) = b.off /\ last' = {Block(l.off, l.size + b.size)}
    /\ UNCHANGED freeSet

(* ... one that begins inside the last one, which is dropped with an error *)
(* message, ...                                                            *)
CollectOverlapping(b) ==
    /\ Pop(b)
    /\ \E l \in last : End(l) > b.off /\ l.off < b.off
    /\ UNCHANGED <<freeSet, last>>

(* ... any other one, and the end of the list.                             *)
CollectApart(b) ==
    /\ Pop(b)
    /\ \E l \in last : /\ End(l) # b.off
                       /\ ~ (End(l) > b.off /\ l.off < b.off)
                       /\ PutFree(l)
    /\ last' = {b}

CollectEnd ==
    /\ ~ Idle
    /\ heap = EmptyBag
    /\ \E l \in last : PutFree(l)
    /\ last' = {}
    /\ UNCHANGED <<current, residents, kvOffsets, temp, pool, heap, pending, call, tensors, phase, calls>>

Collected == ~ Idle /\ heap = EmptyBag /\ last = {}

(* update_used_mem_pool: the offset is now a KV page's or a tensor's.      *)
NoteType(type, offset, actual) ==
    IF type = "KV_CACHE"
    THEN kvOffsets' = kvOffsets \union {offset} /\ UNCHANGED temp
    ELSE temp' = Assign(temp, offset, actual) /\ UNCHANGED kvOffsets

(* Mutant: the rest of a block that is split keeps the size of the whole. *)
MutAllocateFromFree(c) ==
    /\ Collected
    /\ \E a \in call :
         LET actual == AlignUp(a.size) IN
         /\ Fits(c, a.size) /\ \A d \in freeSet : Fits(d, a.size) => c.off <= d.off
         /\ NoteType(a.type, c.off, actual)
         /\ freeSet' = IF c.size >= actual + Alignment
                       THEN InsertFree(freeSet \ {c}, Block(c.off + actual, c.size))
                       ELSE freeSet \ {c}
         /\ NewTensor(a.id, c.off, a.size, a.type, "placed")
    /\ call' = {}
    /\ UNCHANGED <<current, residents, pool, heap, pending, last, phase, calls>>

(* First fit: the rest of a block goes back if it is big enough.           *)
AllocateFromFree(c) ==
    /\ Collected
    /\ \E a \in call :
         LET actual == AlignUp(a.size) IN
         /\ Fits(c, a.size) /\ \A d \in freeSet : Fits(d, a.size) => c.off <= d.off
         /\ NoteType(a.type, c.off, actual)
         /\ freeSet' = IF c.size >= actual + Alignment
                       THEN InsertFree(freeSet \ {c}, Block(c.off + actual, c.size - actual))
                       ELSE freeSet \ {c}
         /\ NewTensor(a.id, c.off, a.size, a.type, "placed")
    /\ call' = {}
    /\ UNCHANGED <<current, residents, pool, heap, pending, last, phase, calls>>

(* Nothing fits: the range grows, and only now the pool learns the size.   *)
AllocateAtEnd ==
    /\ Collected
    /\ \E a \in call :
         LET actual == AlignUp(a.size) IN
         /\ \A c \in freeSet : ~ Fits(c, a.size)
         /\ current + actual <= Capacity
         /\ current' = current + actual
         /\ IF a.type = "KV_CACHE"
            THEN kvOffsets' = kvOffsets \union {current} /\ UNCHANGED temp
            ELSE temp' = InsertNew(temp, current, actual) /\ UNCHANGED kvOffsets
         /\ pool' = InsertNew(pool, current, Block(current, actual))
         /\ NewTensor(a.id, current, a.size, a.type, "placed")
    /\ call' = {}
    /\ UNCHANGED <<residents, heap, freeSet, pending, last, phase, calls>>

-----------------------------------------------------------------------------
(* aquire_memory: the first call enters the block with a count of zero.    *)
AquireMemory(offset, size) ==
    IF offset \in residents
    THEN UNCHANGED pending
    ELSE IF offset \in DOMAIN pending
    THEN pending' = [pending EXCEPT ![offset].ref = @ + 1]
    ELSE pending' = InsertNew(pending, offset,
                              [size |-> size, ref |-> 0])

RefRoom(offset) == offset \in DOMAIN pending => pending[offset].ref < MaxRef

(* get_ptr_by_offset, the second half of allocate_memory: the block is     *)
(* aquired with the size the pool has for its offset, which operator[]     *)
(* enters as an empty block when there is none.                            *)
GetPtr(id) ==
    /\ Idle
    /\ id \in DOMAIN tensors /\ tensors[id].stage = "placed"
    /\ RefRoom(tensors[id].off)
    /\ LET offset == tensors[id].off IN
         /\ pool' = InsertNew(pool, offset, Block(0, 0))
         /\ AquireMemory(offset, pool'[offset].size)
    /\ tensors' = [tensors EXCEPT ![id].stage = "ready"]
    /\ UNCHANGED <<current, residents, kvOffsets, temp, heap, freeSet, call, last, phase, calls>>

(* GraphNode::forward of a consumer aquires its input, and lists it among  *)
(* what it will release, unless it has listed the same tensor already or   *)
(* its input is a VIEW.                                                    *)
Aquire(id) ==
    /\ Idle /\ phase = "build"
    /\ id \in DOMAIN tensors /\ tensors[id].stage = "ready"
    /\ tensors[id].type # "KV_CACHE" /\ tensors[id].uses < MaxUses
    /\ RefRoom(tensors[id].off)
    /\ AquireMemory(tensors[id].off, tensors[id].size)
    /\ tensors' \in {tensors, [tensors EXCEPT ![id].uses = @ + 1]}
    /\ UNCHANGED <<current, residents, kvOffsets, temp, pool, heap, freeSet, call, last, phase, calls>>

(* Mutant: release_memory does not ask whether the offset is a weight's. *)
MutReleaseMemory(offset) ==
    IF offset \in kvOffsets
    THEN UNCHANGED <<heap, pending>>
    ELSE IF offset \in DOMAIN pending
    THEN LET ref == pending[offset].ref - 1 IN
         \/ /\ ref = 0
            /\ Push({Block(offset, pending[offset].size)})
            /\ pending' = Erase(pending, {offset})
         \/ /\ pending' = [pending EXCEPT ![offset].ref = ref]
            /\ UNCHANGED heap
    ELSE IF offset \in DOMAIN pool
    THEN Push({pool[offset]}) /\ UNCHANGED pending
    ELSE UNCHANGED <<heap, pending>>

(* release_memory.  With no consumer left the block goes to the heap, if   *)
(* the events are found complete.                                          *)
ReleaseMemory(offset) ==
    IF offset \in residents \union kvOffsets
    THEN UNCHANGED <<heap, pending>>
    ELSE IF offset \in DOMAIN pending
    THEN LET ref == pending[offset].ref - 1 IN
         \/ /\ ref = 0
            /\ Push({Block(offset, pending[offset].size)})
            /\ pending' = Erase(pending, {offset})
         \/ /\ pending' = [pending EXCEPT ![offset].ref = ref]
            /\ UNCHANGED heap
    ELSE IF offset \in DOMAIN pool
    THEN Push({pool[offset]}) /\ UNCHANGED pending
    ELSE UNCHANGED <<heap, pending>>

(* op_after_hook of a consumer releases its input, in every run anew: it   *)
(* was aquired once, when the schedule was built, and may have gone to the *)
(* heap or to another tensor in an earlier run.                            *)
Release(id) ==
    /\ Idle
    /\ id \in DOMAIN tensors /\ tensors[id].due > 0
    /\ BagCardinality(heap) < MaxHeap
    /\ tensors[id].off \in DOMAIN pending => pending[tensors[id].off].ref > - MaxRef
    /\ ReleaseMemory(tensors[id].off)
    /\ tensors' = [tensors EXCEPT ![id].due = @ - 1]
    /\ UNCHANGED <<current, residents, kvOffsets, temp, pool, freeSet, call, last, phase, calls>>

(* No allocation is on its way, and no consumer is still to end.           *)
Quiet ==
    /\ Idle
    /\ \A id \in DOMAIN tensors : tensors[id].stage # "placed" /\ tensors[id].due = 0

(* run() of the schedule: every consumer will end once.                    *)
StartRun ==
    /\ Quiet
    /\ phase' = "run"
    /\ tensors' = [id \in DOMAIN tensors |-> [tensors[id] EXCEPT !.due = tensors[id].uses]]
    /\ UNCHANGED <<mem, call, last, calls>>

(* build_task_schedule clears the task flow of the schedule before: what   *)
(* the new one does not keep is released no more, nor given back.          *)
ClearSchedule ==
    /\ Quiet /\ phase = "run"
    /\ phase' = "build"
    /\ tensors' = [id \in {i \in DOMAIN tensors : tensors[i].type # "WORKSPACE"} |->
                     [tensors[id] EXCEPT !.uses = 0]]
    /\ UNCHANGED <<mem, call, last, calls>>

(* reclaim_memory: all workspace goes to the heap.  The graph builder that *)
(* calls it gives up the tensors built so far; consumers that are built    *)
(* already will still release them, in every run.                          *)
ReclaimMemory ==
    /\ Idle /\ phase = "build"
    /\ BagCardinality(heap) < MaxHeap
    /\ \A id \in DOMAIN tensors : tensors[id].stage # "placed"
    /\ Push({Block(o, temp[o]) : o \in DOMAIN temp})
    /\ temp' = << >>
    /\ LET gone == {id \in DOMAIN tensors : tensors[id].type = "WORKSPACE"}
       IN  tensors' = Erase([id \in DOMAIN tensors |->
                               IF id \in gone THEN [tensors[id] EXCEPT !.stage = "reclaimed"]
                               ELSE tensors[id]],
                            {id \in gone : tensors[id].uses = 0})
    /\ UNCHANGED <<current, residents, kvOffsets, pool, freeSet, pending, call, last, phase, calls>>

Collect ==
    \/ \E b \in BagToSet(heap) :
         \/ CollectFirst(b)
         \/ CollectAdjacent(b)
         \/ CollectOverlapping(b)
         \/ CollectApart(b)
    \/ CollectEnd
    \/ \E c \in freeSet : AllocateFromFree(c)
    \/ AllocateAtEnd

Next ==
    \/ \E id \in Ids, size \in Sizes :
         \/ AllocateResident(id, size)
         \/ AllocateBegin(id, size, "WORKSPACE")
         \/ AllocateBegin(id, size, "KV_CACHE")
    \/ Collect
    \/ \E id \in Ids : GetPtr(id) \/ Aquire(id) \/ Release(id)
    \/ ReclaimMemory
    \/ StartRun
    \/ ClearSchedule

Spec == Init /\ [][Next]_vars

(* An allocation gets through its collect loop: the thread that holds the  *)
(* mutex waits for nothing.                                                *)
FairSpec == Spec /\ WF_vars(Collect)

-----------------------------------------------------------------------------
Offsets == 0 .. Capacity
Blocks  == [off : Offsets, size : Offsets]
TensorRecords == [off : Offsets, size : Sizes, type : Types, stage : Stages,
                  uses : 0 .. MaxUses, due : 0 .. MaxUses]

(* Whatever the order of calls, every offset and block in use lies between *)
(* 0 and the bound on the range, behind splits, merges and reclaims too.   *)
TypeOK ==
    /\ current \in Offsets
    /\ residents \subseteq Offsets
    /\ kvOffsets \subseteq Offsets
    /\ DOMAIN temp \subseteq Offsets /\ \A o \in DOMAIN temp : temp[o] \in Offsets
    /\ DOMAIN pool \subseteq Offsets /\ \A o \in DOMAIN pool : pool[o] \in Blocks
    /\ IsABag(heap) /\ BagToSet(heap) \subseteq Blocks
    /\ freeSet \subseteq Blocks
    /\ DOMAIN pending \subseteq Offsets
    /\ \A o \in DOMAIN pending : pending[o] \in [size : Offsets, ref : Int]
    /\ call \subseteq [id : Ids, size : Sizes, type : Types]
    /\ last \subseteq Blocks
    /\ DOMAIN tensors \subseteq Ids
    /\ \A id \in DOMAIN tensors : tensors[id] \in TensorRecords
    /\ phase \in {"build", "run"}
    /\ calls \in 0 .. MaxCalls

(* Every block that an allocation could be given, now or after it has been *)
(* released or reclaimed.                                                  *)
Reusable ==
    freeSet \union BagToSet(heap) \union last
      \union {Block(o, temp[o]) : o \in DOMAIN temp}
      \union {Block(o, pending[o].size) : o \in DOMAIN pending}

Disjoint(a, b) == End(a) <= b.off \/ End(b) <= a.off
TensorBlock(id) == Block(tensors[id].off, tensors[id].size)

(* Weights stay in memory and are not part of the reclaim and reuse of     *)
(* blocks (MemManager.cpp:37): whatever is released, reclaimed and merged, *)
(* no reusable block, no other tensor and no other weight ever reaches     *)
(* into a weight.                                                          *)
ResidentSafe ==
    \A r \in residents :
        /\ \A b \in Reusable : Disjoint(b, pool[r])
        /\ \A id \in DOMAIN tensors :
             tensors[id].type # "RESIDENT" => Disjoint(TensorBlock(id), pool[r])
        /\ \A q \in residents : q # r => Disjoint(pool[q], pool[r])

(* Blocks never grow past the end of the range, behind which there is no   *)
(* memory mapped: merging never invents memory.                            *)
InsideRange ==
    /\ \A b \in Reusable : End(b) <= current
    /\ \A id \in DOMAIN tensors : End(TensorBlock(id)) <= current

(* Two tensors that callers still use never share memory: what lifetime    *)
(* based reuse of memory is to keep up.                                    *)
NoLiveOverlap ==
    \A i, j \in {id \in DOMAIN tensors : tensors[id].stage # "reclaimed"} :
        i # j => Disjoint(TensorBlock(i), TensorBlock(j))

(* Every allocation leaves the collect loop.                               *)
AllocationReturns == []<>Idle

=============================================================================
