# TFFInfer: a TLA+ model

TFFInfer is a C++/CUDA inference engine for large language models: it loads a
GGUF file, builds an operator graph, gives it memory, and runs it once for the
prompt (prefill) and once for every further token (decode), with the keys and
values of earlier tokens in a paged cache. This directory holds TLA+ models of
its runtime, the TLC runs that check them and TLAPS proofs about them.
Paths below are relative to the repository; `runtime/` is `src/core/runtime/`.

## 1. The system

| Part | State | Operations | What makes it correct |
|---|---|---|---|
| Paged KV cache, `runtime/KVCache.*` | free list and `_is_used` of pages; page table and token count of each (sequence, layer) | `set_kv`, `clear`, `get_context`, `get_location` | a page has one owner; nothing is lost or handed out twice; a token keeps its slot |
| Memory manager, `runtime/MemManager.*` | end of the range, pool, heap of released blocks, free set, pending blocks with counts and events, offsets of weights, KV pages and workspace | `allocate_memory`, `aquire_memory`, `release_memory`, `reclaim_memory`, `collect` | weights are never touched; blocks stay in the range; tensors in use do not overlap; allocations return |
| Inference runtime, `runtime/InferRuntime.cu` | batches, the two graphs, graph context (`_n_tokens`, `_pre_token_num`, `_seq_id`) | `encode`, `infer`, `prefill`, `decode`, `update_kv_cache` | attention sees exactly the tokens so far, in their order; `infer` returns |
| Batch manager, `runtime/BatchManager.*` | sequences, main batch, ubatches | `init`, three splits | every token is in one ubatch or in a shared prefix that is in the cache |
| Task graph, `runtime/TaskFlowManager.cu`, `src/taskgraph/` | a task flow per type, node to task | `build_task_schedule`, `run` | a kernel starts after the kernels of its inputs; runs do not overlap |
| Graph, `src/core/graph/` | nodes, inputs and outputs, use counts, lifetimes | `build_graph`, `visit`, `analyze_lifetimes`, `forward` | inputs first, nothing unreached, nothing left of the last build |
| Optimizer, `runtime/GraphOptimizer.*`, `runtime/MemOptStrategy.*` | the graph's edges and parameters, `_layer_device_map` | `device_placement_opt`, `fuse`, `fuse_same_node`, `mem_opt` | the graph computes what it did; every operand is ordered, at hand and not yet overwritten |
| Devices, `src/core/device/` | mapped virtual range, streams, events | `allocate_vvm`, `wait_event`, `record`, `query` | the range is mapped up to the end in use |
| Model creators, `src/core/model/` | graph context | one function per sub graph | the store and attention nodes of a layer agree |
| Tokenizer, `src/core/model/LLMTokenizerBase.*`, `LLMVocabulary.*` | linked symbols, work queue of pairs, ranks of merges | `tokenize` and its five steps | it merges what byte pair encoding merges; no character is lost |
| Loader, sampler, kernels, factories, log | files, tables | parse, sample, compute, register | see PROJECT.json for why they are left out for now |

How they interact: `encode` makes the contexts in the cache and the batches;
`prefill` and `decode` fill the input tensors, let the model creator build a
graph on first use (its store nodes call `set_kv` while being built), let the
optimizer rewrite it, and let the task flow manager turn it into tasks.
`GraphNode::forward` runs then, once per node: it allocates the node's output
and aquires its inputs in the memory manager. When a task runs, it waits for
the events of its inputs, launches, records its own event and releases its
inputs (`op_before_hook`, `op_after_hook`). KV pages get their buffers from the
same memory manager on first use, out of the block that the page manager
reserved and released at the start.

What is hard: page allocation interleaves between contexts; memory is reused on
the word of counts and events that several parties keep; graphs outlive the
batch they were built for; counts in the graph context are carried from one
call to the next; host order and device order differ; passes over the graph
rewrite the lists other passes, and they themselves, go through; memory is
reclaimed while a schedule is made, on the word of the order it will impose.

## 2. Modules

| Module | Models |
|---|---|
| `TokenStore` | what the cache promises: contexts are growing lists of slots that nobody else holds |
| `KVCache` | `PageManager`, `LayerKVContext`, `LLMKVCache`, with the steps at which their mutexes are free |
| `KVCacheProofs` | the inductive invariant of `KVCache`, its four invariants as theorems, and that it implements `TokenStore` |
| `MemManager` | `LLMMemManager` for one device, with the calls that nodes make while a schedule is built and in each of its runs |
| `MemManagerProofs` | its inductive invariant and three invariants as theorems |
| `InferRuntime` | `infer` as the cache sees it: batches, graph builds, the schedule, runs, `update_kv_cache` |
| `InferProofs` | its type invariant for any batches; for one sequence, its inductive invariant and two properties as theorems |
| `BatchManager` | `LLMBatchManager`: prefix sharing and the three splits |
| `BatchProofs` | its inductive invariant and its four invariants as theorems |
| `TaskGraph` | `LLMTaskFlowManager`, `HybridScheduler`, the task hooks, streams and events |
| `TaskGraphProofs` | its inductive invariant and three invariants as theorems |
| `Graph` | `Graph`: nodes, input and output lists that come and go, `build_graph` |
| `GraphProofs` | its inductive invariant and four invariants as theorems |
| `ModelGraph` | the graph `QWen3Creator::build_graph` makes: nodes, inputs, tensors, devices, layer ids |
| `GraphOptimizer` | `GraphOptimizer`, `MemOptStrategyBase` on that graph, and the edges of `build_task_schedule`; extends `Graph` |
| `GraphOptimizerProofs` | what the passes do to any model's graph, as lemmas, and two of its invariants as theorems |
| `BPE` | byte pair encoding by its definition |
| `Tokenizer` | `LLMTokenizerBPE`, shown to implement `BPE` |
| `TokenizerProofs` | its inductive invariants, its four invariants as theorems, and that it implements `BPE` |
| `MCBatchManager`, `MCTaskGraph`, `MCGraphOptimizer`, `MCTokenizer` | prompts, a task graph, GPUs, texts and merges for TLC |

**KVCache.** One action per critical section. `SetKV` is the call up to its
loop, `AppendInPage`, `AppendNewPage` and `AppendFails` are the three ways one
turn of the loop goes, `ClearBegin` ... `ClearEnd` are the walk of `clear` under
the global mutex, one page at a time because `free` takes only the page
manager's mutex. Two calls never work on the same context at once: the code has
no lock for that and `infer` does not do it; nothing in `src/` calls `clear`,
which is modelled as the public operation it is, not concurrent with a `set_kv`
of the same sequence (the raw context pointer would dangle). `get_k` and
`get_v` change the cache only by binding a buffer to a page; that allocation is
a KV_CACHE allocation of `MemManager`.

**MemManager.** Offsets are numbers, blocks are (offset, size). An allocation is
`AllocateBegin` (lock, ask for completed blocks), the loop of `collect`, one
action per case of its body (`CollectFirst`, `CollectAdjacent`,
`CollectOverlapping`, `CollectApart`, `CollectEnd`), then `AllocateFromFree` or
`AllocateAtEnd`; `call` holds the mutex meanwhile. `GetPtr` is the second
critical section of `allocate_memory`. The heap compares `_free_time`, which is
0 for every block, so it is a bag; `collect` sorts what it drains, and blocks
with one offset come in any order. Whenever the events of a block are asked for
they may be complete or not: a node's event is recorded anew in every run, and
one that was never recorded counts as complete, as `cudaEventQuery` has it.

The callers have two phases. While a schedule is built, `GraphNode::forward`
allocates a node's output and aquires each input (`Aquire`), which it lists among
the tensors to release unless it is the output of a VIEW or is listed already, so
a tensor may be aquired more often than it is listed. A MEM_RECYCLE node calls
`reclaim_memory`. The schedule is then run any number of times (`StartRun`): in
every run each consumer releases what it lists (`Release`), `due` being those
still to end. Nothing is aquired again, so from the second run on counts go below
zero, and blocks are pushed again that are on the heap, free, or another
tensor's by now. The properties are to hold all the same, but for
`NoLiveOverlap` (section 5). Pages are allocated when a store node is built and
in the run that reaches them first, beside the releases. A run ends before the
next begins or the schedule is cleared for another (`Quiet`, which
`RunIsComplete` of `TaskGraph` justifies). The CPU device, whose sizes are not
rounded, and the operations nothing calls are left out.

**InferRuntime.** A context is its token count and the rows stored; of the
pages only the number of free ones is kept. A graph is what its nodes have baked in: the sequence and the
number of rows. `Run` is the effect of all store nodes of the schedule
(`set_of_rows`), page by page. The end of generation may come after any step
(`EndDecode`), since tokens are not modelled.

**BatchManager.** `Sort`, one `Link` for each round of the loop over prompts,
then one of the splits, chosen by `split` as the argument of `init` does. A
prompt is what `tokenize` returns for it; a token outside the vocabulary makes
`init` return false. What `std::sort` leaves open (equal lengths) and the order
in which an `unordered_map` is walked are nondeterministic. `encode` always asks
for the split by sequence; the other two are modelled as the public options they
are.

**TaskGraph.** One host task per node, in the phases of the callback's wrapper:
`BeforeHook` (the waits), the computation, `AfterHook` (the record). A device
node only enqueues (`Enqueue`), and its stream starts and ends the kernel later
(`KernelStart`, `KernelEnd`); a CPU node computes in its task (`Compute`,
`Computed`); the CPU's MEM_CPY is a `cudaMemcpy` on the legacy default stream,
which the blocking streams of `DeviceCUDA` order after everything they were
given before (`CallMemcpy`, `Copy`). An event is a counter: the kernel it was
last recorded after; a wait takes its value at the call, so waiting for an event
of the run before is in the model. That the legacy stream also delays kernels
enqueued after the copy is left out, which only adds behaviours. The constants'
assumptions are what the graph builder and `device_placement_opt` provide: copies
where an edge leaves the device, and every node reachable from the output.
The release of inputs in `op_after_hook`, once per input and run, is `Release` of
`MemManager`.

**Graph.** The recursion of `visit` is a stack of calls; one action each for
descending into an input, for what the loop does when that call has returned,
and for the end of a call (`Descend`, `UseInput`, `Finish`). `clear` reaches the
nodes of the last build and those added since, not those an edit has cut off:
that is why edges come and go between builds here (`Edit`, which keeps the graph
acyclic as every caller does, and `AddNode`). Callers enter readers in output
lists too, of any node and without regard to who is listed, and take them out (`AddOutputNode`,
`RemoveOutputNode`): `insert_input_node` enters the reader in the list of a copy
that no build has reached, so that `clear` leaves it there and the next build
lists the reader a second time (GraphOptimizer.cpp:369 and :31). What a build
promises of output lists is `ReadersListed`: it has entered each reader once, the
use count is their number, and in front stands no more than callers have put
there. `has_cycle`, `remove_node` and
`get_node_index` have no caller that changes a graph; the lifetimes are read by
`build_mem_offset` only, which no path of a run reaches.

**ModelGraph, GraphOptimizer.** `ModelGraph` is data: what each node of a layer
reads, under which parameter names, and on which device its tensor starts
(`bind_device` splits layers by free memory). `GraphOptimizer` walks it, one
action per node and pass: `Build`, `Place` (forward, then backward), `Copy`,
`Fuse`, `KeepNode` or `Recycle`, `Build` again, then `Schedule`. Edges,
parameters of kernels (`params`), what a node remembers of them (`known`, the
`_tensor_param_map` of its last `shape_infer`) and fused nodes are kept apart,
because the code updates them apart. `NextToken` is the second graph, made with
the mask of the first. The names of tensors are those of the nodes that compute
them; two copies, two recycling nodes and two rope tables have the same name as
`add_input_node` compares them. A kernel's device is its tensor's. After
`mem_opt` has grown the vector it walks, the outcome may be undefined
(`pass = "undefined"`); nothing is claimed there. `fuse_quant_node` and
`elimination_dead_code` are not called.

**Tokenizer.** A symbol is its text and its two links; index 0 stands for -1.
`MergeTuple` and `SkipTuple` are the two ways a turn of the loop of `merge_tuple`
goes. A character is a model value, `Wide` has those of several bytes (a wide
character's bytes are no tokens of their own here). Ranks are the places in the
list of merges, the first one for a pair that comes twice, as `emplace` has it.
The queue is a set: a pair of symbols is entered twice only with different text.
The split of a text into words by regular expressions is left to the argument.

Names follow the source (`aquire`, `_pre_token_num`). A definition `MutX`
stands before `X` and is `X` with a plausible mistake; each checked property
has one that violates it.

## 3. Runs

| Run | Instance | Shows |
|---|---|---|
| `kv_cache` | 2 sequences, 2 layers, 3 pages of 2 tokens, calls of up to 2 tokens | type, free list, ownership, page tables; refinement of `TokenStore`; calls return |
| `mem_manager` | 3 tensors of 1 or 3 bytes, alignment 2, range of 8 with 4 for KV pages, 4 allocations, any number of runs and schedules | type, weights safe, blocks inside the range; allocations return |
| `infer_single` | 3 layers, prompts of 2 to 7 tokens, pages of 3, up to 5 steps | attention sees its context; each step adds one token; `infer` returns |
| `batch_manager` | 3 prompts from 10 token lists, 3 splits, batches of 2 | every token computed once, prefixes shared once, order kept |
| `task_graph` | 10 nodes (5 on the device, 3 copies, 2 on the host), 2 workers, 2 runs | kernels find their inputs; `run` is complete and returns |
| `graph` | 3 nodes with up to 2 inputs each and an output entered by callers, any number of builds | order, nothing unreached, readers and use counts; the build returns |
| `graph_optimizer` | 3 layers; one GPU, two alike, two of 1 : 2; quantized or not, fp16 or not, prefill and decode | the model's meaning, order and place of operands, reclaims |
| `tokenizer` | texts of up to 6 letters and of two words, 3 of 6 merges | refinement of `BPE`; links, queue, spelling; `tokenize` returns |
| `mem_overlap`, `infer_one_token`, `infer_two_seqs`, `batch_every_sequence` | | disagreements, section 5 |

Why the bounds are enough. *KV cache*: three pages for four contexts make the
pool run dry in the middle of a call, and two tokens to a page make calls start
and end at, before and after a boundary. *Memory*: sizes below and above the
alignment give blocks of one and two units. The range is twice the KV block: a
weight of either size leaves it and there is room to grow once more, so that the
KV block is split, its parts released, merged and handed out again, and blocks at
the grown end are, with a weight behind them or between them and the KV block.
Four allocations are a weight and three tensors or pages, over
several schedules, three alive at a time. Tensors are alike, so that a new one
takes the first free id (`NewId`).
`MaxUses`, `MaxRef`, `MaxHeap`, `MaxCalls` and `Capacity` bound counters
that the code leaves unbounded; the proofs do without small values.
*Inference*: every prompt length around one, two and three page boundaries,
with decode crossing the next. One-token prompts and further sequences are
runs of their own, because there the code does something else.

*Batches*: the token lists include the empty one, lists that are prefixes of
others, equal ones (each prompt is any of the ten), a finished one with a longer
list behind it, and one with a token outside the vocabulary; three prompts give
chains of parents, two to a batch make both limits bite. *Tasks*: a host input,
a node without inputs, a join of two streams, three kernels that do not depend on
each other and a copy of each: both workers can be in copies while tasks of
kernels and the third copy are ready and wait for a worker. In the mutant
`MutCallMemcpy` a copy waits for kernels that have not been enqueued, and this
makes it hang; with four workers it would not. A second run is enough to meet
events, kernels and results of the run before.

*Graph*: three nodes suffice for two readers of one node, a chain that is also
read directly, and nodes that leave and come back between builds; one entry made by
a caller is enough for a reader listed twice. `MaxOutputs` bounds these entries;
the proofs do without the bounds. *Optimizer*: three layers give a first, a middle and a last one, and
the boundary of two GPUs behind the first or in the middle; every layer is alike
otherwise. The graph has over a hundred nodes, so the run is one path per
setting, but for the choice at the end of `mem_opt`. *Tokenizer*: the six merges
overlap at their ends in every way (`ab`, `ba`, `aa`, and pairs of merged
strings), so tuples go out of date through either neighbour; one list has a pair
twice, one character is wide, and two words share the queue.

What the runs of the optimizer say of two GPUs: meaning, order and the map of
layers hold; `ReclaimSafe` and `HandedOnInPlace` are claims about one. With two,
the recycling node at the boundary reclaims the first GPU's memory while its last
layer may still be read there, and later layers read mask and rope table from the
first GPU without a copy. The documents list several GPUs as open
(docs/TFFInfer-1.md:1418), so this is a limit noted here and no finding. Copies
keep what `insert_input_node` entered in their output lists: the last build, which
empties only the lists of nodes the first had reached, adds the readers once
more, and a reader that was fused away stays. Nothing reads output lists after
that build.

Fairness. `KVCache`: weak fairness of the steps inside a call (the thread that
entered `set_kv` or `clear` goes on; its loops wait for nothing but a mutex that
is released after one step). `MemManager`: weak fairness of the steps of an
allocation under its mutex. `InferRuntime`: weak fairness of the thread of
`infer`. `Graph`, `Tokenizer`: weak fairness of the one thread that has called
`build_graph` or `tokenize` and does nothing else before it returns.
`TaskGraph`: weak fairness of each node's task (an executor's worker takes a task
that is ready and goes on with it), of each stream (the device works on what is
enqueued) and of the caller that waits in `run`. Nothing makes a caller call.
`CHECK_DEADLOCK FALSE` in the memory runs: callers may stop, and the
bounds may leave no call possible; and in `graph_optimizer`: nothing follows the
undefined end.

## 4. Proofs

TLAPS proves for every value of the constants (under the named assumptions in
the modules: positive sizes, page size, alignment and layer count):

* `KVCacheProofs`: `TypeCorrect`, `FreeListCorrect`, `PagesExclusive`,
  `TokensFit`, and `KeysDiffer` (`make_key` is injective for 16-bit ids). The
  invariant `IInv` is the conjunction of the four properties with two facts the
  steps need: only existing contexts have pages or tokens, and the progress of
  `clear` lies inside the page table it works on. Exclusive ownership is not
  inductive alone: a page popped from the free list is nobody's only because
  the free list holds unused pages, each once.
  `CacheImplementsStore`, by `SlotOf`: a context that
  `clear` has begun to free has no slots any more. The arithmetic core is that
  a token index splits into page and offset in one way, so different tokens have
  different slots when pages are exclusive.
* `MemManagerProofs`: `TypeCorrect`, `WeightsAreSafe`, `BlocksStayInside`. A
  block is *good* when it lies below the end of the range and clear of every
  weight; `IInv` says that all reusable blocks and all tensors are good, that
  weights are apart, and that a pending allocation is no weight's. Nothing in it
  counts on a block being released once: a release pushes a block that was good
  when it was allocated, and it stays good, whoever has it by now. Merging two good
  blocks that touch gives a good block, because a weight has positive size and
  cannot lie in a gap of none; that is why weights survive even the overlapping
  and doubled blocks the heap can hold.

* `TaskGraphProofs`: `TypeCorrect`, `InputsAreReady`, `RunsAreComplete`, for any
  graph, number of workers and of runs. `IInv` counts how often each node was
  started and done at every phase of its task (`Started`), says that a task that
  has begun comes after its inputs' tasks (`Ordered`), that what a kernel or a
  copy waits for is the inputs' kernels of this very run (`Awaited`), and that a
  node whose computation is done has inputs that are done (`Reads`). Nobody waits
  for most kernels on the host: that they are over when `run` returns follows
  from `Reads` alone, as the set of finished nodes contains the output and is
  closed under inputs, hence (`ReachedAssumption`) the whole graph. The run mutant
  in which the copy does not wait breaks exactly this.

* `GraphProofs`: `TypeCorrect`, `InputsComeFirst`, `NothingElse`, for every set
  of nodes and bound on inputs. The invariant says that the stack is a path of
  readers, that a visited node is either on it or finished with all its inputs
  before it in the list, and that every node finished or on the stack above the
  first is read by one below it or by a later one. What makes `Descend` safe is
  acyclicity, from which it follows that an input that is visited but not
  finished would close a cycle with the stack; `Acyclic` is stated over sets of
  nodes, so that this needs no induction over paths.
  `ReadersAreListed` has an invariant of its own, `OInv`: among the last entries
  of an output list, as many as the use count, a node stands exactly when its call
  has passed the input, and once. The entries in front are the callers', never a
  build's: a node with a use count is in the list that the next `clear` goes
  through, so what the build entered is gone by the next one.
* `BatchProofs`: `TypeCorrect`, `PrefixesComputedOnce`, `AllPromptsCovered`,
  `OrderIsKept`, for every list of prompts, vocabulary and limits. `BatchInv`
  says what `init` has done up to `at`: the rows of a linked sequence are there
  from `shared` on and in order (`RowsOK`), its parent was linked before it,
  has its first `shared` tokens and was not finished (`LinksOK`). A prefix is
  computed once because an earlier unfinished sequence is a candidate when a
  later one is linked, so that the later one shares no less with it. Each split
  is a bijection from the places of the ubatches to the rows of the main batch
  (`Distributed`) that is increasing on the rows of a sequence. For
  `PromptsCovered`, take a token without an owner that comes first in the order
  of links: the sequence it belongs to does not compute it, so its parent has
  it, and the parent comes before. The order of lists that `std::sort` and
  `std::map` make is the operator `InOrder`, whose facts are proved from the
  ranks of the elements.
* `TokenizerProofs`: `TypeCorrect`, `LinksHold`, `QueueHolds`, `TokensAreTheText`
  and the refinement `TokenizerImplementsBPE`, for every text, list of merges and
  vocabulary. `IInv`: a tuple is *sound* when it is fresh, or one of its symbols is
  empty, or its two symbols together are longer than its text; texts only grow
  while they are not empty, so a tuple that has gone out of date never fits
  again, and the comparison of texts in `merge_tuple` catches every one. The
  other half, that no neighbours with a rank are missing, needs the links.
  `SInv` is for the spelling: what is done, at hand and still to come make up the
  text, for a merge moves a text to the left over empty symbols only; and every
  symbol is a token or has no wide character, so that `update` loses none. For
  the refinement each symbol gets a *place*, the number of nonempty symbols up
  to it (`Placing`). Neighbours by the links stand at places that follow each
  other (`Adjoining`); a merge joins two places and moves up those behind
  (`MergeIsJoin`). A merge that applies at a place has a tuple in the queue that
  is ranked no later (`AppliesQueued`), so a tuple taken from the top that is not
  stale is the merge of least rank, leftmost among equals, and when the queue is
  empty no merge applies: the steps of `BPE`. Tuples that are skipped stutter.
* `InferProofs`: `TypeCorrect` for any batches and any pool, one that runs dry
  included. `AttentionSound` and `StepsAddTokens` for every prompt length, page
  size, number of layers and steps, under two hypotheses on the constants. One
  sequence with a prompt of two tokens or more (`OneSequence`): with more
  sequences, or a prompt of one token, the properties are false (section 5). And a
  pool that has, in every layer, the pages of the prompt and `n_predict` + 1
  further tokens (`EnoughPages`): with the pool exhausted `set_kv` fails, nobody
  looks, and the properties are false too. `infer_single` satisfies both. `IInv`
  follows `infer`: how far the store nodes have got, two per layer with
  `_pre_token_num` between them, how far `update_kv_cache` has, that what is
  before the rows of the next run is stored, and how many pages each layer has
  taken; that the pool lasts is a consequence and no assumption. That a prefill stays
  in its pages is arithmetic on `Start`: it begins at row 0, so every batch of
  rows begins a page.

* `GraphOptimizerProofs`: `StoreOnDevice`, for every number of layers, any GPUs
  and free memory (`FreesAssumption`: there is a GPU, and each has some), each
  setting and every token. What it takes is that the map, which the code fills
  from the tensors of the store nodes while it makes copies, ends up total and
  says what `bind_device` said of the weights. The invariant `StoreInv` goes
  through the passes. Until copies are made the net is the model's, but for
  output lists and for tensors the model puts nowhere (`Early`): a step of
  `build_graph` writes output lists only, and `Place` moves only what is on no
  GPU. A list that has been built has the store nodes of every layer (`Whole`):
  it has the logits and with a node its inputs, and `Reached` leads from the
  logits down to every layer. While copies are made (`Copying`) a node still to
  be visited is as the model has it, because the copies for one node touch that
  node, its inputs' output lists and new nodes alone (`CopiesKept`, a loop over
  `CopyInput`); so a store node is found on its own device, under its own layer
  id, and the layers without an entry are those whose store node is still to
  come. Loops are recursive functions here; `Recursion` shows that they exist
  and `Folding`, `OneWay` and `CopyLoop` what holds after them.
* `GraphOptimizerProofs`: `OperandsHeld`, under the same assumptions. Its invariant
  `HandInv`, beside `StoreInv`, says of each pass what the next one needs. The
  first `build_graph` leaves lists that say who reads whom: a node is listed once
  by each input used, and a list that is finished ends with the output and the
  logits (`FirstBuild`, `OutsRight`, `Ended`, `EndCalls`). While nodes are placed
  (`Placing`), the backward sweep meets the output, which is on a GPU, before
  anything without a place (`Ahead`, `Located`), so that after it every node needs
  no GPU or is on one. While copies are made (`HandCopying`), only pairs of an
  input and a reader not come to yet may be on two devices (`Loose`, `Pairs`),
  and each `CopyInput` takes its pair out, whether it makes a copy or not
  (`CopiesFit`, `CopiedFits`, `NoCopyFits`). A second copy for the same reader of the same
  input would be dropped, as copies share their name; the reader then reads the
  first one, so the property does not suffer. Fusing and recycling keep what is
  at hand (`FuseNodeKeeps`, `RecycleKeeps`), and the second build reaches only
  nodes for which it holds (`Rebuilding`). `HeldMeans` derives the property from
  what is left (`Settled`).

On induction: the library's induction theorems take an operator as a parameter,
and no prover here instantiates one. Where a proof needs induction over numbers
it is stated of a set instead: a nonempty set of naturals has a least element
(from the well-foundedness of `<`), a bounded one a largest. `BatchProofs` begins
with these two facts; the order of links, of sorted lists and common prefixes
follow from them. `TokenizerProofs` proves the first again (`Least`) and from it
what `Concat`, a recursive function, makes of a list (`ConcatIs`): two functions
that go through the same steps agree, as they cannot differ for a first time.

Only model-checked: liveness (`CallsReturn`, `AllocationReturns`,
`InferReturns`, `RunReturns`, `BuildReturns`, `TokenizeReturns`), since fairness
and ENABLED are out of the prover's reach; and of `GraphOptimizer` what needs all
passes together: `MeaningKept`, `ReadsOrdered`, `ReclaimSafe`, `HandedOnInPlace`
and `InputsFirst`, which are checked on the graph of one model.

## 5. Disagreements the runs show

* `mem_overlap`: a tensor is pending with count 0 and an unrecorded event until
  its consumer aquires it, but the consumer first allocates its own output, or the
  pages it stores to; that allocation may reclaim the tensor. (Releasing in every
  run what was aquired once leads to the same end by another way: a block pushed
  in an earlier run is given to a page while the schedule still writes there.)
* `infer_one_token`: after a one-token prompt `set_kv(seq, layer, 1)` finds one
  token and does nothing; decode overwrites row 0 for ever.
* `infer_two_seqs`: graphs keep the sequence and the token count of the first
  batch.
* `batch_every_sequence`: a prompt that comes twice has no token of its own left
  and gets no batch; `infer` returns a string less than there are prompts.

Not a disagreement but worth knowing: `collect` looks at released blocks whose
events are complete only when there is no other free memory at all, so the range
may grow although one of them would have served.

## 6. Not modelled, and the plan

PROJECT.json lists every part with its status. Left out for good: the arithmetic
of kernels and quantization (floating point), the tables of unicode and names,
logging, the pages Doxygen generated under `docs/doxygen/html` (their scripts
and search indexes are no part of the engine, which is C++ and CUDA), and what
has no caller: CUDA graph capture, `has_cycle`, `fuse_quant_node`,
`release_kv_cache`, the allocation by lifetimes.

What could still be added, in this order:

1. Prefixes of `BatchManager` in `InferRuntime`: where the rows of a sequence with
   a parent go, and the position of its first sampled token.
2. `init_kvcache` and the device's virtual range: how many pages are reserved, the
   mapped range under `allocate_vvm` and its failure.
3. The llama creator beside the qwen3 one, and `GraphOptimizer` composed with
   `MemManager`: the offsets the schedule really hands out.
4. The offset arithmetic of the GGUF loader.
5. Proofs: `MeaningKept` of `GraphOptimizer`, pass by pass on the lemmas that
   are there; the refinement of an abstract run (all nodes once, in order) by `TaskGraph`.
