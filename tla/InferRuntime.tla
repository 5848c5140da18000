----------------------------- MODULE InferRuntime -----------------------------
(***************************************************************************)
(* LLMInferRuntime::infer on one device, as far as the KV cache sees it:   *)
(* for every batch (one sequence each) a prefill and a decode, whose       *)
(* graphs are built once and kept, the task schedule that holds one graph  *)
(* at a time, the store nodes that make room in the cache while a graph is *)
(* built and write their rows while it runs, and update_kv_cache, which    *)
(* makes room for the next token after every decode step.                  *)
(*                                                                         *)
(* A context is its number of tokens and the rows stored for them; free    *)
(* pages are counted (module KVCache models who owns which).  All calls are*)
(* made by the thread of infer, which waits for each run of a graph.       *)
(***************************************************************************)
EXTENDS Integers, FiniteSets

CONSTANTS NSeqs,          \* number of batches, one per sequence
          PromptLengths,  \* lengths a prompt may have
          NPredict,       \* n_predict
          NLayers,        \* _n_layer
          TotalPages,     \* KVConfig::_total_pages
          PageSize        \* PAGE_SIZE

ASSUME NSeqsAssumption    == NSeqs \in Nat \ {0}
ASSUME PromptsAssumption  == PromptLengths \subseteq Nat \ {0}
ASSUME NPredictAssumption == NPredict \in Nat \ {0}
ASSUME NLayersAssumption  == NLayers \in Nat \ {0}
ASSUME PagesAssumption    == TotalPages \in Nat
ASSUME PageSizeAssumption == PageSize \in Nat \ {0}

Layers == 0 .. NLayers - 1
Keys   == (0 .. NSeqs - 1) \X Layers
Rows   == 0 .. TotalPages * PageSize - 1
Modes  == {"prefill", "decode"}

VARIABLES
    prompt,       \* prompt[s]: tokens of the batch of sequence s
    seq,          \* the batch infer is at, NSeqs at the end
    mode,         \* _is_prefill
    pc,           \* where prefill or decode is
    pos,          \* _pos.front() of the tokens of the next run
    nTokens,      \* _graph_ctx._n_tokens
    preTokenNum,  \* _graph_ctx._pre_token_num
    built,        \* store nodes built so far by init_graph
    graphs,       \* _prefill_graph_ptr and _decode_graph_ptr, what their nodes hold
    schedule,     \* the graph in the task flow of TFF_TASK_TYPE_INFER
    step,         \* decode steps done
    todo,         \* layers update_kv_cache has still to visit
    count,        \* LayerKVContext::_num_tokens
    free,         \* _free_list.size()
    stored,       \* stored[k][i]: the token whose key and value are in row i
    spilled       \* a store node has written past the end of a page

cacheVars == <<count, free, stored, spilled>>
vars == <<prompt, seq, mode, pc, pos, nTokens, preTokenNum, built, graphs,
          schedule, step, todo, count, free, stored, spilled>>

NoToken == [seq |-> NSeqs, pos |-> 0]      \* never written, or not a token
NoGraph == [seq |-> NSeqs, rows |-> 0]

-----------------------------------------------------------------------------
(* LLMKVCache *)
PagesOf(n)  == (n + PageSize - 1) \div PageSize
Room(k)     == (free + PagesOf(count[k])) * PageSize - count[k]

(* Mutant: the test for "nothing to do" of set_kv is >=. *)
MutAfterSetKV(k, n) ==
    IF count[k] >= n THEN count[k]
    ELSE IF n <= Room(k) THEN count[k] + n ELSE count[k] + Room(k)

(* set_kv: nothing to do when the context has exactly n tokens, else n more *)
(* as long as there are pages.  No caller looks at the result.             *)
AfterSetKV(k, n) ==
    IF count[k] = n THEN count[k]
    ELSE IF n <= Room(k) THEN count[k] + n ELSE count[k] + Room(k)

SetKV(k, n) ==
    /\ count' = [count EXCEPT ![k] = AfterSetKV(k, n)]
    /\ free' = free - (PagesOf(AfterSetKV(k, n)) - PagesOf(count[k]))

-----------------------------------------------------------------------------
Init ==
    /\ prompt \in [0 .. NSeqs - 1 -> PromptLengths]
    /\ seq = 0 /\ mode = "prefill" /\ pc = "inputs"
    /\ pos = 0 /\ nTokens = 0 /\ preTokenNum = 0 /\ built = 0
    /\ graphs = [m \in Modes |-> NoGraph]
    /\ schedule = NoGraph
    /\ step = 0 /\ todo = {}
    /\ count = [k \in Keys |-> 0] /\ free = TotalPages
    /\ stored = [k \in Keys |-> [i \in Rows |-> NoToken]]
    /\ spilled = FALSE

Inputs == IF mode = "prefill" THEN prompt[seq] ELSE 1     \* tokens of the next run

(* build_inputs, and init_graph when there is no graph yet.  prefill makes *)
(* a new schedule in any case, decode only for a new graph.                *)
BuildInputs ==
    /\ seq < NSeqs
    /\ pc = "inputs"
    /\ IF graphs[mode] = NoGraph
       THEN /\ nTokens' = Inputs
            /\ built' = 0
            /\ pc' = "build"
            /\ UNCHANGED schedule
       ELSE /\ nTokens' = IF mode = "decode" THEN 1 ELSE nTokens
            /\ pc' = "run"
            /\ schedule' = IF mode = "prefill" THEN graphs[mode] ELSE schedule
            /\ UNCHANGED built
    /\ UNCHANGED <<prompt, seq, mode, pos, preTokenNum, graphs, step, todo, cacheVars>>

(* build_kv_cache_store_node, for the keys and then for the values of each *)
(* layer: _pre_token_num tells the second call that room has been made.    *)
StoreNode ==
    /\ pc = "build" /\ built < 2 * NLayers
    /\ LET k == <<seq, built \div 2>> IN
         IF preTokenNum = 0
         THEN /\ SetKV(k, nTokens)
              /\ preTokenNum' = count'[k]
         ELSE /\ preTokenNum' = 0
              /\ UNCHANGED <<count, free>>
    /\ built' = built + 1
    /\ UNCHANGED <<prompt, seq, mode, pc, pos, nTokens, graphs, schedule, step, todo,
                   stored, spilled>>

(* The graph is kept with the sequence and the number of tokens its nodes  *)
(* were built for, and is put in the schedule.                             *)
GraphBuilt ==
    /\ pc = "build" /\ built = 2 * NLayers
    /\ graphs' = [graphs EXCEPT ![mode] = [seq |-> seq, rows |-> nTokens]]
    /\ schedule' = graphs'[mode]
    /\ pc' = "run"
    /\ UNCHANGED <<prompt, seq, mode, pos, nTokens, preTokenNum, built, step, todo, cacheVars>>

(* set_of_rows: the rows of a run go to the last rows of the context, one  *)
(* page's worth at a time, each beginning where its first row belongs.     *)
First(k)   == count[k] - schedule.rows
Start(j)   == (j \div PageSize) * PageSize
InPage(k, j) == ((First(k) + Start(j)) % PageSize) + (j - Start(j)) < PageSize
Stores(k)  == k[1] = schedule.seq /\ First(k) >= 0
TokenAt(j) == IF j < Inputs THEN [seq |-> seq, pos |-> pos + j] ELSE NoToken
RowsOfRun  == 0 .. schedule.rows - 1

(* Mutant: the rows of a run go to the first rows of the context. *)
MutRun ==
    /\ pc = "run"
    /\ stored' = [k \in Keys |-> [i \in Rows |->
                    IF Stores(k) /\ i \in RowsOfRun THEN TokenAt(i) ELSE stored[k][i]]]
    /\ UNCHANGED spilled
    /\ pc' = "sample"
    /\ UNCHANGED <<prompt, seq, mode, pos, nTokens, preTokenNum, built, graphs,
                   schedule, step, todo, count, free>>

Run ==
    /\ pc = "run"
    /\ stored' = [k \in Keys |-> [i \in Rows |->
                    LET j == i - First(k) IN
                    IF Stores(k) /\ j \in RowsOfRun /\ InPage(k, j)
                    THEN TokenAt(j) ELSE stored[k][i]]]
    /\ spilled' = (spilled \/ \E k \in Keys : Stores(k) /\ \E j \in RowsOfRun : ~ InPage(k, j))
    /\ pc' = "sample"
    /\ UNCHANGED <<prompt, seq, mode, pos, nTokens, preTokenNum, built, graphs,
                   schedule, step, todo, count, free>>

(* prefill ends with the token it samples, the first one decode works on.  *)
SamplePrefill ==
    /\ pc = "sample" /\ mode = "prefill"
    /\ pos' = prompt[seq]
    /\ mode' = "decode" /\ pc' = "inputs" /\ step' = 0
    /\ UNCHANGED <<prompt, seq, nTokens, preTokenNum, built, graphs, schedule, todo, cacheVars>>

SampleDecode ==
    /\ pc = "sample" /\ mode = "decode"
    /\ pos' = pos + 1 /\ step' = step + 1
    /\ todo' = Layers
    /\ pc' = "update"
    /\ UNCHANGED <<prompt, seq, mode, nTokens, preTokenNum, built, graphs, schedule, cacheVars>>

(* update_kv_cache visits the layers in no particular order. *)
UpdateLayer(l) ==
    /\ pc = "update" /\ l \in todo
    /\ SetKV(<<seq, l>>, nTokens)
    /\ todo' = todo \ {l}
    /\ UNCHANGED <<prompt, seq, mode, pc, pos, nTokens, preTokenNum, built, graphs,
                   schedule, step, stored, spilled>>

(* Mutant: decode goes on when n_predict steps are done. *)
MutNextStep ==
    /\ pc = "update" /\ todo = {}
    /\ pc' = "inputs"
    /\ UNCHANGED <<prompt, seq, mode, pos, nTokens, preTokenNum, built, graphs, schedule,
                   step, todo, cacheVars>>

(* The next step of decode, ... *)
NextStep ==
    /\ pc = "update" /\ todo = {} /\ step < NPredict
    /\ pc' = "inputs"
    /\ UNCHANGED <<prompt, seq, mode, pos, nTokens, preTokenNum, built, graphs, schedule,
                   step, todo, cacheVars>>

(* Mutant: infer works on the same batch again. *)
MutEndDecode ==
    /\ pc = "update" /\ todo = {}
    /\ mode' = "prefill" /\ pc' = "inputs" /\ pos' = 0
    /\ UNCHANGED <<prompt, seq, nTokens, preTokenNum, built, graphs, schedule, step, todo,
                   cacheVars>>

(* ... or its end, early when the token is an end of generation.           *)
EndDecode ==
    /\ pc = "update" /\ todo = {}
    /\ seq' = seq + 1
    /\ mode' = "prefill" /\ pc' = "inputs" /\ pos' = 0
    /\ UNCHANGED <<prompt, nTokens, preTokenNum, built, graphs, schedule, step, todo, cacheVars>>

Done == seq = NSeqs /\ UNCHANGED vars

Next ==
    \/ BuildInputs
    \/ StoreNode
    \/ GraphBuilt
    \/ Run
    \/ SamplePrefill
    \/ SampleDecode
    \/ \E l \in Layers : UpdateLayer(l)
    \/ NextStep
    \/ EndDecode
    \/ Done

Spec == Init /\ [][Next]_vars

(* The thread of infer goes on: Run is a wait for host tasks that end. *)
FairSpec == Spec /\ WF_vars(Next)

-----------------------------------------------------------------------------
Tokens == [seq : 0 .. NSeqs, pos : Nat]
Graphs == [seq : 0 .. NSeqs, rows : Nat]

(* The token counts of the cache, the graphs built and the values decode   *)
(* carries from step to step in _graph_ctx are in their ranges.            *)
TypeOK ==
    /\ prompt \in [0 .. NSeqs - 1 -> PromptLengths]
    /\ seq \in 0 .. NSeqs
    /\ mode \in Modes
    /\ pc \in {"inputs", "build", "run", "sample", "update"}
    /\ pos \in Nat /\ nTokens \in Nat /\ preTokenNum \in Nat
    /\ built \in 0 .. 2 * NLayers
    /\ graphs \in [Modes -> Graphs]
    /\ schedule \in Graphs
    /\ step \in 0 .. NPredict
    /\ todo \subseteq Layers
    /\ count \in [Keys -> 0 .. TotalPages * PageSize] /\ free \in 0 .. TotalPages
    /\ stored \in [Keys -> [Rows -> Tokens]]
    /\ spilled \in BOOLEAN

(* When a run is over, the attention of every layer has seen exactly the   *)
(* tokens of its sequence up to the newest one, each in the row of its     *)
(* position: nothing missing, nothing of another sequence, nothing stale;  *)
(* and no row went past the end of its page into somebody else's.          *)
AttentionSeesContext ==
    pc = "sample" =>
        /\ ~ spilled
        /\ \A l \in Layers :
            LET k == <<seq, l>> IN
            /\ count[k] = pos + Inputs
            /\ \A i \in 0 .. count[k] - 1 : stored[k][i] = [seq |-> seq, pos |-> i]

(* update_kv_cache makes room for one more token in every layer: the rows  *)
(* of decode steps follow each other.                                      *)
DecodeAddsToken ==
    [][\A l \in Layers : l \in todo /\ l \notin todo'
          => count'[<<seq, l>>] = count[<<seq, l>>] + 1]_vars

(* infer returns, after at most n_predict steps for each batch. *)
InferReturns == <>(seq = NSeqs)

=============================================================================
