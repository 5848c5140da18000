------------------------------- MODULE KVCache -------------------------------
(***************************************************************************)
(* The paged KV cache of one device: PageManager (a pool of pages handed   *)
(* out from a LIFO free list), LayerKVContext (the page table of one       *)
(* sequence in one layer) and LLMKVCache (the contexts by sequence and     *)
(* layer).  set_kv is not atomic: it looks its context up under the global *)
(* mutex and then appends token by token, taking the page manager's mutex  *)
(* for one page at a time, so calls for different contexts interleave at   *)
(* every token.  clear holds the global mutex while it walks the layers.   *)
(*                                                                         *)
(* The raw context pointer a call holds is valid while its context lives:  *)
(* clear(seq) starts only when no set_kv of that sequence is in progress.  *)
(***************************************************************************)
EXTENDS Integers, Sequences

CONSTANTS Seqs,        \* sequence ids
          NLayers,     \* _config._n_layer
          TotalPages,  \* _config._total_pages
          PageSize,    \* tokens in a page (PAGE_SIZE, 32)
          MaxArg       \* bound on the token_num argument of set_kv

ASSUME NLayersAssumption  == NLayers \in Nat \ {0}
ASSUME PagesAssumption    == TotalPages \in Nat
ASSUME PageSizeAssumption == PageSize \in Nat \ {0}
ASSUME MaxArgAssumption   == MaxArg \in Nat

Layers == 0 .. NLayers - 1
(* (seq_id << 16) | layer_id in 32 bits, for a layer_id of at most 16 bits. *)
MakeKey(seq, layer) == (seq % 65536) * 65536 + layer

(* The keys of _seq_contexts.  MakeKey never maps two pairs to one key     *)
(* (theorem KeysDiffer of KVCacheProofs), so a pair stands for its key.    *)
Keys   == Seqs \X Layers
Pages  == 0 .. TotalPages - 1
NoSeq  == "no_seq"                \* nobody is clearing
ASSUME NoSeqAssumption == NoSeq \notin Seqs

VARIABLES
    freeList,    \* PageManager::_free_list, the back is the end
    isUsed,      \* KVPage::_is_used
    contexts,    \* the keys of _seq_contexts
    pageTable,   \* LayerKVContext::_page_table
    numTokens,   \* LayerKVContext::_num_tokens
    todo,        \* tokens the set_kv call in progress has still to append
    clearing     \* the global mutex of clear: the sequence, the layer, and how
                 \* many pages of that layer have been freed

poolVars == <<freeList, isUsed>>
vars     == <<freeList, isUsed, contexts, pageTable, numTokens, todo, clearing>>

-----------------------------------------------------------------------------
(* LayerKVContext *)

MaxTokens(k) == Len(pageTable[k]) * PageSize            \* get_max_tokens

(* Mutant: the token is looked for in the page appended last. *)
MutLocation(k, token) ==
    <<pageTable[k][Len(pageTable[k])], token % PageSize>>

(* get_location of a token index below _num_tokens; callers with another   *)
(* index get INVALID_PAGE_ID, for which get_k and get_v return no tensor.  *)
Location(k, token) ==
    <<pageTable[k][(token \div PageSize) + 1], token % PageSize>>

-----------------------------------------------------------------------------
Init ==
    /\ freeList = [i \in 1 .. TotalPages |-> i - 1]
    /\ isUsed = [p \in Pages |-> FALSE]
    /\ contexts = {}
    /\ pageTable = [k \in Keys |-> <<>>]
    /\ numTokens = [k \in Keys |-> 0]
    /\ todo = [k \in Keys |-> 0]
    /\ clearing = [seq |-> NoSeq, layer |-> 0, freed |-> 0]

MutexFree == clearing.seq = NoSeq

(* build_layer_kvcache_context, and every reader: get_context creates the  *)
(* context it does not find.                                               *)
GetContext(k) ==
    /\ MutexFree
    /\ contexts' = contexts \union {k}
    /\ UNCHANGED <<freeList, isUsed, pageTable, numTokens, todo, clearing>>

(* set_kv up to its loop: nothing to append when the context already holds *)
(* exactly token_num tokens.                                               *)
SetKV(k, tokenNum) ==
    /\ MutexFree
    /\ todo[k] = 0
    /\ contexts' = contexts \union {k}
    /\ todo' = [todo EXCEPT ![k] = IF numTokens[k] = tokenNum THEN 0 ELSE tokenNum]
    /\ UNCHANGED <<freeList, isUsed, pageTable, numTokens, clearing>>

(* Mutant: the loop of set_kv runs once more (i <= token_num). *)
MutAppendInPage(k) ==
    /\ todo[k] >= 0
    /\ k \in contexts
    /\ numTokens[k] # MaxTokens(k)
    /\ numTokens' = [numTokens EXCEPT ![k] = @ + 1]
    /\ todo' = [todo EXCEPT ![k] = @ - 1]
    /\ UNCHANGED <<freeList, isUsed, contexts, pageTable, clearing>>

(* append_token when the last page has room. *)
AppendInPage(k) ==
    /\ todo[k] > 0
    /\ numTokens[k] # MaxTokens(k)
    /\ numTokens' = [numTokens EXCEPT ![k] = @ + 1]
    /\ todo' = [todo EXCEPT ![k] = @ - 1]
    /\ UNCHANGED <<freeList, isUsed, contexts, pageTable, clearing>>

(* Mutant: allocate reads the back of the free list and leaves it there. *)
MutAppendNewPage(k) ==
    /\ todo[k] > 0
    /\ numTokens[k] = MaxTokens(k)
    /\ freeList # <<>>
    /\ LET page == freeList[Len(freeList)]
       IN  /\ isUsed' = [isUsed EXCEPT ![page] = TRUE]
           /\ pageTable' = [pageTable EXCEPT ![k] = Append(@, page)]
    /\ numTokens' = [numTokens EXCEPT ![k] = @ + 1]
    /\ todo' = [todo EXCEPT ![k] = @ - 1]
    /\ UNCHANGED <<freeList, contexts, clearing>>

(* append_token when all pages are full: PageManager::allocate pops the    *)
(* back of the free list.                                                  *)
AppendNewPage(k) ==
    /\ todo[k] > 0
    /\ numTokens[k] = MaxTokens(k)
    /\ freeList # <<>>
    /\ LET page == freeList[Len(freeList)]
       IN  /\ freeList' = SubSeq(freeList, 1, Len(freeList) - 1)
           /\ isUsed' = [isUsed EXCEPT ![page] = TRUE]
           /\ pageTable' = [pageTable EXCEPT ![k] = Append(@, page)]
    /\ numTokens' = [numTokens EXCEPT ![k] = @ + 1]
    /\ todo' = [todo EXCEPT ![k] = @ - 1]
    /\ UNCHANGED <<contexts, clearing>>

(* Mutant: set_kv waits for a page instead of giving up. *)
MutAppendFails(k) ==
    /\ todo[k] > 0
    /\ numTokens[k] = MaxTokens(k)
    /\ freeList = <<>>
    /\ UNCHANGED vars

(* append_token without a page left: set_kv returns false and the tokens   *)
(* appended so far stay.                                                   *)
AppendFails(k) ==
    /\ todo[k] > 0
    /\ numTokens[k] = MaxTokens(k)
    /\ freeList = <<>>
    /\ todo' = [todo EXCEPT ![k] = 0]
    /\ UNCHANGED <<freeList, isUsed, contexts, pageTable, numTokens, clearing>>

(* clear(seq) takes the global mutex ... *)
ClearBegin(s) ==
    /\ MutexFree
    /\ \A l \in Layers : todo[<<s, l>>] = 0
    /\ clearing' = [seq |-> s, layer |-> 0, freed |-> 0]
    /\ UNCHANGED <<freeList, isUsed, contexts, pageTable, numTokens, todo>>

Cleared == <<clearing.seq, clearing.layer>>      \* the context being cleared

(* Mutant: free gives the page back without looking at, or clearing, its   *)
(* _is_used flag.                                                          *)
MutClearPage ==
    /\ ~ MutexFree
    /\ Cleared \in contexts
    /\ clearing.freed < Len(pageTable[Cleared])
    /\ freeList' = Append(freeList, pageTable[Cleared][clearing.freed + 1])
    /\ clearing' = [clearing EXCEPT !.freed = @ + 1]
    /\ UNCHANGED <<isUsed, contexts, pageTable, numTokens, todo>>

(* ... frees the pages of one layer in page table order, each under the    *)
(* page manager's mutex only (free skips a page that is not in use) ...    *)
ClearPage ==
    /\ ~ MutexFree
    /\ Cleared \in contexts
    /\ clearing.freed < Len(pageTable[Cleared])
    /\ LET page == pageTable[Cleared][clearing.freed + 1]
       IN  IF isUsed[page]
           THEN /\ freeList' = Append(freeList, page)
                /\ isUsed' = [isUsed EXCEPT ![page] = FALSE]
           ELSE UNCHANGED poolVars
    /\ clearing' = [clearing EXCEPT !.freed = @ + 1]
    /\ UNCHANGED <<contexts, pageTable, numTokens, todo>>

(* Mutant: clear forgets to reset _num_tokens. *)
MutClearLayer ==
    /\ ~ MutexFree
    /\ clearing.layer < NLayers
    /\ Cleared \in contexts => clearing.freed = Len(pageTable[Cleared])
    /\ contexts' = contexts \ {Cleared}
    /\ pageTable' = [pageTable EXCEPT ![Cleared] = <<>>]
    /\ clearing' = [clearing EXCEPT !.layer = @ + 1, !.freed = 0]
    /\ UNCHANGED <<freeList, isUsed, numTokens, todo>>

(* ... erases the context and turns to the next layer ... *)
ClearLayer ==
    /\ ~ MutexFree
    /\ clearing.layer < NLayers
    /\ Cleared \in contexts => clearing.freed = Len(pageTable[Cleared])
    /\ contexts' = contexts \ {Cleared}
    /\ pageTable' = [pageTable EXCEPT ![Cleared] = <<>>]
    /\ numTokens' = [numTokens EXCEPT ![Cleared] = 0]
    /\ clearing' = [clearing EXCEPT !.layer = @ + 1, !.freed = 0]
    /\ UNCHANGED <<freeList, isUsed, todo>>

(* ... and releases the mutex after the last layer. *)
ClearEnd ==
    /\ ~ MutexFree
    /\ clearing.layer = NLayers
    /\ clearing' = [seq |-> NoSeq, layer |-> 0, freed |-> 0]
    /\ UNCHANGED <<freeList, isUsed, contexts, pageTable, numTokens, todo>>

AppendToken(k) == AppendInPage(k) \/ AppendNewPage(k) \/ AppendFails(k)

Next ==
    \/ \E k \in Keys :
         \/ GetContext(k)
         \/ \E n \in 0 .. MaxArg : SetKV(k, n)
         \/ AppendInPage(k)
         \/ AppendNewPage(k)
         \/ AppendFails(k)
    \/ \E s \in Seqs : ClearBegin(s)
    \/ ClearPage
    \/ ClearLayer
    \/ ClearEnd

Spec == Init /\ [][Next]_vars

(* A thread inside set_kv or clear goes on: the loops wait for nothing but *)
(* mutexes that are released after one step.                               *)
Fairness ==
    /\ \A k \in Keys : WF_vars(AppendToken(k))
    /\ WF_vars(ClearPage)
    /\ WF_vars(ClearLayer)
    /\ WF_vars(ClearEnd)

FairSpec == Spec /\ Fairness

-----------------------------------------------------------------------------
(* The free list and the page tables hold pages of the pool; a call of     *)
(* set_kv never has more tokens to append than it was asked for.           *)
TypeOK ==
    /\ freeList \in Seq(Pages)
    /\ isUsed \in [Pages -> BOOLEAN]
    /\ contexts \subseteq Keys
    /\ pageTable \in [Keys -> Seq(Pages)]
    /\ numTokens \in [Keys -> Nat]
    /\ todo \in [Keys -> 0 .. MaxArg]
    /\ clearing \in [seq : Seqs \union {NoSeq}, layer : 0 .. NLayers, freed : Nat]

(* The entries of a page table the context still owns: all of them, except *)
(* those that clear has already given back.                                *)
Held(k) == {i \in 1 .. Len(pageTable[k]) : k = Cleared => i > clearing.freed}

(* The free list of PageManager holds exactly the pages that are not in    *)
(* use, each once: no sequence of allocate and free calls loses a page or  *)
(* lists one twice.                                                        *)
FreeListExact ==
    /\ \A i, j \in 1 .. Len(freeList) : freeList[i] = freeList[j] => i = j
    /\ \A p \in Pages : isUsed[p] <=> \A i \in 1 .. Len(freeList) : freeList[i] # p

(* However set_kv and clear calls of several threads interleave, a page in *)
(* use belongs to one entry of one page table: two contexts never share a  *)
(* page, and a page nobody owns is never left marked as used.              *)
PageHasOneOwner ==
    /\ \A k, c \in Keys : \A i \in Held(k), j \in Held(c) :
         pageTable[k][i] = pageTable[c][j] => k = c /\ i = j
    /\ \A k \in Keys : \A i \in Held(k) : isUsed[pageTable[k][i]]
    /\ \A p \in Pages : isUsed[p] => \E k \in Keys : \E i \in Held(k) : pageTable[k][i] = p

(* A context has pages for all its tokens and no page without a token, so  *)
(* get_location of a token below _num_tokens stays inside the page table.  *)
TokensFitPages ==
    \A k \in Keys :
        /\ numTokens[k] <= MaxTokens(k)
        /\ numTokens[k] + PageSize > MaxTokens(k)

(* The slots the tokens of a context occupy, for the abstract TokenStore:  *)
(* they are given up when clear frees the first page.                      *)
SlotOf ==
    [k \in Keys |-> IF k = Cleared /\ clearing.freed > 0 THEN <<>>
                    ELSE [i \in 1 .. numTokens[k] |-> Location(k, i - 1)]]

Store == INSTANCE TokenStore WITH Slots <- Pages \X (0 .. PageSize - 1), slotOf <- SlotOf

(* set_kv and clear implement the token store: a new token always gets a   *)
(* slot no live token of any sequence or layer holds, and a token never    *)
(* moves while its context lives.                                          *)
ImplementsTokenStore == Store!Spec

(* A set_kv call returns, whether or not there are pages left, and clear   *)
(* gives the mutex back.                                                   *)
CallsReturn ==
    /\ \A k \in Keys : []<>(todo[k] = 0)
    /\ []<>MutexFree

=============================================================================
