---------------------------- MODULE KVCacheProofs ----------------------------
(***************************************************************************)
(* The safety invariants of KVCache for every number of sequences, layers, *)
(* pages and every page size; and the paged cache implements TokenStore: a *)
(* token that joins a context gets a slot of its own and keeps it until    *)
(* the context is cleared.                                                 *)
(***************************************************************************)
EXTENDS KVCache, SequenceTheorems, TLAPS

(* What PageHasOneOwner needs to be inductive: a context that does not     *)
(* exist holds nothing, a sequence being cleared has no set_kv call in     *)
(* progress, and clear has not run past the end of the page table.         *)
ContextState ==
    /\ \A k \in Keys : k \notin contexts => pageTable[k] = <<>> /\ todo[k] = 0
    /\ ~ MutexFree => \A l \in Layers : todo[<<clearing.seq, l>>] = 0
    /\ Cleared \in Keys => clearing.freed <= Len(pageTable[Cleared])

IInv ==
    /\ TypeOK
    /\ FreeListExact
    /\ PageHasOneOwner
    /\ TokensFitPages
    /\ ContextState

USE NLayersAssumption, PagesAssumption, PageSizeAssumption, MaxArgAssumption, NoSeqAssumption

-----------------------------------------------------------------------------
(* make_key gives different contexts different keys in _seq_contexts, as   *)
(* long as sequence and layer ids fit in 16 bits: two sequences never get  *)
(* each other's context.                                                   *)
THEOREM KeysDiffer ==
    ASSUME NEW s1 \in Nat, NEW l1 \in Nat, s1 < 65536, l1 < 65536,
           NEW s2 \in Nat, NEW l2 \in Nat, s2 < 65536, l2 < 65536,
           MakeKey(s1, l1) = MakeKey(s2, l2)
    PROVE  s1 = s2 /\ l1 = l2
<1>1. \A n \in Nat : n < 65536 => (n % 65536) * 65536 = n * 65536
  BY SMT
<1>2. s1 * 65536 + l1 = s2 * 65536 + l2
  BY <1>1, SMT DEF MakeKey
<1> QED
  BY <1>2, SMT

-----------------------------------------------------------------------------
(* Without a clear in progress, and for contexts clear is not busy with,   *)
(* every entry of the page table is held.                                  *)
LEMMA HeldAll ==
    ASSUME NEW k \in Keys, TypeOK, k # Cleared
    PROVE  Held(k) = 1 .. Len(pageTable[k])
  BY DEF Held, TypeOK

LEMMA NobodyCleared ==
    ASSUME TypeOK, MutexFree \/ clearing.layer = NLayers
    PROVE  Cleared \notin Keys
  BY DEF Cleared, Keys, Layers, MutexFree, TypeOK

-----------------------------------------------------------------------------
(* Initially all pages are free and there is no context. *)
LEMMA InitIInv == Init => IInv
<1> SUFFICES ASSUME Init PROVE IInv
  OBVIOUS
<1>1. TypeOK
  <2>1. freeList \in Seq(Pages)
    BY DEF Init, Pages
  <2> QED
    BY <2>1 DEF TypeOK, Init, Keys
<1>2. FreeListExact
  <2>1. Len(freeList) = TotalPages
    BY DEF Init
  <2> QED
    BY <2>1 DEF FreeListExact, Init, Pages
<1>3. \A k \in Keys : pageTable[k] = <<>> /\ Held(k) = {}
  BY DEF Init, Held
<1>4. PageHasOneOwner
  BY <1>3 DEF PageHasOneOwner, Init
<1>5. TokensFitPages
  BY <1>3 DEF TokensFitPages, MaxTokens, Init
<1>6. ContextState
  BY <1>3, <1>1 DEF ContextState, Init, MutexFree, Cleared, Keys, Layers
<1> QED
  BY <1>1, <1>2, <1>4, <1>5, <1>6 DEF IInv

-----------------------------------------------------------------------------
(* Steps that move no page: contexts appear, calls begin, a token joins a  *)
(* page with room, a call gives up.                                        *)
LEMMA QuietSteps ==
    ASSUME IInv, NEW k \in Keys,
           \/ GetContext(k)
           \/ \E n \in 0 .. MaxArg : SetKV(k, n)
           \/ AppendInPage(k)
           \/ AppendFails(k)
    PROVE  IInv'
<1> USE DEF IInv
<1>1. TypeOK'
  <2>1. CASE GetContext(k)
    BY <2>1 DEF TypeOK, GetContext
  <2>2. ASSUME NEW n \in 0 .. MaxArg, SetKV(k, n) PROVE TypeOK'
    BY <2>2 DEF TypeOK, SetKV
  <2>3. CASE AppendInPage(k)
    <3>1. numTokens[k] + 1 \in Nat /\ todo[k] - 1 \in 0 .. MaxArg
      BY <2>3 DEF TypeOK, AppendInPage
    <3>2. numTokens' \in [Keys -> Nat] /\ todo' \in [Keys -> 0 .. MaxArg]
      BY <2>3, <3>1 DEF TypeOK, AppendInPage
    <3> QED
      BY <2>3, <3>2 DEF TypeOK, AppendInPage
  <2>4. CASE AppendFails(k)
    BY <2>4 DEF TypeOK, AppendFails
  <2> QED
    BY <2>1, <2>2, <2>3, <2>4
<1>2. /\ UNCHANGED <<freeList, isUsed, pageTable, clearing>>
      /\ \A c \in Keys : Held(c)' = Held(c)
  BY DEF GetContext, SetKV, AppendInPage, AppendFails, Held, Cleared
<1>3. FreeListExact' /\ PageHasOneOwner'
  BY <1>2 DEF FreeListExact, PageHasOneOwner
<1>4. TokensFitPages'
  <2>0. \A c \in Keys : MaxTokens(c) \in Nat /\ MaxTokens(c)' = MaxTokens(c)
    BY <1>2 DEF MaxTokens, TypeOK
  <2>1. CASE AppendInPage(k)
    BY <2>0, <2>1, SMTT(30) DEF AppendInPage, TokensFitPages, TypeOK
  <2>2. CASE UNCHANGED numTokens
    BY <2>0, <2>2 DEF TokensFitPages
  <2> QED
    BY <2>1, <2>2 DEF GetContext, SetKV, AppendFails
<1>5. ContextState'
  <2>1. \A c \in Keys : c \notin contexts' => pageTable'[c] = <<>> /\ todo'[c] = 0
    BY <1>2 DEF ContextState, GetContext, SetKV, AppendInPage, AppendFails, TypeOK
  <2>2. ~ MutexFree' => \A l \in Layers : todo'[<<clearing'.seq, l>>] = 0
    <3> SUFFICES ASSUME ~ MutexFree', NEW l \in Layers
                 PROVE  todo'[<<clearing'.seq, l>>] = 0
      OBVIOUS
    <3>1. ~ MutexFree /\ clearing.seq \in Seqs /\ <<clearing.seq, l>> \in Keys
      BY <1>2 DEF MutexFree, TypeOK, Keys
    <3>2. todo[<<clearing.seq, l>>] = 0
      BY <3>1 DEF ContextState
    <3> QED
      BY <3>1, <3>2, <1>2 DEF GetContext, SetKV, AppendInPage, AppendFails, TypeOK
  <2>3. Cleared' \in Keys => clearing'.freed <= Len(pageTable'[Cleared'])
    BY <1>2 DEF ContextState, Cleared
  <2> QED
    BY <2>1, <2>2, <2>3 DEF ContextState, MutexFree
<1> QED
  BY <1>1, <1>3, <1>4, <1>5

-----------------------------------------------------------------------------
(* A context takes the page at the back of the free list. *)
LEMMA AppendNewPageStep ==
    ASSUME IInv, NEW k \in Keys, AppendNewPage(k)
    PROVE  IInv'
<1> USE DEF IInv
<1> DEFINE n == Len(freeList)
           page == freeList[n]
           m == Len(pageTable[k])
<1>1. /\ n \in Nat \ {0} /\ page \in Pages /\ m \in Nat
      /\ \A i \in 1 .. n : freeList[i] \in Pages
  BY SMTT(30) DEF AppendNewPage, TypeOK
<1>2. /\ freeList' \in Seq(Pages)
      /\ Len(freeList') = n - 1
      /\ \A i \in 1 .. n - 1 : freeList'[i] = freeList[i]
  <2>1. freeList' = SubSeq(freeList, 1, n - 1) /\ freeList \in Seq(Pages)
    BY DEF AppendNewPage, TypeOK
  <2>2. n - 1 \in Int /\ 1 \in Int /\ \A i \in 1 .. n - 1 : freeList[i] \in Pages
    BY <1>1
  <2>3. /\ SubSeq(freeList, 1, n - 1) \in Seq(Pages)
        /\ Len(SubSeq(freeList, 1, n - 1)) = IF 1 <= n - 1 THEN n - 1 - 1 + 1 ELSE 0
        /\ \A i \in 1 .. n - 1 - 1 + 1 : SubSeq(freeList, 1, n - 1)[i] = freeList[1 + i - 1]
    BY <2>2, SubSeqProperties
  <2>4. n - 1 - 1 + 1 = n - 1 /\ \A i \in 1 .. n - 1 : 1 + i - 1 = i
    BY <1>1
  <2> HIDE DEF n
  <2> QED
    BY <2>1, <2>3, <2>4, <1>1
<1>3. /\ pageTable' = [pageTable EXCEPT ![k] = Append(@, page)]
      /\ isUsed' = [isUsed EXCEPT ![page] = TRUE]
      /\ numTokens' = [numTokens EXCEPT ![k] = @ + 1]
      /\ todo' = [todo EXCEPT ![k] = @ - 1]
      /\ UNCHANGED <<contexts, clearing>>
  BY DEF AppendNewPage
<1>4. /\ pageTable'[k] \in Seq(Pages)
      /\ Len(pageTable'[k]) = m + 1
      /\ pageTable'[k][m + 1] = page
      /\ \A i \in 1 .. m : pageTable'[k][i] = pageTable[k][i]
      /\ \A c \in Keys \ {k} : pageTable'[c] = pageTable[c]
  BY <1>1, <1>3 DEF TypeOK
<1>5. todo[k] - 1 \in 0 .. MaxArg /\ numTokens[k] + 1 \in Nat
  BY SMTT(30) DEF AppendNewPage, TypeOK
<1>6. TypeOK'
  <2>1. pageTable' \in [Keys -> Seq(Pages)]
    BY <1>3, <1>4 DEF TypeOK
  <2>2. isUsed' \in [Pages -> BOOLEAN]
    BY <1>3 DEF TypeOK
  <2>3. numTokens' \in [Keys -> Nat] /\ todo' \in [Keys -> 0 .. MaxArg]
    BY <1>3, <1>5 DEF TypeOK
  <2> QED
    BY <2>1, <2>2, <2>3, <1>2, <1>3 DEF TypeOK
<1>7. k # Cleared
  <2>1. ASSUME k = Cleared PROVE FALSE
    <3>1. ~ MutexFree /\ clearing.layer \in Layers
      BY <2>1, NobodyCleared DEF Cleared, Keys, MutexFree
    <3>2. todo[k] = 0
      BY <2>1, <3>1 DEF ContextState, Cleared
    <3> QED
      BY <3>2 DEF AppendNewPage
  <2> QED
    BY <2>1
<1>8. /\ Held(k)' = 1 .. m + 1
      /\ Held(k) = 1 .. m
      /\ \A c \in Keys \ {k} : Held(c)' = Held(c) /\ Held(c) \subseteq 1 .. Len(pageTable[c])
  BY <1>3, <1>4, <1>7 DEF Held, Cleared
<1>9. FreeListExact'
  <2>1. \A i, j \in 1 .. Len(freeList') : freeList'[i] = freeList'[j] => i = j
    BY <1>1, <1>2 DEF FreeListExact
  <2>2. ASSUME NEW p \in Pages
        PROVE  isUsed'[p] <=> \A i \in 1 .. Len(freeList') : freeList'[i] # p
    <3>1. CASE p = page
      <4>1. \A i \in 1 .. n - 1 : freeList[i] # page
        BY <1>1 DEF FreeListExact
      <4> QED
        BY <4>1, <3>1, <1>1, <1>2, <1>3 DEF TypeOK
    <3>2. CASE p # page
      <4>1. isUsed'[p] = isUsed[p]
        BY <3>2, <1>3 DEF TypeOK
      <4>2. (\A i \in 1 .. n : freeList[i] # p) <=> \A i \in 1 .. n - 1 : freeList[i] # p
        BY <3>2, <1>1
      <4> QED
        BY <4>1, <4>2, <1>1, <1>2 DEF FreeListExact
    <3> QED
      BY <3>1, <3>2
  <2> QED
    BY <2>1, <2>2 DEF FreeListExact
<1>10. PageHasOneOwner'
  <2>1. ~ isUsed[page]
    BY <1>1 DEF FreeListExact
  <2>2. \A c \in Keys : \A i \in Held(c) : pageTable[c][i] # page
    BY <2>1 DEF PageHasOneOwner
  <2>3. ASSUME NEW c \in Keys, NEW i \in Held(c)', <<c, i>> # <<k, m + 1>>
        PROVE  i \in Held(c) /\ pageTable'[c][i] = pageTable[c][i]
    BY <2>3, <1>1, <1>4, <1>8, SMTT(30)
  <2>4. ASSUME NEW a \in Keys, NEW c \in Keys, NEW i \in Held(a)', NEW j \in Held(c)',
               pageTable'[a][i] = pageTable'[c][j]
        PROVE  a = c /\ i = j
    <3>1. CASE <<a, i>> = <<k, m + 1>>
      <4>1. pageTable'[c][j] = page
        BY <3>1, <2>4, <1>4
      <4>2. CASE <<c, j>> # <<k, m + 1>>
        BY <4>1, <4>2, <2>2, <2>3
      <4> QED
        BY <3>1, <4>2
    <3>2. CASE <<c, j>> = <<k, m + 1>>
      <4>1. pageTable'[a][i] = page
        BY <3>2, <2>4, <1>4
      <4>2. CASE <<a, i>> # <<k, m + 1>>
        BY <4>1, <4>2, <2>2, <2>3
      <4> QED
        BY <3>2, <4>2
    <3>3. CASE <<a, i>> # <<k, m + 1>> /\ <<c, j>> # <<k, m + 1>>
      BY <3>3, <2>3, <2>4 DEF PageHasOneOwner
    <3> QED
      BY <3>1, <3>2, <3>3
  <2>5. ASSUME NEW c \in Keys, NEW i \in Held(c)' PROVE isUsed'[pageTable'[c][i]]
    <3>1. CASE <<c, i>> = <<k, m + 1>>
      BY <3>1, <1>1, <1>3, <1>4 DEF TypeOK
    <3>2. CASE <<c, i>> # <<k, m + 1>>
      <4>1. isUsed[pageTable[c][i]] /\ pageTable'[c][i] = pageTable[c][i]
        BY <3>2, <2>3 DEF PageHasOneOwner
      <4>2. pageTable[c][i] \in Pages
        BY <3>2, <2>3, <1>8 DEF TypeOK
      <4> QED
        BY <4>1, <4>2, <1>3 DEF TypeOK
    <3> QED
      BY <3>1, <3>2
  <2>6. ASSUME NEW p \in Pages, isUsed'[p]
        PROVE  \E c \in Keys : \E i \in Held(c)' : pageTable'[c][i] = p
    <3>1. CASE p = page
      BY <3>1, <1>1, <1>4, <1>8
    <3>2. CASE p # page
      <4>1. isUsed[p]
        BY <2>6, <3>2, <1>3 DEF TypeOK
      <4>2. PICK c \in Keys : \E i \in Held(c) : pageTable[c][i] = p
        BY <4>1 DEF PageHasOneOwner
      <4>3. PICK i \in Held(c) : pageTable[c][i] = p
        BY <4>2
      <4>4. i \in Held(c)' /\ pageTable'[c][i] = p
        <5>1. CASE c = k
          <6>1. i \in 1 .. m
            BY <5>1, <1>8
          <6> QED
            BY <6>1, <5>1, <4>3, <1>1, <1>4, <1>8
        <5>2. CASE c # k
          BY <5>2, <4>3, <1>4, <1>8
        <5> QED
          BY <5>1, <5>2
      <4> QED
        BY <4>4
    <3> QED
      BY <3>1, <3>2
  <2> QED
    BY <2>4, <2>5, <2>6 DEF PageHasOneOwner
<1>11. TokensFitPages'
  <2>1. \A c \in Keys \ {k} : MaxTokens(c)' = MaxTokens(c) /\ numTokens'[c] = numTokens[c]
    BY <1>3, <1>4 DEF MaxTokens, TypeOK
  <2>2. numTokens[k] = m * PageSize /\ m * PageSize \in Nat
    BY <1>1 DEF AppendNewPage, MaxTokens
  <2>3. MaxTokens(k)' = m * PageSize + PageSize
    BY <1>1, <1>4 DEF MaxTokens
  <2>4. numTokens'[k] = numTokens[k] + 1
    BY <1>3 DEF TypeOK
  <2>5. numTokens'[k] <= MaxTokens(k)' /\ numTokens'[k] + PageSize > MaxTokens(k)'
    BY <2>2, <2>3, <2>4, SMTT(30)
  <2> QED
    BY <2>1, <2>5 DEF TokensFitPages
<1>12. ContextState'
  <2>1. k \in contexts
    BY DEF ContextState, AppendNewPage
  <2>2. \A c \in Keys \ {k} : todo'[c] = todo[c] /\ pageTable'[c] = pageTable[c]
    BY <1>3, <1>4 DEF TypeOK
  <2>3. ASSUME ~ MutexFree, NEW l \in Layers PROVE todo'[<<clearing.seq, l>>] = 0
    <3>1. <<clearing.seq, l>> \in Keys /\ todo[<<clearing.seq, l>>] = 0
      BY <2>3 DEF ContextState, MutexFree, TypeOK, Keys
    <3>2. todo[k] > 0
      BY DEF AppendNewPage
    <3>3. <<clearing.seq, l>> # k
      BY <3>1, <3>2
    <3> QED
      BY <3>1, <3>3, <2>2
  <2>4. Cleared' = Cleared /\ clearing' = clearing /\ contexts' = contexts
    BY <1>3 DEF Cleared
  <2> QED
    BY <2>1, <2>2, <2>3, <2>4, <1>7 DEF ContextState, MutexFree
<1> QED
  BY <1>6, <1>9, <1>10, <1>11, <1>12

-----------------------------------------------------------------------------
(* clear takes and releases the mutex: no page changes hands. *)
LEMMA ClearMutexSteps ==
    ASSUME IInv, (\E s \in Seqs : ClearBegin(s)) \/ ClearEnd
    PROVE  IInv'
<1> USE DEF IInv
<1>1. TypeOK'
  BY DEF TypeOK, ClearBegin, ClearEnd
<1>2. /\ UNCHANGED <<freeList, isUsed, contexts, pageTable, numTokens, todo>>
      /\ clearing'.freed = 0
  BY DEF ClearBegin, ClearEnd
<1>3. Cleared \notin Keys
  BY NobodyCleared DEF ClearBegin, ClearEnd
<1>4. \A k \in Keys : Held(k)' = Held(k)
  BY <1>2, <1>3 DEF Held, TypeOK
<1>5. FreeListExact' /\ PageHasOneOwner' /\ TokensFitPages'
  BY <1>2, <1>4 DEF FreeListExact, PageHasOneOwner, TokensFitPages, MaxTokens
<1>6. ~ MutexFree' => \A l \in Layers : todo'[<<clearing'.seq, l>>] = 0
  BY DEF ClearBegin, ClearEnd, MutexFree
<1>7. Cleared' \in Keys => clearing'.freed <= Len(pageTable'[Cleared'])
  BY <1>1, <1>2 DEF TypeOK
<1>8. ContextState'
  BY <1>2, <1>6, <1>7 DEF ContextState, MutexFree
<1> QED
  BY <1>1, <1>5, <1>8

(* clear gives one page back. *)
LEMMA ClearPageStep ==
    ASSUME IInv, ClearPage
    PROVE  IInv'
<1> USE DEF IInv
<1>0. Cleared \in Keys
  BY DEF ClearPage, TypeOK
<1> PICK k \in Keys : k = Cleared
  BY <1>0
<1> DEFINE n == clearing.freed + 1
           page == pageTable[k][n]
           f == Len(freeList)
<1>1. /\ k \in Keys /\ n \in 1 .. Len(pageTable[k]) /\ page \in Pages
      /\ n \in Held(k)
  BY SMTT(30) DEF ClearPage, TypeOK, Held
<1>2. isUsed[page]
  BY <1>1 DEF PageHasOneOwner
<1>3. /\ freeList' = Append(freeList, page)
      /\ isUsed' = [isUsed EXCEPT ![page] = FALSE]
      /\ clearing' = [clearing EXCEPT !.freed = n]
      /\ UNCHANGED <<contexts, pageTable, numTokens, todo>>
  BY <1>2 DEF ClearPage
<1>4. /\ freeList' \in Seq(Pages)
      /\ f \in Nat
      /\ Len(freeList') = f + 1
      /\ freeList'[f + 1] = page
      /\ \A i \in 1 .. f : freeList'[i] = freeList[i]
  BY <1>1, <1>3, SMTT(30) DEF TypeOK
<1>5. TypeOK'
  <2>1. isUsed' \in [Pages -> BOOLEAN]
    BY <1>3 DEF TypeOK
  <2>2. n \in Nat
    BY <1>1 DEF TypeOK
  <2>3. clearing' \in [seq : Seqs \union {NoSeq}, layer : 0 .. NLayers, freed : Nat]
    BY <1>3, <2>2 DEF TypeOK
  <2> QED
    BY <1>3, <1>4, <2>1, <2>3 DEF TypeOK
<1>6. Cleared' = Cleared /\ clearing'.freed = n /\ clearing'.seq = clearing.seq
  BY <1>3 DEF Cleared, TypeOK
<1>7. /\ Held(k)' = Held(k) \ {n}
      /\ \A c \in Keys \ {k} : Held(c)' = Held(c)
  BY <1>1, <1>3, <1>6, SMTT(30) DEF Held, TypeOK
<1>8. FreeListExact'
  <2>1. \A i \in 1 .. f : freeList[i] # page
    BY <1>1, <1>2 DEF FreeListExact
  <2>2. \A i, j \in 1 .. f + 1 : freeList'[i] = freeList'[j] => i = j
    BY <2>1, <1>4 DEF FreeListExact
  <2>3. ASSUME NEW p \in Pages
        PROVE  isUsed'[p] <=> \A i \in 1 .. f + 1 : freeList'[i] # p
    <3>1. CASE p = page
      <4>1. ~ isUsed'[p]
        BY <3>1, <1>1, <1>3 DEF TypeOK
      <4>2. f + 1 \in 1 .. f + 1 /\ freeList'[f + 1] = p
        BY <3>1, <1>4
      <4> QED
        BY <4>1, <4>2
    <3>2. CASE p # page
      <4>1. isUsed'[p] = isUsed[p]
        BY <3>2, <1>3 DEF TypeOK
      <4>2. (\A i \in 1 .. f + 1 : freeList'[i] # p) <=> \A i \in 1 .. f : freeList[i] # p
        BY <3>2, <1>4
      <4> QED
        BY <4>1, <4>2 DEF FreeListExact
    <3> QED
      BY <3>1, <3>2
  <2> QED
    BY <2>2, <2>3, <1>4 DEF FreeListExact
<1>9. PageHasOneOwner'
  <2>1. \A c \in Keys : Held(c)' \subseteq Held(c)
    BY <1>7
  <2>2. ASSUME NEW c \in Keys, NEW i \in Held(c)' PROVE isUsed'[pageTable'[c][i]]
    <3>1. i \in Held(c) /\ pageTable'[c][i] = pageTable[c][i] /\ pageTable[c][i] \in Pages
      BY <2>1, <1>3, SMTT(30) DEF Held, TypeOK
    <3>2. <<c, i>> # <<k, n>>
      BY <1>7
    <3>3. pageTable[c][i] # page
      BY <3>1, <3>2, <1>1 DEF PageHasOneOwner
    <3> QED
      BY <3>1, <3>3, <1>3 DEF PageHasOneOwner, TypeOK
  <2>3. ASSUME NEW p \in Pages, isUsed'[p]
        PROVE  \E c \in Keys : \E i \in Held(c)' : pageTable'[c][i] = p
    <3>1. isUsed[p] /\ p # page
      BY <2>3, <1>3, <1>1 DEF TypeOK
    <3>2. PICK c \in Keys : \E i \in Held(c) : pageTable[c][i] = p
      BY <3>1 DEF PageHasOneOwner
    <3>3. PICK i \in Held(c) : pageTable[c][i] = p
      BY <3>2
    <3>4. i \in Held(c)'
      BY <3>1, <3>3, <1>7
    <3> QED
      BY <3>3, <3>4, <1>3
  <2>4. \A a, c \in Keys : \A i \in Held(a)', j \in Held(c)' :
          pageTable'[a][i] = pageTable'[c][j] => a = c /\ i = j
    BY <2>1, <1>3 DEF PageHasOneOwner
  <2> QED
    BY <2>2, <2>3, <2>4 DEF PageHasOneOwner
<1>10. TokensFitPages'
  BY <1>3 DEF TokensFitPages, MaxTokens
<1>11. ContextState'
  <2>1. clearing'.freed <= Len(pageTable'[Cleared'])
    BY <1>1, <1>3, <1>6 DEF TypeOK
  <2>2. (~ MutexFree)' => ~ MutexFree
    BY <1>6 DEF MutexFree
  <2> QED
    BY <2>1, <2>2, <1>3, <1>6 DEF ContextState
<1> QED
  BY <1>5, <1>8, <1>9, <1>10, <1>11

(* clear forgets a context whose pages are all back. *)
LEMMA ClearLayerStep ==
    ASSUME IInv, ClearLayer
    PROVE  IInv'
<1> USE DEF IInv
<1>0. Cleared \in Keys
  BY DEF ClearLayer, Cleared, Keys, Layers, MutexFree, TypeOK
<1> PICK k \in Keys : k = Cleared
  BY <1>0
<1>1. /\ k \in Keys /\ clearing.layer + 1 \in 0 .. NLayers
      /\ contexts' = contexts \ {k}
      /\ pageTable' = [pageTable EXCEPT ![k] = <<>>]
      /\ numTokens' = [numTokens EXCEPT ![k] = 0]
      /\ clearing' = [clearing EXCEPT !.layer = @ + 1, !.freed = 0]
      /\ UNCHANGED <<freeList, isUsed, todo>>
  BY SMTT(30) DEF ClearLayer, Cleared, Keys, Layers, MutexFree, TypeOK
<1>2. clearing'.freed = 0 /\ clearing'.seq = clearing.seq /\ clearing'.layer = clearing.layer + 1
  BY <1>1 DEF TypeOK
<1>3. TypeOK'
  <2>1. clearing' \in [seq : Seqs \union {NoSeq}, layer : 0 .. NLayers, freed : Nat]
    BY <1>1 DEF TypeOK
  <2>2. pageTable' \in [Keys -> Seq(Pages)]
    BY <1>1 DEF TypeOK
  <2>3. numTokens' \in [Keys -> Nat] /\ contexts' \subseteq Keys
    BY <1>1 DEF TypeOK
  <2> QED
    BY <1>1, <2>1, <2>2, <2>3 DEF TypeOK
<1>4. Cleared' # Cleared
  BY <1>2 DEF Cleared, TypeOK
<1>5. Len(pageTable[k]) = clearing.freed \/ pageTable[k] = <<>>
  BY <1>1 DEF ClearLayer, ContextState
<1>6. /\ Held(k) = {} /\ Held(k)' = {}
      /\ \A c \in Keys \ {k} : /\ Held(c)' = Held(c)
                               /\ pageTable'[c] = pageTable[c]
                               /\ numTokens'[c] = numTokens[c]
  <2>1. Held(k) = {}
    BY <1>1, <1>5, SMTT(30) DEF Held, TypeOK
  <2>2. pageTable'[k] = <<>> /\ \A c \in Keys \ {k} : pageTable'[c] = pageTable[c]
                                                     /\ numTokens'[c] = numTokens[c]
    BY <1>1 DEF TypeOK
  <2>3. Held(k)' = {}
    BY <2>2 DEF Held
  <2>4. \A c \in Keys \ {k} : Held(c)' = Held(c)
    BY <2>2, <1>2, SMTT(30) DEF Held, TypeOK
  <2> QED
    BY <2>1, <2>2, <2>3, <2>4
<1>7. FreeListExact' /\ PageHasOneOwner'
  BY <1>1, <1>6 DEF FreeListExact, PageHasOneOwner
<1>8. TokensFitPages'
  <2>1. numTokens'[k] = 0 /\ MaxTokens(k)' = 0
    BY <1>1 DEF MaxTokens, TypeOK
  <2>2. \A c \in Keys \ {k} : MaxTokens(c)' = MaxTokens(c)
    BY <1>6 DEF MaxTokens
  <2> QED
    BY <2>1, <2>2, <1>6 DEF TokensFitPages
<1>9. ContextState'
  <2>1. \A c \in Keys : c \notin contexts' => pageTable'[c] = <<>> /\ todo'[c] = 0
    <3>1. todo[k] = 0
      BY <1>1 DEF ContextState, ClearLayer, Cleared, Keys
    <3>2. pageTable'[k] = <<>>
      BY <1>1 DEF TypeOK
    <3> QED
      BY <3>1, <3>2, <1>1, <1>6 DEF ContextState
  <2>2. (~ MutexFree)' => \A l \in Layers : todo'[<<clearing'.seq, l>>] = 0
    BY <1>1, <1>2 DEF ContextState, MutexFree
  <2>3. Cleared' \in Keys => clearing'.freed <= Len(pageTable'[Cleared'])
    BY <1>2, <1>3 DEF TypeOK
  <2> QED
    BY <2>1, <2>2, <2>3 DEF ContextState
<1> QED
  BY <1>3, <1>7, <1>8, <1>9

-----------------------------------------------------------------------------
(* Every step of the cache preserves the inductive invariant. *)
LEMMA NextIInv == IInv /\ [Next]_vars => IInv'
<1> SUFFICES ASSUME IInv, [Next]_vars PROVE IInv'
  OBVIOUS
<1>1. ASSUME NEW k \in Keys,
             \/ GetContext(k)
             \/ \E n \in 0 .. MaxArg : SetKV(k, n)
             \/ AppendInPage(k)
             \/ AppendFails(k)
      PROVE  IInv'
  BY <1>1, QuietSteps
<1>2. ASSUME NEW k \in Keys, AppendNewPage(k) PROVE IInv'
  BY <1>2, AppendNewPageStep
<1>3. CASE (\E s \in Seqs : ClearBegin(s)) \/ ClearEnd
  BY <1>3, ClearMutexSteps
<1>4. CASE ClearPage
  BY <1>4, ClearPageStep
<1>5. CASE ClearLayer
  BY <1>5, ClearLayerStep
<1>6. CASE UNCHANGED vars
  BY <1>6 DEF IInv, TypeOK, FreeListExact, PageHasOneOwner, TokensFitPages, ContextState,
              MaxTokens, Held, Cleared, MutexFree, vars
<1> QED
  BY <1>1, <1>2, <1>3, <1>4, <1>5, <1>6 DEF Next

(* The inductive invariant holds in every reachable state. *)
LEMMA SpecIInv == Spec => []IInv
  BY InitIInv, NextIInv, PTL DEF Spec

(* Every variable keeps its type. *)
THEOREM TypeCorrect == Spec => []TypeOK
<1>1. IInv => TypeOK
  BY DEF IInv
<1> QED
  BY <1>1, SpecIInv, PTL

(* PageManager neither loses a page nor lists one twice, for every number  *)
(* of pages, sequences and layers and every interleaving of the calls.     *)
THEOREM FreeListCorrect == Spec => []FreeListExact
<1>1. IInv => FreeListExact
  BY DEF IInv
<1> QED
  BY <1>1, SpecIInv, PTL

(* No page is ever in two page tables, or used and in none. *)
THEOREM PagesExclusive == Spec => []PageHasOneOwner
<1>1. IInv => PageHasOneOwner
  BY DEF IInv
<1> QED
  BY <1>1, SpecIInv, PTL

(* get_location of a cached token never leaves the page table. *)
THEOREM TokensFit == Spec => []TokensFitPages
<1>1. IInv => TokensFitPages
  BY DEF IInv
<1> QED
  BY <1>1, SpecIInv, PTL

-----------------------------------------------------------------------------
(* The refinement of TokenStore.                                           *)

(* Splitting a token index into a page table index and an offset loses     *)
(* nothing, and stays inside m pages for a token below m * PageSize.       *)
LEMMA SplitIndex ==
    ASSUME NEW t \in Nat
    PROVE  /\ t \div PageSize \in Nat
           /\ t % PageSize \in 0 .. PageSize - 1
           /\ t = (t \div PageSize) * PageSize + (t % PageSize)
<1>1. t \div PageSize \in Nat
  OBVIOUS
<1>2. t % PageSize \in 0 .. PageSize - 1
  OBVIOUS
<1>3. t = (t \div PageSize) * PageSize + (t % PageSize)
  BY SMTT(60)
<1> QED
  BY <1>1, <1>2, <1>3

LEMMA IndexInTable ==
    ASSUME NEW m \in Nat, NEW t \in Nat, t < m * PageSize
    PROVE  t \div PageSize + 1 \in 1 .. m
<1> DEFINE q == t \div PageSize
           r == t % PageSize
<1>1. q \in Nat /\ r \in Nat /\ t = q * PageSize + r
  BY SplitIndex
<1> HIDE DEF q, r
<1>2. ASSUME q >= m PROVE FALSE
  <2>1. q * PageSize >= m * PageSize
    BY <1>1, <1>2
  <2> QED
    BY <1>1, <2>1
<1>3. q + 1 \in 1 .. m
  BY <1>1, <1>2
<1> QED
  BY <1>3 DEF q

(* Two token indices with the same page index and offset are the same. *)
LEMMA SameSplit ==
    ASSUME NEW t \in Nat, NEW u \in Nat,
           t \div PageSize = u \div PageSize, t % PageSize = u % PageSize
    PROVE  t = u
<1>1. t = (t \div PageSize) * PageSize + (t % PageSize)
  BY SplitIndex
<1>2. u = (u \div PageSize) * PageSize + (u % PageSize)
  BY SplitIndex
<1> QED
  BY <1>1, <1>2

-----------------------------------------------------------------------------
(* The contexts whose tokens still count. *)
Live == {k \in Keys : k = Cleared => clearing.freed = 0}

LEMMA LiveHeld ==
    ASSUME IInv, NEW k \in Live
    PROVE  Held(k) = 1 .. Len(pageTable[k])
  BY DEF Live, Held, IInv, TypeOK

LEMMA SlotOfContexts ==
    ASSUME TypeOK
    PROVE  /\ \A k \in Live : SlotOf[k] = [i \in 1 .. numTokens[k] |-> Location(k, i - 1)]
           /\ \A k \in Keys \ Live : SlotOf[k] = <<>>
           /\ DOMAIN SlotOf = Keys
  BY DEF Live, SlotOf, TypeOK

(* At first there is no token. *)
LEMMA InitStore == Init => Store!Init
  BY DEF Init, Store!Init, SlotOf

(* A step that leaves the page tables and the counts of the live contexts  *)
(* alone, and the same contexts live, is a stuttering step of the store.   *)
LEMMA SameSlots ==
    ASSUME TypeOK, UNCHANGED <<pageTable, numTokens, clearing>>
    PROVE  UNCHANGED SlotOf
  BY DEF SlotOf, Location, Cleared

(* A token joins its context in the first slot after the others. *)
LEMMA AppendIsAdd ==
    ASSUME IInv, IInv', NEW k \in Keys, AppendInPage(k) \/ AppendNewPage(k)
    PROVE  Store!Add(k)
<1> USE DEF IInv
<1> DEFINE n == numTokens[k]
           new == <<pageTable'[k][(n \div PageSize) + 1], n % PageSize>>
<1>1. /\ clearing' = clearing
      /\ numTokens' = [numTokens EXCEPT ![k] = @ + 1]
      /\ n \in Nat
      /\ \A c \in Keys \ {k} : pageTable'[c] = pageTable[c]
      /\ pageTable' \in [Keys -> Seq(Pages)]
      /\ numTokens' \in [Keys -> Nat]
  BY DEF AppendInPage, AppendNewPage, TypeOK
<1>2. \A c \in Keys : \A i \in 1 .. Len(pageTable[c]) : pageTable'[c][i] = pageTable[c][i]
  <2>1. \A i \in 1 .. Len(pageTable[k]) : pageTable'[k][i] = pageTable[k][i]
    <3>1. CASE AppendInPage(k)
      BY <3>1 DEF AppendInPage
    <3>2. CASE AppendNewPage(k)
      <4>1. freeList[Len(freeList)] \in Pages
        BY <3>2 DEF AppendNewPage, TypeOK
      <4> QED
        BY <3>2, <4>1 DEF AppendNewPage, TypeOK
    <3> QED
      BY <3>1, <3>2
  <2> QED
    BY <2>1, <1>1
<1>3. k # Cleared
  <2>1. ASSUME k = Cleared PROVE FALSE
    <3>1. ~ MutexFree /\ clearing.layer \in Layers
      BY <2>1, NobodyCleared DEF Cleared, Keys, MutexFree
    <3>2. todo[k] = 0
      BY <2>1, <3>1 DEF ContextState, Cleared
    <3> QED
      BY <3>2 DEF AppendInPage, AppendNewPage
  <2> QED
    BY <2>1
<1>4. k \in Live /\ Live' = Live /\ Live \subseteq Keys
  BY <1>1, <1>3 DEF Live, Cleared
<1>5. \A c \in Live : Held(c)' = 1 .. Len(pageTable'[c])
  <2>1. ASSUME NEW c \in Live PROVE Held(c)' = 1 .. Len(pageTable'[c])
    <3>1. c = Cleared => clearing.freed = 0
      BY DEF Live
    <3>2. Held(c)' = {i \in 1 .. Len(pageTable'[c]) : c = Cleared => i > clearing.freed}
      BY <1>1 DEF Held, Cleared
    <3>3. Len(pageTable'[c]) \in Nat
      BY <1>1, <1>4
    <3> QED
      BY <3>1, <3>2, <3>3
  <2> QED
    BY <2>1
<1>6. \A c \in Live : numTokens'[c] <= Len(pageTable'[c]) * PageSize
  BY <1>4 DEF TokensFitPages, MaxTokens
<1>7. \A a, c \in Live : \A i \in 1 .. Len(pageTable'[a]), j \in 1 .. Len(pageTable'[c]) :
        pageTable'[a][i] = pageTable'[c][j] => a = c /\ i = j
  BY <1>4, <1>5 DEF PageHasOneOwner
<1>8. numTokens'[k] = n + 1 /\ \A c \in Keys \ {k} : numTokens'[c] = numTokens[c]
  BY <1>1 DEF TypeOK
(* The old tokens stay where they were. *)
<1>9. ASSUME NEW c \in Live, NEW t \in 0 .. numTokens[c] - 1
      PROVE  Location(c, t) = <<pageTable'[c][t \div PageSize + 1], t % PageSize>>
  <2>0. c \in Keys /\ Len(pageTable[c]) \in Nat /\ numTokens[c] \in Nat
    BY <1>4 DEF TypeOK
  <2>1. t < Len(pageTable[c]) * PageSize /\ t \in Nat /\ Len(pageTable[c]) \in Nat
    <3>1. numTokens[c] <= Len(pageTable[c]) * PageSize
      BY <2>0 DEF TokensFitPages, MaxTokens
    <3>2. Len(pageTable[c]) * PageSize \in Nat
      BY <2>0
    <3> QED
      BY <2>0, <3>1, <3>2
  <2>2. t \div PageSize + 1 \in 1 .. Len(pageTable[c])
    BY <2>1, IndexInTable
  <2> QED
    BY <2>2, <1>2, <1>4 DEF Location
(* The new token is in none of their slots. *)
<1>10. ASSUME NEW c \in Live, NEW t \in 0 .. numTokens[c] - 1
       PROVE  Location(c, t) # new
  <2>1. t \in 0 .. numTokens'[c] - 1 /\ n \in 0 .. numTokens'[k] - 1 /\ <<c, t>> # <<k, n>>
    <3>1. c \in Keys /\ numTokens[c] \in Nat /\ numTokens'[k] = n + 1 /\ n \in Nat
      BY <1>1, <1>4, <1>8 DEF TypeOK
    <3>2. n \in 0 .. numTokens'[k] - 1
      BY <3>1
    <3>3. CASE c = k
      BY <3>1, <3>2, <3>3
    <3>4. CASE c # k
      <4>1. numTokens'[c] = numTokens[c]
        BY <3>1, <3>4, <1>8
      <4> QED
        BY <3>2, <3>4, <4>1
    <3> QED
      BY <3>3, <3>4
  <2>2. ASSUME Location(c, t) = new PROVE c = k /\ t = n
    <3>1. /\ pageTable'[c][t \div PageSize + 1] = pageTable'[k][n \div PageSize + 1]
          /\ t % PageSize = n % PageSize
      BY <2>2, <1>9
    <3>2. n < Len(pageTable'[k]) * PageSize /\ Len(pageTable'[k]) \in Nat
      <4>1. numTokens'[k] <= Len(pageTable'[k]) * PageSize
        BY <1>4, <1>6
      <4>2. Len(pageTable'[k]) \in Nat
        BY <1>1
      <4>3. Len(pageTable'[k]) * PageSize \in Nat
        BY <4>2
      <4> QED
        BY <4>1, <4>2, <4>3, <1>1, <1>8
    <3>3. n \div PageSize + 1 \in 1 .. Len(pageTable'[k])
      BY <3>2, <1>1, IndexInTable
    <3>4. c \in Keys /\ Len(pageTable[c]) \in Nat /\ numTokens[c] \in Nat
      BY <1>4 DEF TypeOK
    <3>5. t \in Nat /\ t < Len(pageTable'[c]) * PageSize /\ Len(pageTable'[c]) \in Nat
      <4>1. t \in Nat /\ t < numTokens'[c] /\ numTokens'[c] \in Nat
        BY <2>1, <3>4, <1>1
      <4>2. numTokens'[c] <= Len(pageTable'[c]) * PageSize
        BY <1>6
      <4>3. Len(pageTable'[c]) \in Nat
        BY <3>4, <1>1
      <4>4. Len(pageTable'[c]) * PageSize \in Nat
        BY <4>3
      <4> QED
        BY <4>1, <4>2, <4>3, <4>4
    <3>6. t \div PageSize + 1 \in 1 .. Len(pageTable'[c])
      BY <3>5, IndexInTable
    <3>7. c = k /\ t \div PageSize + 1 = n \div PageSize + 1
      BY <3>1, <3>3, <3>6, <1>4, <1>7
    <3>8. t \div PageSize \in Nat /\ n \div PageSize \in Nat
      BY <3>5, <1>1, SplitIndex
    <3> HIDE DEF n
    <3>9. t \div PageSize = n \div PageSize
      BY <3>7, <3>8
    <3> QED
      BY <3>1, <3>5, <3>7, <3>9, <1>1, SameSplit
  <2> QED
    BY <2>1, <2>2
<1>11. new \in Pages \X (0 .. PageSize - 1)
  <2>1. n < Len(pageTable'[k]) * PageSize /\ Len(pageTable'[k]) \in Nat
    BY <1>1, <1>4, <1>6, <1>8 DEF TypeOK
  <2>2. n \div PageSize + 1 \in 1 .. Len(pageTable'[k])
    BY <2>1, <1>1, IndexInTable
  <2>3. n % PageSize \in 0 .. PageSize - 1
    BY <1>1, SplitIndex
  <2> QED
    BY <2>2, <2>3, <1>1
<1>12. \A c \in Keys : \A i \in DOMAIN SlotOf[c] : SlotOf[c][i] # new
  <2>1. ASSUME NEW c \in Live, NEW i \in DOMAIN SlotOf[c] PROVE SlotOf[c][i] # new
    <3>1. SlotOf[c] = [j \in 1 .. numTokens[c] |-> Location(c, j - 1)]
      BY SlotOfContexts
    <3>2. i \in 1 .. numTokens[c] /\ numTokens[c] \in Nat
      BY <3>1, <1>4 DEF TypeOK
    <3>3. i - 1 \in 0 .. numTokens[c] - 1 /\ SlotOf[c][i] = Location(c, i - 1)
      BY <3>1, <3>2
    <3> HIDE DEF new
    <3> QED
      BY <3>3, <1>10
  <2>2. \A c \in Keys \ Live : DOMAIN SlotOf[c] = {}
    BY SlotOfContexts
  <2> QED
    BY <2>1, <2>2
<1>13. SlotOf' = [SlotOf EXCEPT ![k] = Append(@, new)]
  <2>1. /\ \A c \in Live : SlotOf'[c] = [i \in 1 .. numTokens'[c] |-> Location(c, i - 1)']
        /\ \A c \in Keys \ Live : SlotOf'[c] = <<>>
        /\ SlotOf' = [c \in Keys |-> SlotOf'[c]]
        /\ SlotOf = [c \in Keys |-> SlotOf[c]]
    <3>1. SlotOf' = [c \in Keys |-> SlotOf'[c]] /\ SlotOf = [c \in Keys |-> SlotOf[c]]
      BY DEF SlotOf
    <3> QED
      BY <3>1, <1>4 DEF Live, SlotOf, TypeOK
  <2>2. ASSUME NEW c \in Keys \ {k} PROVE SlotOf'[c] = SlotOf[c]
    <3>1. CASE c \in Live
      <4>1. \A i \in 1 .. numTokens[c] : Location(c, i - 1)' = Location(c, i - 1)
        BY <1>1 DEF Location
      <4>2. numTokens'[c] = numTokens[c]
        BY <1>8
      <4>3. SlotOf'[c] = [i \in 1 .. numTokens[c] |-> Location(c, i - 1)']
        BY <3>1, <4>2, <2>1
      <4>4. SlotOf[c] = [i \in 1 .. numTokens[c] |-> Location(c, i - 1)]
        BY <3>1, SlotOfContexts
      <4> QED
        BY <4>1, <4>3, <4>4
    <3>2. CASE c \notin Live
      BY <3>2, <2>1, SlotOfContexts
    <3> QED
      BY <3>1, <3>2
  <2>3. SlotOf'[k] = Append(SlotOf[k], new)
    <3>1. SlotOf[k] = [i \in 1 .. n |-> Location(k, i - 1)]
      BY <1>4, SlotOfContexts
    <3>2. SlotOf'[k] = [i \in 1 .. n + 1 |-> Location(k, i - 1)']
      BY <2>1, <1>4, <1>8
    <3>3. \A i \in 1 .. n : Location(k, i - 1)' = Location(k, i - 1)
      <4>1. ASSUME NEW i \in 1 .. n PROVE Location(k, i - 1)' = Location(k, i - 1)
        <5>1. i - 1 \in 0 .. numTokens[k] - 1
          BY <1>1
        <5>2. Location(k, i - 1) =
                <<pageTable'[k][(i - 1) \div PageSize + 1], (i - 1) % PageSize>>
          BY <5>1, <1>4, <1>9
        <5> QED
          BY <5>2 DEF Location
      <4> QED
        BY <4>1
    <3>4. \A i \in 1 .. n + 1 : i = n + 1 => Location(k, i - 1)' = new
      <4>1. \A i \in 1 .. n + 1 : i = n + 1 => i - 1 = n
        BY <1>1
      <4> QED
        BY <4>1 DEF Location
    <3>5. Len(SlotOf[k]) = n
      BY <3>1, <1>1
    <3>6. Append(SlotOf[k], new) =
            [i \in 1 .. n + 1 |-> IF i = n + 1 THEN new ELSE SlotOf[k][i]]
      BY <3>5
    <3>7. \A i \in 1 .. n + 1 :
            Location(k, i - 1)' = IF i = n + 1 THEN new ELSE SlotOf[k][i]
      <4>1. ASSUME NEW i \in 1 .. n
            PROVE  Location(k, i - 1)' = SlotOf[k][i] /\ i # n + 1
        <5>1. SlotOf[k][i] = Location(k, i - 1)
          BY <3>1
        <5>2. i # n + 1
          BY <1>1
        <5> QED
          BY <5>1, <5>2, <3>3
      <4>2. \A i \in 1 .. n + 1 : i = n + 1 \/ i \in 1 .. n
        BY <1>1
      <4> HIDE DEF new, n
      <4> QED
        BY <4>1, <4>2, <3>4
    <3> QED
      BY <3>2, <3>6, <3>7
  <2> HIDE DEF new
  <2> QED
    BY <2>1, <2>2, <2>3
<1> HIDE DEF new
<1> QED
  BY <1>11, <1>12, <1>13 DEF Store!Add

-----------------------------------------------------------------------------
(* The first page clear frees takes the tokens of the context with it; the *)
(* other pages change nothing more.                                        *)
LEMMA ClearPageIsDrop ==
    ASSUME IInv, ClearPage
    PROVE  Store!Drop(Cleared) \/ UNCHANGED SlotOf
<1> USE DEF IInv
<1>1. /\ UNCHANGED <<pageTable, numTokens>>
      /\ clearing' = [clearing EXCEPT !.freed = @ + 1]
      /\ clearing.freed \in Nat
      /\ Cleared \in Keys
  BY DEF ClearPage, TypeOK
<1>2. Cleared' = Cleared /\ clearing'.freed = clearing.freed + 1 /\ clearing'.freed > 0
  BY <1>1 DEF Cleared, TypeOK
<1>3. \A k \in Keys : SlotOf'[k] = IF k = Cleared THEN <<>> ELSE SlotOf[k]
  BY <1>1, <1>2 DEF SlotOf, Location
<1>4. SlotOf' = [k \in Keys |-> SlotOf'[k]] /\ SlotOf = [k \in Keys |-> SlotOf[k]]
  BY DEF SlotOf
<1>5. SlotOf' = [SlotOf EXCEPT ![Cleared] = <<>>]
  BY <1>3, <1>4, <1>1
<1> QED
  BY <1>5 DEF Store!Drop

(* Erasing the context, and taking and releasing the mutex, change nothing *)
(* the store shows: the tokens went with the first page.                   *)
LEMMA ClearOthersStutter ==
    ASSUME IInv, ClearLayer \/ ClearEnd \/ \E s \in Seqs : ClearBegin(s)
    PROVE  UNCHANGED SlotOf
<1> USE DEF IInv
<1>1. CASE ClearEnd \/ \E s \in Seqs : ClearBegin(s)
  <2>1. Cleared \notin Keys
    BY <1>1, NobodyCleared DEF ClearBegin, ClearEnd
  <2>2. UNCHANGED <<pageTable, numTokens>> /\ clearing'.freed = 0
    BY <1>1 DEF ClearBegin, ClearEnd
  <2>3. \A k \in Keys : (k = Cleared /\ clearing.freed > 0) = FALSE
    BY <2>1
  <2>4. \A k \in Keys : (k = Cleared' /\ clearing'.freed > 0) = FALSE
    BY <2>2
  <2> QED
    BY <2>2, <2>3, <2>4 DEF SlotOf, Location
<1>2. CASE ClearLayer
  <2>0. Cleared \in Keys
    BY <1>2 DEF ClearLayer, Cleared, Keys, Layers, MutexFree, TypeOK
  <2> PICK k \in Keys : k = Cleared
    BY <2>0
  <2>1. /\ pageTable' = [pageTable EXCEPT ![k] = <<>>]
        /\ numTokens' = [numTokens EXCEPT ![k] = 0]
        /\ clearing'.freed = 0
    BY <1>2 DEF ClearLayer, TypeOK
  <2>2. clearing.freed > 0 \/ numTokens[k] = 0
    <3>1. CASE clearing.freed = 0
      <4>1. Len(pageTable[k]) = 0
        BY <1>2, <3>1 DEF ClearLayer, ContextState
      <4>2. numTokens[k] <= 0 * PageSize /\ numTokens[k] \in Nat
        BY <4>1 DEF TokensFitPages, MaxTokens, TypeOK
      <4> QED
        BY <4>2
    <3> QED
      BY <3>1 DEF TypeOK
  <2>3. SlotOf[k] = <<>>
    <3>1. CASE clearing.freed > 0
      BY <3>1 DEF SlotOf
    <3>2. CASE numTokens[k] = 0
      BY <3>2 DEF SlotOf
    <3> QED
      BY <3>1, <3>2, <2>2
  <2>4. SlotOf'[k] = <<>>
    <3>1. numTokens'[k] = 0
      BY <2>1 DEF TypeOK
    <3> QED
      BY <3>1, <2>1 DEF SlotOf
  <2>5. \A c \in Keys \ {k} : SlotOf'[c] = SlotOf[c]
    BY <2>1 DEF SlotOf, Location, TypeOK
  <2>6. SlotOf' = [c \in Keys |-> SlotOf'[c]] /\ SlotOf = [c \in Keys |-> SlotOf[c]]
    BY DEF SlotOf
  <2> QED
    BY <2>3, <2>4, <2>5, <2>6
<1> QED
  BY <1>1, <1>2

(* Every step of the cache is a step of the store or leaves it alone. *)
LEMMA StepIsStoreStep == IInv /\ IInv' /\ [Next]_vars => [Store!Next]_SlotOf
<1> SUFFICES ASSUME IInv, IInv', [Next]_vars PROVE [Store!Next]_SlotOf
  OBVIOUS
<1>1. ASSUME NEW k \in Keys,
             GetContext(k) \/ (\E n \in 0 .. MaxArg : SetKV(k, n)) \/ AppendFails(k)
      PROVE  UNCHANGED SlotOf
  BY <1>1, SameSlots DEF GetContext, SetKV, AppendFails, IInv
<1>2. ASSUME NEW k \in Keys, AppendInPage(k) \/ AppendNewPage(k) PROVE Store!Next
  BY <1>2, AppendIsAdd DEF Store!Next
<1>3. CASE ClearPage
  <2>1. Cleared \in Keys
    BY <1>3 DEF ClearPage, IInv, TypeOK
  <2> QED
    BY <1>3, <2>1, ClearPageIsDrop DEF Store!Next
<1>4. CASE ClearLayer \/ ClearEnd \/ \E s \in Seqs : ClearBegin(s)
  BY <1>4, ClearOthersStutter
<1>5. CASE UNCHANGED vars
  BY <1>5, SameSlots DEF vars, IInv
<1> QED
  BY <1>1, <1>2, <1>3, <1>4, <1>5 DEF Next

(* set_kv and clear, with all their interleavings, implement the token     *)
(* store: no token ever gets or keeps a slot another live token holds.     *)
THEOREM CacheImplementsStore == Spec => ImplementsTokenStore
<1>1. Spec => Init /\ [][Next]_vars /\ []IInv
  BY SpecIInv, PTL DEF Spec
<1>2. IInv /\ IInv' /\ [Next]_vars => [Store!Next]_SlotOf
  BY StepIsStoreStep
<1> QED
  BY <1>1, <1>2, InitStore, PTL DEF ImplementsTokenStore, Store!Spec

=============================================================================
