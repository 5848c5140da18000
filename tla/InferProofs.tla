------------------------------ MODULE InferProofs ------------------------------
(***************************************************************************)
(* The types of the inference loop for any batches and any pool; and, for  *)
(* one sequence with a prompt of two tokens or more and a pool that is     *)
(* large enough, that attention sees its context and every decode step     *)
(* adds a token, for every number of layers, length of the prompt, size of *)
(* a page and number of steps.                                             *)
(*                                                                         *)
(* The invariant of the second part follows the call of infer: what each   *)
(* count is, and how many pages are left, while the store nodes make room  *)
(* layer by layer, twice per layer, and while update_kv_cache does; that   *)
(* the rows before the next run's are stored; and what the graph in the    *)
(* schedule holds.                                                         *)
(***************************************************************************)
EXTENDS InferRuntime, FiniteSetTheorems, TLAPS

(* One sequence, and not with a prompt of one token. *)
OneSequence == NSeqs = 1 /\ 1 \notin PromptLengths

(* Every layer has pages for the prompt, for n_predict tokens and for the  *)
(* token of the decode graph.                                              *)
EnoughPages == \A m \in PromptLengths : NLayers * PagesOf(m + NPredict + 1) <= TotalPages

-----------------------------------------------------------------------------
(* With the types: no context has more pages than are not free, only a     *)
(* sequence that is there is worked on, and decode stops in time.          *)
TypeInv ==
    /\ TypeOK
    /\ \A k \in Keys : PagesOf(count[k]) + free <= TotalPages
    /\ pc # "inputs" => seq < NSeqs
    /\ mode = "decode" /\ pc # "update" => step < NPredict

(* The pages that are free when d layers have a tokens and the others b. *)
FreeWith(d, a, b) == TotalPages - d * PagesOf(a) - (NLayers - d) * PagesOf(b)

(* Every layer has n tokens, and the first n rows are stored. *)
Holds(n) ==
    /\ \A l \in Layers : count[<<0, l>>] = n
    /\ free = FreeWith(0, n, n)
Kept(n)  == \A l \in Layers : \A i \in 0 .. n - 1 :
                i \in Rows /\ stored[<<0, l>>][i] = [seq |-> 0, pos |-> i]

(* The store nodes have made room in the first layers. *)
Building(n) ==
    /\ \A l \in Layers : count[<<0, l>>] = IF 2 * l < built THEN n + nTokens ELSE n
    /\ preTokenNum = IF built % 2 = 0 THEN 0 ELSE n + nTokens
    /\ free = FreeWith((built + 1) \div 2, n + nTokens, n)

InPrefill ==
    /\ pos = 0 /\ graphs["decode"] = NoGraph
    /\ pc \in {"inputs", "build"} => graphs["prefill"] = NoGraph
    /\ pc = "build" => nTokens = prompt[0] /\ Building(0)
    /\ pc # "build" => preTokenNum = 0
    /\ pc = "inputs" => Holds(0)
    /\ pc \in {"run", "sample"} => Holds(prompt[0])
    /\ pc = "run" => schedule = [seq |-> 0, rows |-> prompt[0]]
    /\ pc = "sample" => Kept(prompt[0])
    /\ pc # "update"

(* update_kv_cache has made room in the layers that are not left to do. *)
Updating(n) ==
    /\ \A l \in Layers : count[<<0, l>>] = IF l \in todo THEN n ELSE n + 1
    /\ free = FreeWith(NLayers - Cardinality(todo), n + 1, n)

(* A decode step runs on the graph for one token, behind what is stored. *)
InDecode ==
    /\ pos = prompt[0] + step
    /\ Kept(pos)
    /\ pc = "inputs" /\ graphs["decode"] = NoGraph => Holds(pos)
    /\ pc = "build" => nTokens = 1 /\ Building(pos)
    /\ pc # "build" => preTokenNum = 0
    /\ pc \in {"run", "sample", "update"} => nTokens = 1 /\ graphs["decode"] # NoGraph
    /\ pc # "build" /\ graphs["decode"] # NoGraph => schedule = [seq |-> 0, rows |-> 1]
    /\ pc = "inputs" /\ graphs["decode"] # NoGraph => Holds(pos + 1)
    /\ pc \in {"run", "sample"} => Holds(pos + 1)
    /\ pc = "sample" => Kept(pos + 1)
    /\ pc = "update" => Updating(pos)

Progress ==
    /\ ~ spilled
    /\ seq = 0 /\ mode = "prefill" => InPrefill
    /\ seq = 0 /\ mode = "decode" => InDecode

IInv == TypeInv /\ Progress

-----------------------------------------------------------------------------
LEMMA Constants ==
    /\ NLayers \in Nat \ {0} /\ PageSize \in Nat \ {0} /\ PromptLengths \subseteq Nat \ {0}
    /\ TotalPages \in Nat /\ NSeqs \in Nat \ {0} /\ NPredict \in Nat \ {0}
    /\ TotalPages * PageSize \in Nat
<1>1. TotalPages \in Nat /\ PageSize \in Nat \ {0}
  BY PagesAssumption, PageSizeAssumption
<1> QED
  BY <1>1, NLayersAssumption, PromptsAssumption, NSeqsAssumption, NPredictAssumption

(* The pages of n tokens hold them, and no fewer pages do. *)
LEMMA PagesOfTokens ==
    ASSUME NEW n \in Nat
    PROVE  /\ PagesOf(n) \in Nat /\ n <= PagesOf(n) * PageSize
           /\ \A q \in Nat : n <= q * PageSize => PagesOf(n) <= q
<1> DEFINE a == n + PageSize - 1
           p == a \div PageSize
<1>1. PageSize \in Nat \ {0} /\ a \in Nat
  BY Constants
<1> HIDE DEF a
<1>2. p \in Nat /\ a % PageSize \in 0 .. PageSize - 1
  BY <1>1
<1>3. a = p * PageSize + (a % PageSize)
  BY <1>1, SMTT(60)
<1>4. PagesOf(n) = p
  BY DEF PagesOf, a
<1> HIDE DEF p
<1>5. p * PageSize \in Nat
  BY <1>1, <1>2
<1>6. n <= p * PageSize
  BY <1>1, <1>2, <1>3, <1>5 DEF a
<1>7. ASSUME NEW q \in Nat, n <= q * PageSize, p >= q + 1 PROVE FALSE
  <2>1. p * PageSize >= (q + 1) * PageSize
    BY <1>1, <1>2, <1>7, SMTT(30)
  <2>2. (q + 1) * PageSize = q * PageSize + PageSize /\ q * PageSize \in Nat
    BY <1>1
  <2> QED
    BY <1>1, <1>2, <1>3, <1>5, <1>7, <2>1, <2>2 DEF a
<1> QED
  BY <1>2, <1>4, <1>6, <1>7

LEMMA MorePages ==
    ASSUME NEW m \in Nat, NEW n \in Nat, m <= n
    PROVE  PagesOf(m) <= PagesOf(n)
<1>1. n <= PagesOf(n) * PageSize /\ PagesOf(n) \in Nat /\ PagesOf(n) * PageSize \in Nat
  BY PagesOfTokens, Constants
<1> QED
  BY <1>1, PagesOfTokens

-----------------------------------------------------------------------------
(* What set_kv may do to a pool that has q pages for the context and the   *)
(* free list together.                                                     *)
LEMMA SetKVTyped ==
    ASSUME TypeInv, NEW k \in Keys, NEW n \in Nat, SetKV(k, n)
    PROVE  /\ count' \in [Keys -> 0 .. TotalPages * PageSize] /\ free' \in 0 .. TotalPages
           /\ \A m \in Keys : PagesOf(count'[m]) + free' <= TotalPages
           /\ count'[k] \in Nat
<1> DEFINE c == count[k]
           q == free + PagesOf(c)
           a == AfterSetKV(k, n)
<1>1. c \in Nat /\ free \in Nat /\ TotalPages \in Nat /\ PageSize \in Nat \ {0}
      /\ TotalPages * PageSize \in Nat /\ c \in 0 .. TotalPages * PageSize
  BY Constants DEF TypeInv, TypeOK
<1>2. PagesOf(c) \in Nat /\ c <= PagesOf(c) * PageSize
  BY <1>1, PagesOfTokens
<1>3. q \in Nat /\ q <= TotalPages /\ q * PageSize \in Nat /\ q * PageSize <= TotalPages * PageSize
  <2>1. q \in Nat /\ q <= TotalPages
    BY <1>1, <1>2 DEF TypeInv
  <2> HIDE DEF q
  <2> QED
    BY <1>1, <2>1, SMTT(30)
<1>4. Room(k) = q * PageSize - c
  BY DEF Room
<1>5. PagesOf(c) * PageSize <= q * PageSize
  <2>1. \A x, y, z \in Nat : x * z <= (y + x) * z
    BY SMTT(30)
  <2> QED
    BY <1>1, <1>2, <2>1
<1> HIDE DEF q
<1>6. PagesOf(c) * PageSize \in Nat
  BY <1>1, <1>2
<1>7. a \in Nat /\ c <= a /\ a <= q * PageSize
  BY <1>1, <1>2, <1>3, <1>4, <1>5, <1>6 DEF AfterSetKV
<1>8. PagesOf(a) \in Nat /\ PagesOf(a) <= q /\ PagesOf(c) <= PagesOf(a)
  BY <1>1, <1>3, <1>7, PagesOfTokens, MorePages
<1>9. count' = [count EXCEPT ![k] = a] /\ free' = free - (PagesOf(a) - PagesOf(c))
  BY DEF SetKV
<1> HIDE DEF a
<1>10. free' \in Nat /\ free' <= free /\ PagesOf(a) + free' <= TotalPages
  BY <1>1, <1>2, <1>3, <1>8, <1>9 DEF q
<1>11. count' \in [Keys -> 0 .. TotalPages * PageSize]
  <2>1. a \in 0 .. TotalPages * PageSize
    BY <1>1, <1>3, <1>7
  <2>2. count \in [Keys -> 0 .. TotalPages * PageSize]
    BY DEF TypeInv, TypeOK
  <2> QED
    BY <1>9, <2>1, <2>2
<1>12. free' \in 0 .. TotalPages
  BY <1>1, <1>10 DEF TypeInv, TypeOK
<1>13. ASSUME NEW m \in Keys PROVE PagesOf(count'[m]) + free' <= TotalPages
  <2>1. CASE m = k
    BY <1>9, <1>10, <1>11, <2>1 DEF TypeInv, TypeOK
  <2>2. CASE m # k
    <3>1. count'[m] = count[m] /\ count[m] \in Nat
      BY <1>1, <1>9, <2>2 DEF TypeInv, TypeOK
    <3>2. PagesOf(count[m]) + free <= TotalPages /\ PagesOf(count[m]) \in Nat
      BY <3>1, PagesOfTokens DEF TypeInv
    <3> QED
      BY <1>1, <1>10, <3>1, <3>2
  <2> QED
    BY <2>1, <2>2
<1> QED
  BY <1>7, <1>9, <1>11, <1>12, <1>13 DEF TypeInv, TypeOK

LEMMA CurrentKeys ==
    ASSUME TypeInv, pc # "inputs", NEW l \in Layers
    PROVE  <<seq, l>> \in Keys
  BY Constants DEF TypeInv, TypeOK, Keys

LEMMA InputsNat == ASSUME TypeOK, seq < NSeqs PROVE Inputs \in Nat \ {0}
<1>1. seq \in 0 .. NSeqs - 1
  BY Constants DEF TypeOK
<1> QED
  <2>1. prompt[seq] \in PromptLengths
    BY <1>1 DEF TypeOK
  <2>2. prompt[seq] \in Nat \ {0}
    BY <2>1, PromptsAssumption
  <2> QED
    BY <2>2 DEF Inputs

LEMMA TypeInit == ASSUME Init PROVE TypeInv
<1>1. NoGraph \in Graphs /\ NoToken \in Tokens
  BY Constants DEF NoGraph, NoToken, Graphs, Tokens
<1>2. TypeOK
  <2>1. graphs \in [Modes -> Graphs] /\ schedule \in Graphs /\ stored \in [Keys -> [Rows -> Tokens]]
    BY <1>1 DEF Init
  <2>2. 0 \in 0 .. NSeqs /\ 0 \in 0 .. 2 * NLayers /\ 0 \in 0 .. NPredict
        /\ 0 \in 0 .. TotalPages * PageSize /\ TotalPages \in 0 .. TotalPages
    BY Constants
  <2>3. count \in [Keys -> 0 .. TotalPages * PageSize]
    BY <2>2 DEF Init
  <2> QED
    BY <2>1, <2>2, <2>3 DEF Init, TypeOK, Modes
<1>3. PagesOf(0) = 0
  BY Constants, PagesOfTokens
<1> QED
  BY <1>2, <1>3, Constants DEF Init, TypeInv

LEMMA TypeStep == ASSUME TypeInv, [Next]_vars PROVE TypeInv'
<1> USE DEF cacheVars
<1>0. NSeqs \in Nat /\ NLayers \in Nat \ {0} /\ NPredict \in Nat \ {0} /\ seq \in Nat
      /\ step \in Nat /\ built \in Nat /\ pos \in Nat /\ nTokens \in Nat
  BY Constants DEF TypeInv, TypeOK
<1>1. CASE BuildInputs
  <2>1. Inputs \in Nat
    BY <1>1, InputsNat DEF BuildInputs, TypeInv
  <2>2. nTokens' \in Nat /\ built' \in 0 .. 2 * NLayers /\ schedule' \in Graphs
        /\ pc' \in {"build", "run"}
    BY <1>0, <1>1, <2>1 DEF BuildInputs, TypeInv, TypeOK
  <2> QED
    BY <1>0, <1>1, <2>2 DEF BuildInputs, TypeInv, TypeOK
<1>2. CASE StoreNode
  <2> DEFINE l == built \div 2
             k == <<seq, l>>
  <2>1. l \in Layers /\ built' \in 0 .. 2 * NLayers
    BY <1>0, <1>2 DEF StoreNode, Layers
  <2>2. k \in Keys
    BY <1>2, <2>1, CurrentKeys DEF StoreNode
  <2> HIDE DEF l
  <2>3. /\ count' \in [Keys -> 0 .. TotalPages * PageSize] /\ free' \in 0 .. TotalPages
        /\ \A m \in Keys : PagesOf(count'[m]) + free' <= TotalPages
        /\ preTokenNum' \in Nat
    <3>1. CASE preTokenNum = 0
      <4>1. SetKV(k, nTokens) /\ preTokenNum' = count'[k]
        BY <1>2, <3>1 DEF StoreNode, l
      <4> QED
        BY <1>0, <2>2, <4>1, SetKVTyped
    <3>2. CASE preTokenNum # 0
      BY <1>2, <3>2 DEF StoreNode, TypeInv, TypeOK
    <3> QED
      BY <3>1, <3>2
  <2> QED
    BY <1>2, <2>1, <2>3 DEF StoreNode, TypeInv, TypeOK
<1>3. CASE GraphBuilt
  <2>1. [seq |-> seq, rows |-> nTokens] \in Graphs
    BY <1>0 DEF TypeInv, TypeOK, Graphs
  <2>2. graphs' \in [Modes -> Graphs] /\ schedule' \in Graphs
    BY <1>3, <2>1 DEF GraphBuilt, TypeInv, TypeOK
  <2> QED
    BY <1>3, <2>2 DEF GraphBuilt, TypeInv, TypeOK
<1>4. CASE Run
  <2>1. schedule.rows \in Nat /\ seq \in 0 .. NSeqs /\ Inputs \in Nat
    <3>1. schedule.rows \in Nat
      BY DEF TypeInv, TypeOK, Graphs
    <3> QED
      BY <1>4, <3>1, InputsNat DEF TypeInv, TypeOK, Run
  <2>2. ASSUME NEW j \in RowsOfRun PROVE TokenAt(j) \in Tokens
    BY <1>0, <2>1 DEF RowsOfRun, TokenAt, Tokens, NoToken
  <2>3. stored \in [Keys -> [Rows -> Tokens]]
    BY DEF TypeInv, TypeOK
  <2>4. stored' \in [Keys -> [Rows -> Tokens]]
    BY <1>4, <2>2, <2>3 DEF Run
  <2>5. spilled' \in BOOLEAN
    BY <1>4 DEF Run
  <2> QED
    BY <1>4, <2>4, <2>5 DEF Run, TypeInv, TypeOK
<1>5. CASE SamplePrefill
  <2>1. prompt[seq] \in Nat
    <3>1. seq < NSeqs /\ mode = "prefill"
      BY <1>5 DEF SamplePrefill, TypeInv
    <3> QED
      BY <3>1, InputsNat DEF Inputs, TypeInv
  <2>2. 0 \in 0 .. NPredict /\ 0 < NPredict
    BY <1>0
  <2> QED
    BY <1>5, <2>1, <2>2 DEF SamplePrefill, TypeInv, TypeOK, Modes
<1>6. CASE SampleDecode
  <2>1. step < NPredict /\ seq < NSeqs
    BY <1>6 DEF SampleDecode, TypeInv
  <2>2. step' \in 0 .. NPredict /\ pos' \in Nat
    BY <1>0, <1>6, <2>1 DEF SampleDecode
  <2> QED
    BY <1>6, <2>1, <2>2 DEF SampleDecode, TypeInv, TypeOK
<1>7. ASSUME NEW l \in Layers, UpdateLayer(l) PROVE TypeInv'
  <2>1. <<seq, l>> \in Keys
    BY <1>7, CurrentKeys DEF UpdateLayer
  <2>2. /\ count' \in [Keys -> 0 .. TotalPages * PageSize] /\ free' \in 0 .. TotalPages
        /\ \A m \in Keys : PagesOf(count'[m]) + free' <= TotalPages
    BY <1>0, <1>7, <2>1, SetKVTyped DEF UpdateLayer
  <2> QED
    BY <1>7, <2>2 DEF UpdateLayer, TypeInv, TypeOK
<1>8. CASE NextStep
  BY <1>8 DEF NextStep, TypeInv, TypeOK
<1>9. CASE EndDecode
  <2>1. seq' \in 0 .. NSeqs
    BY <1>0, <1>9 DEF EndDecode, TypeInv
  <2> QED
    BY <1>9, <2>1 DEF EndDecode, TypeInv, TypeOK, Modes
<1>10. CASE UNCHANGED vars
  BY <1>10 DEF vars, TypeInv, TypeOK
<1> QED
  BY <1>1, <1>2, <1>3, <1>4, <1>5, <1>6, <1>7, <1>8, <1>9, <1>10 DEF Next, Done

(* Type correctness of the inference loop, for any number of sequences and *)
(* any pool: even when set_kv runs out of pages no context gets more than  *)
(* there are, and decode makes no more than n_predict steps.               *)
THEOREM TypeCorrect == Spec => []TypeOK
<1>1. TypeInv => TypeOK
  BY DEF TypeInv
<1> QED
  BY TypeInit, TypeStep, <1>1, PTL DEF Spec

-----------------------------------------------------------------------------
LEMMA OneKeyPerLayer ==
    ASSUME OneSequence
    PROVE  /\ Keys = {0} \X Layers /\ 0 .. NSeqs - 1 = {0}
           /\ \A m \in PromptLengths : m \in Nat /\ m >= 2
<1>1. 0 .. NSeqs - 1 = {0}
  BY DEF OneSequence
<1> QED
  BY <1>1, Constants DEF Keys, OneSequence

(* The rows of a run that begins a page are each in the page they are      *)
(* written to.                                                             *)
LEMMA StartOfPage ==
    ASSUME NEW j \in Nat
    PROVE  /\ Start(j) \in Nat /\ Start(j) % PageSize = 0
           /\ j - Start(j) \in Nat /\ j - Start(j) < PageSize
<1> DEFINE q == j \div PageSize
<1>1. PageSize \in Nat \ {0}
  BY Constants
<1>2. q \in Nat /\ j % PageSize \in 0 .. PageSize - 1
  BY <1>1
<1>3. j = q * PageSize + (j % PageSize)
  BY <1>1, SMTT(60)
<1>4. q * PageSize \in Nat
  BY <1>1, <1>2
<1>5. (q * PageSize) % PageSize = 0
  <2>1. \A m \in Nat : (m * PageSize) % PageSize = 0
    BY <1>1, SMTT(60)
  <2> QED
    BY <1>2, <2>1
<1>6. Start(j) = q * PageSize
  BY DEF Start
<1> HIDE DEF q
<1> DEFINE s == q * PageSize
<1>7. s \in Nat /\ j = s + (j % PageSize) /\ s % PageSize = 0 /\ Start(j) = s
  BY <1>3, <1>4, <1>5, <1>6
<1> HIDE DEF s
<1> QED
  BY <1>1, <1>2, <1>7

(* The pages that are free while some layers have more tokens than others. *)
LEMMA FreeAgain ==
    ASSUME NEW d \in Nat, NEW a \in Nat, NEW b \in Nat
    PROVE  /\ FreeWith(d + 1, a, b) = FreeWith(d, a, b) - (PagesOf(a) - PagesOf(b))
           /\ FreeWith(NLayers, a, b) = FreeWith(0, a, a)
           /\ FreeWith(0, a, b) = FreeWith(0, b, b)
<1> DEFINE x == PagesOf(a)
           y == PagesOf(b)
<1>1. x \in Nat /\ y \in Nat /\ NLayers \in Nat /\ TotalPages \in Nat
  BY PagesOfTokens, Constants
<1> HIDE DEF x, y
<1>2. (d + 1) * x = d * x + x /\ (NLayers - (d + 1)) * y = (NLayers - d) * y - y
  BY <1>1, SMTT(30)
<1>3. d * x \in Nat /\ (NLayers - d) * y \in Int /\ NLayers * x \in Nat
      /\ (NLayers - NLayers) * y = 0 /\ (NLayers - 0) * x = NLayers * x /\ 0 * x = 0 /\ 0 * y = 0
      /\ (NLayers - 0) * y \in Nat
  BY <1>1, SMTT(30)
<1> QED
  BY <1>1, <1>2, <1>3 DEF FreeWith, x, y

(* There is room for t tokens more in a layer that has n tokens when d     *)
(* others have them already and the pool holds as much in every layer.     *)
LEMMA RoomLeft ==
    ASSUME NEW k \in Keys, NEW n \in Nat, NEW t \in Nat, NEW d \in 0 .. NLayers - 1,
           free = FreeWith(d, n + t, n), count[k] = n, n # t,
           NLayers * PagesOf(n + t) <= TotalPages, SetKV(k, t)
    PROVE  /\ AfterSetKV(k, t) = n + t
           /\ count' = [count EXCEPT ![k] = n + t]
           /\ free' = FreeWith(d + 1, n + t, n)
<1> DEFINE x == PagesOf(n + t)
           y == PagesOf(n)
<1>1. NLayers \in Nat /\ d \in Nat /\ d <= NLayers - 1 /\ TotalPages \in Nat /\ PageSize \in Nat
  BY Constants
<1>2. x \in Nat /\ y \in Nat /\ y <= x /\ n + t <= x * PageSize /\ x * PageSize \in Nat
  BY <1>1, PagesOfTokens, MorePages
<1>3. free + y >= x /\ free \in Int
  <2>1. free = TotalPages - d * x - (NLayers - d) * y /\ NLayers * x <= TotalPages
    BY DEF FreeWith
  <2> HIDE DEF x, y
  <2>2. d * x \in Nat /\ (NLayers - d) * y \in Nat /\ (NLayers - d - 1) * y \in Nat
        /\ (NLayers - d - 1) * x \in Nat /\ NLayers * x \in Nat
    BY <1>1, <1>2, SMTT(30)
  <2>3. (NLayers - d) * y = (NLayers - d - 1) * y + y
        /\ NLayers * x = d * x + (NLayers - d - 1) * x + x
    BY <1>1, <1>2, SMTT(30)
  <2>4. (NLayers - d - 1) * y <= (NLayers - d - 1) * x
    BY <1>1, <1>2, SMTT(30)
  <2> QED
    BY <1>1, <1>2, <2>1, <2>2, <2>3, <2>4
<1>4. Room(k) = (free + y) * PageSize - n
  BY DEF Room
<1> HIDE DEF x, y
<1>5. (free + y) * PageSize >= x * PageSize /\ (free + y) * PageSize \in Int
  BY <1>1, <1>2, <1>3, SMTT(30)
<1>6. t <= Room(k)
  BY <1>2, <1>4, <1>5
<1>7. AfterSetKV(k, t) = n + t
  BY <1>6 DEF AfterSetKV
<1> QED
  BY <1>1, <1>7, FreeAgain DEF SetKV

-----------------------------------------------------------------------------
(* What the steps below start from. *)
Before == OneSequence /\ EnoughPages /\ IInv

LEMMA Ranges ==
    ASSUME Before
    PROVE  /\ seq \in {0, 1} /\ mode \in Modes /\ pos \in Nat /\ step \in Nat
           /\ prompt[0] \in Nat /\ prompt[0] >= 2 /\ prompt[0] \in PromptLengths
           /\ Keys = {0} \X Layers /\ count \in [Keys -> 0 .. TotalPages * PageSize]
           /\ seq < NSeqs => seq = 0
           /\ seq = 0 <=> seq < NSeqs
           /\ graphs \in [Modes -> Graphs]
<1>1. seq \in 0 .. 1 /\ NSeqs = 1
  BY DEF Before, IInv, TypeInv, TypeOK, OneSequence
<1>2. prompt[0] \in PromptLengths
  BY OneKeyPerLayer DEF Before, IInv, TypeInv, TypeOK
<1> QED
  BY <1>1, <1>2, OneKeyPerLayer DEF Before, IInv, TypeInv, TypeOK

(* The pool has room for as many tokens as a sequence can get. *)
LEMMA Enough ==
    ASSUME Before, NEW n \in Nat, n <= prompt[0] + NPredict + 1
    PROVE  NLayers * PagesOf(n) <= TotalPages
<1> DEFINE m == prompt[0] + NPredict + 1
<1>1. m \in Nat /\ NLayers \in Nat /\ TotalPages \in Nat
  BY Ranges, Constants
<1>2. NLayers * PagesOf(m) <= TotalPages
  BY Ranges DEF Before, EnoughPages
<1>3. PagesOf(n) \in Nat /\ PagesOf(m) \in Nat /\ PagesOf(n) <= PagesOf(m)
  BY <1>1, PagesOfTokens, MorePages
<1>4. NLayers * PagesOf(n) <= NLayers * PagesOf(m) /\ NLayers * PagesOf(n) \in Nat
      /\ NLayers * PagesOf(m) \in Nat
  BY <1>1, <1>3, SMTT(30)
<1> QED
  BY <1>1, <1>2, <1>4

-----------------------------------------------------------------------------
LEMMA InitProgress ==
    ASSUME OneSequence, Init
    PROVE  Progress
<1>1. FreeWith(0, 0, 0) = TotalPages
  <2>1. PagesOf(0) = 0
    BY Constants, PagesOfTokens
  <2> QED
    BY <2>1, Constants DEF FreeWith
<1>2. InPrefill
  BY <1>1, OneKeyPerLayer DEF Init, InPrefill, Holds, Modes
<1> QED
  BY <1>2 DEF Init, Progress

LEMMA BuildInputsKeeps == ASSUME Before, BuildInputs PROVE Progress'
<1> USE DEF cacheVars
<1>1. seq = 0 /\ pc = "inputs" /\ NLayers \in Nat
  BY Ranges, Constants DEF BuildInputs
<1>2. ~ spilled'
  BY DEF Before, BuildInputs, IInv, Progress
<1>3. ASSUME NEW n \in Nat, Holds(n), built' = 0, nTokens' \in Nat, preTokenNum' = 0
      PROVE  Building(n)'
  <2>1. FreeWith(0, n + nTokens', n) = FreeWith(0, n, n)
    BY <1>3, FreeAgain
  <2>2. \A l \in Layers : ~ (2 * l < built')
    BY <1>1, <1>3 DEF Layers
  <2>3. (built' + 1) \div 2 = 0 /\ built' % 2 = 0
    BY <1>3
  <2>4. count' = count /\ free' = free
    BY DEF BuildInputs
  <2>5. free = FreeWith(0, n + nTokens', n)
    BY <1>3, <2>1 DEF Holds
  <2> QED
    BY <1>3, <2>2, <2>3, <2>4, <2>5 DEF Holds, Building, FreeWith
<1>4. (seq = 0 /\ mode = "prefill" => InPrefill)'
  <2> SUFFICES ASSUME mode = "prefill" PROVE InPrefill'
    BY DEF BuildInputs
  <2>1. InPrefill
    BY <1>1 DEF Before, IInv, Progress
  <2>2. graphs["prefill"] = NoGraph /\ nTokens' = prompt[0] /\ built' = 0 /\ pc' = "build"
        /\ preTokenNum' = 0
    BY <1>1, <2>1 DEF InPrefill, BuildInputs, Inputs
  <2>3. Building(0)'
    BY <1>1, <1>3, <2>1, <2>2, Ranges DEF InPrefill
  <2> QED
    BY <2>1, <2>2, <2>3 DEF InPrefill, BuildInputs
<1>5. (seq = 0 /\ mode = "decode" => InDecode)'
  <2> SUFFICES ASSUME mode = "decode" PROVE InDecode'
    BY DEF BuildInputs
  <2>1. InDecode
    BY <1>1 DEF Before, IInv, Progress
  <2>2. Kept(pos)' /\ (pos = prompt[0] + step)' /\ preTokenNum = 0 /\ preTokenNum' = 0
    BY <1>1, <2>1 DEF InDecode, BuildInputs, Kept
  <2>3. nTokens' = 1 /\ graphs' = graphs /\ pos' = pos
    BY <1>1 DEF BuildInputs, Inputs
  <2>4. CASE graphs["decode"] = NoGraph
    <3>1. built' = 0 /\ pc' = "build"
      BY <1>1, <2>4 DEF BuildInputs
    <3>2. \A n \in Nat : n = pos => Building(n)'
      BY <1>1, <1>3, <2>1, <2>2, <2>3, <2>4, <3>1 DEF InDecode
    <3>3. Building(pos)'
      BY <2>3, <3>2, Ranges DEF Building
    <3> QED
      BY <2>2, <2>3, <2>4, <3>1, <3>3 DEF InDecode
  <2>5. CASE graphs["decode"] # NoGraph
    <3>1. pc' = "run" /\ schedule' = schedule
      BY <1>1, <2>5 DEF BuildInputs
    <3>2. Holds(pos + 1)'
      BY <1>1, <2>1, <2>2, <2>5 DEF InDecode, BuildInputs, Holds
    <3> QED
      BY <1>1, <2>1, <2>2, <2>3, <2>5, <3>1, <3>2 DEF InDecode
  <2> QED
    BY <2>4, <2>5
<1> QED
  BY <1>2, <1>4, <1>5 DEF Progress

(* A store node makes room for its layer when it is the first of the two. *)
LEMMA StoreNodeBuilds ==
    ASSUME Before, StoreNode, NEW n \in Nat, Building(n), nTokens \in Nat, nTokens >= 1,
           nTokens # n, seq = 0, NLayers * PagesOf(n + nTokens) <= TotalPages
    PROVE  Building(n)'
<1> DEFINE l == built \div 2
<1>1. built \in Nat /\ built < 2 * NLayers /\ built' = built + 1 /\ NLayers \in Nat
      /\ nTokens' = nTokens
  BY Constants DEF StoreNode, Before, IInv, TypeInv, TypeOK
<1>2. l \in Layers /\ l \in 0 .. NLayers - 1 /\ \A m \in Layers : m \in Nat
  BY <1>1 DEF Layers
<1>3. count \in [Keys -> 0 .. TotalPages * PageSize] /\ Keys = {0} \X Layers
  BY Ranges
<1>4. CASE preTokenNum = 0
  <2>1. built % 2 = 0 /\ 2 * l = built /\ (built + 1) \div 2 = l /\ (built' + 1) \div 2 = l + 1
        /\ built' % 2 = 1
    BY <1>1, <1>4 DEF Building
  <2>2. count[<<0, l>>] = n /\ <<0, l>> \in Keys
    BY <1>2, <1>3, <2>1 DEF Building
  <2>3. free = FreeWith(l, n + nTokens, n) /\ SetKV(<<0, l>>, nTokens)
        /\ preTokenNum' = count'[<<0, l>>]
    BY <1>4, <2>1 DEF Building, StoreNode
  <2> HIDE DEF l
  <2>4. count' = [count EXCEPT ![<<0, l>>] = n + nTokens] /\ free' = FreeWith(l + 1, n + nTokens, n)
    BY <1>2, <2>2, <2>3, RoomLeft
  <2>5. preTokenNum' = n + nTokens
    BY <1>3, <2>2, <2>3, <2>4
  <2>6. \A m \in Layers : count'[<<0, m>>] = IF 2 * m < built' THEN n + nTokens ELSE n
    <3> TAKE m \in Layers
    <3>1. count'[<<0, m>>] = IF m = l THEN n + nTokens ELSE count[<<0, m>>]
      BY <1>3, <2>2, <2>4
    <3>2. (2 * m < built') <=> (m = l \/ 2 * m < built)
      BY <1>1, <1>2, <2>1
    <3> QED
      BY <3>1, <3>2 DEF Building
  <2> QED
    BY <1>1, <2>1, <2>4, <2>5, <2>6 DEF Building, FreeWith
<1>5. CASE preTokenNum # 0
  <2>1. built % 2 = 1 /\ built' % 2 = 0 /\ (built' + 1) \div 2 = (built + 1) \div 2
    BY <1>1, <1>5 DEF Building
  <2>2. count' = count /\ free' = free /\ preTokenNum' = 0
    BY <1>5 DEF StoreNode
  <2>3. \A m \in Layers : (2 * m < built') <=> (2 * m < built)
    BY <1>1, <1>2, <2>1
  <2>4. free' = FreeWith((built' + 1) \div 2, n + nTokens', n)
    BY <1>1, <2>1, <2>2 DEF Building
  <2> QED
    BY <1>1, <2>1, <2>2, <2>3, <2>4 DEF Building, FreeWith
<1> QED
  BY <1>4, <1>5

LEMMA StoreNodeKeeps == ASSUME Before, StoreNode PROVE Progress'
<1>1. seq = 0 /\ seq' = 0 /\ pc = "build" /\ pc' = "build" /\ mode' = mode /\ nTokens' = nTokens
      /\ pos' = pos /\ graphs' = graphs /\ schedule' = schedule /\ stored' = stored
      /\ prompt' = prompt /\ step' = step /\ ~ spilled'
  BY Ranges DEF Before, StoreNode, IInv, TypeInv, Progress
<1>2. CASE mode = "prefill"
  <2>1. InPrefill
    BY <1>1, <1>2 DEF Before, IInv, Progress
  <2>2. nTokens = prompt[0] /\ nTokens \in Nat /\ nTokens >= 2
    BY <1>1, <2>1, Ranges DEF InPrefill
  <2>3. NLayers * PagesOf(0 + nTokens) <= TotalPages
    BY <2>2, Enough, Constants
  <2>4. Building(0)'
    BY <1>1, <2>1, <2>2, <2>3, StoreNodeBuilds DEF InPrefill
  <2>5. InPrefill'
    BY <1>1, <2>1, <2>2, <2>4 DEF InPrefill
  <2> QED
    BY <1>1, <1>2, <2>5 DEF Progress
<1>3. CASE mode = "decode"
  <2>1. InDecode
    BY <1>1, <1>3 DEF Before, IInv, Progress
  <2>2. nTokens = 1 /\ pos \in Nat /\ pos >= 2 /\ pos + 1 <= prompt[0] + NPredict + 1
    BY <1>1, <1>3, <2>1, Ranges, Constants DEF InDecode, Before, IInv, TypeInv
  <2>3. Building(pos) /\ NLayers * PagesOf(pos + nTokens) <= TotalPages
    BY <1>1, <2>1, <2>2, Enough DEF InDecode
  <2>4. \A n \in Nat : n = pos => Building(n)'
    BY <1>1, <2>2, <2>3, StoreNodeBuilds
  <2>5. Building(pos)'
    BY <1>1, <2>2, <2>4 DEF Building
  <2>6. InDecode'
    BY <1>1, <2>1, <2>2, <2>5 DEF InDecode, Kept
  <2> QED
    BY <1>1, <1>3, <2>6 DEF Progress
<1> QED
  BY <1>2, <1>3, Ranges DEF Modes

LEMMA GraphBuiltKeeps == ASSUME Before, GraphBuilt PROVE Progress'
<1>1. seq = 0 /\ seq' = 0 /\ pc = "build" /\ pc' = "run" /\ mode' = mode /\ nTokens' = nTokens
      /\ pos' = pos /\ stored' = stored /\ prompt' = prompt /\ count' = count /\ free' = free
      /\ preTokenNum' = preTokenNum /\ step' = step /\ ~ spilled'
  BY Ranges DEF Before, GraphBuilt, IInv, TypeInv, Progress, cacheVars
<1>2. built = 2 * NLayers /\ built % 2 = 0 /\ (built + 1) \div 2 = NLayers /\ built \in Nat
      /\ \A l \in Layers : 2 * l < built
  BY Constants DEF GraphBuilt, Layers
<1> DEFINE G == [seq |-> 0, rows |-> nTokens]
<1>3. G # NoGraph
  BY DEF Before, NoGraph, OneSequence
<1>4. graphs' = [graphs EXCEPT ![mode] = G] /\ schedule' = G /\ graphs'[mode] = G
  BY <1>1, Ranges DEF GraphBuilt
<1> HIDE DEF G
<1>5. ASSUME NEW n \in Nat, Building(n), nTokens \in Nat
      PROVE  Holds(n + nTokens) /\ preTokenNum = 0
  <2>1. FreeWith(NLayers, n + nTokens, n) = FreeWith(0, n + nTokens, n + nTokens)
    BY <1>2, <1>5, FreeAgain
  <2> QED
    BY <1>2, <1>5, <2>1 DEF Building, Holds
<1>6. CASE mode = "prefill"
  <2>1. InPrefill
    BY <1>1, <1>6 DEF Before, IInv, Progress
  <2>2. nTokens = prompt[0] /\ nTokens \in Nat /\ 0 + nTokens = nTokens
    BY <1>1, <2>1, Ranges DEF InPrefill
  <2>3. Holds(nTokens) /\ preTokenNum = 0
    BY <1>1, <1>5, <2>1, <2>2 DEF InPrefill
  <2>4. graphs'["decode"] = graphs["decode"]
    BY <1>4, <1>6, Ranges DEF Modes
  <2>5. Holds(prompt[0])'
    BY <1>1, <2>2, <2>3 DEF Holds
  <2>6. InPrefill'
    BY <1>1, <1>4, <2>1, <2>2, <2>3, <2>4, <2>5 DEF InPrefill, G
  <2> QED
    BY <1>1, <1>6, <2>6 DEF Progress
<1>7. CASE mode = "decode"
  <2>1. InDecode
    BY <1>1, <1>7 DEF Before, IInv, Progress
  <2>2. nTokens = 1 /\ pos \in Nat
    BY <1>1, <2>1, Ranges DEF InDecode
  <2>3. Holds(pos + nTokens) /\ preTokenNum = 0
    BY <1>1, <1>5, <2>1, <2>2 DEF InDecode
  <2>4. Holds(pos + 1)'
    BY <1>1, <2>2, <2>3 DEF Holds, FreeWith
  <2>5. InDecode'
    BY <1>1, <1>3, <1>4, <1>7, <2>1, <2>2, <2>3, <2>4 DEF InDecode, Kept, G
  <2> QED
    BY <1>1, <1>7, <2>5 DEF Progress
<1> QED
  BY <1>6, <1>7, Ranges DEF Modes

(* The rows of a run go behind the n tokens stored, each to the row of its *)
(* position, when they stay in their pages.                                *)
LEMMA RunStores ==
    ASSUME Before, Run, seq = 0, NEW n \in Nat, Kept(n), pos = n,
           schedule = [seq |-> 0, rows |-> Inputs], Inputs \in Nat, Holds(n + Inputs),
           \A l \in Layers : \A j \in RowsOfRun : InPage(<<0, l>>, j)
    PROVE  Kept(n + Inputs)' /\ ~ spilled'
<1>1. Keys = {0} \X Layers /\ count \in [Keys -> 0 .. TotalPages * PageSize]
  BY Ranges
<1>2. \A l \in Layers : First(<<0, l>>) = n /\ Stores(<<0, l>>)
  <2> TAKE l \in Layers
  <2>1. count[<<0, l>>] = n + Inputs /\ schedule.rows = Inputs /\ schedule.seq = 0
    BY DEF Holds
  <2>2. First(<<0, l>>) = n
    BY <2>1 DEF First
  <2> QED
    BY <2>1, <2>2 DEF Stores
<1>3. RowsOfRun = 0 .. Inputs - 1 /\ \A j \in RowsOfRun : TokenAt(j) = [seq |-> 0, pos |-> n + j]
  BY DEF RowsOfRun, TokenAt
<1>4. ASSUME NEW l \in Layers, NEW i \in Rows
      PROVE  stored'[<<0, l>>][i] = IF i - n \in RowsOfRun THEN [seq |-> 0, pos |-> i]
                                                          ELSE stored[<<0, l>>][i]
  <2>1. <<0, l>> \in Keys /\ i \in Int /\ i >= 0
    BY <1>1 DEF Rows
  <2>2. stored'[<<0, l>>][i] = IF Stores(<<0, l>>) /\ i - First(<<0, l>>) \in RowsOfRun
                                    /\ InPage(<<0, l>>, i - First(<<0, l>>))
                              THEN TokenAt(i - First(<<0, l>>)) ELSE stored[<<0, l>>][i]
    BY <2>1 DEF Run
  <2>3. stored'[<<0, l>>][i] = IF i - n \in RowsOfRun THEN TokenAt(i - n) ELSE stored[<<0, l>>][i]
    BY <1>2, <2>2
  <2> QED
    BY <1>3, <2>1, <2>3
<1>5. \A l \in Layers : \A i \in 0 .. n + Inputs - 1 : i \in Rows
  <2> TAKE l \in Layers
  <2>1. count[<<0, l>>] \in 0 .. TotalPages * PageSize /\ count[<<0, l>>] = n + Inputs
    BY <1>1 DEF Holds
  <2> QED
    BY <2>1, Constants DEF Rows
<1>6. Kept(n + Inputs)'
  <2> SUFFICES ASSUME NEW l \in Layers, NEW i \in 0 .. n + Inputs - 1
               PROVE  i \in Rows /\ stored'[<<0, l>>][i] = [seq |-> 0, pos |-> i]
    <3>1. (n + Inputs)' = n + Inputs
      BY DEF Inputs, Run
    <3>2. Kept(n + Inputs)' <=> \A l \in Layers : \A i \in 0 .. (n + Inputs)' - 1 :
              i \in Rows /\ stored'[<<0, l>>][i] = [seq |-> 0, pos |-> i]
      BY DEF Kept
    <3> QED
      BY <3>1, <3>2
  <2>1. i \in Rows
    BY <1>5
  <2>2. CASE i < n
    <3>1. i \in 0 .. n - 1 /\ i - n \notin RowsOfRun
      BY <1>3, <2>2
    <3> QED
      BY <1>4, <2>1, <3>1 DEF Kept
  <2>3. CASE i >= n
    <3>1. i - n \in RowsOfRun
      BY <1>3, <2>3
    <3> QED
      BY <1>4, <2>1, <3>1
  <2> QED
    BY <2>2, <2>3
<1>7. ~ spilled'
  <2>1. ~ \E k \in Keys : Stores(k) /\ \E j \in RowsOfRun : ~ InPage(k, j)
    BY <1>1
  <2> QED
    BY <2>1 DEF Run, Before, IInv, Progress
<1> QED
  BY <1>6, <1>7

LEMMA RunKeeps == ASSUME Before, Run PROVE Progress'
<1>1. seq = 0 /\ seq' = 0 /\ pc = "run" /\ pc' = "sample" /\ mode' = mode /\ nTokens' = nTokens
      /\ pos' = pos /\ graphs' = graphs /\ schedule' = schedule /\ prompt' = prompt
      /\ count' = count /\ free' = free /\ preTokenNum' = preTokenNum /\ step' = step
  BY Ranges DEF Before, Run, IInv, TypeInv
<1>2. pos \in Nat /\ PageSize \in Nat \ {0} /\ prompt[0] \in Nat
  BY Ranges, Constants
<1>3. CASE mode = "prefill"
  <2>1. InPrefill
    BY <1>1, <1>3 DEF Before, IInv, Progress
  <2>2. Inputs = prompt[0] /\ pos = 0 /\ schedule = [seq |-> 0, rows |-> prompt[0]]
        /\ Holds(prompt[0])
    BY <1>1, <1>3, <2>1 DEF InPrefill, Inputs
  <2>3. \A l \in Layers : \A j \in RowsOfRun : InPage(<<0, l>>, j)
    <3> TAKE l \in Layers
    <3> TAKE j \in RowsOfRun
    <3>1. First(<<0, l>>) = 0 /\ j \in Nat
      BY <1>2, <2>2 DEF First, Holds, RowsOfRun
    <3>2. 0 + Start(j) = Start(j)
      BY <3>1, StartOfPage
    <3> QED
      BY <3>1, <3>2, StartOfPage, <1>2 DEF InPage
  <2>4. Kept(0)
    BY DEF Kept
  <2>5. 0 + Inputs = Inputs
    BY <1>2, <2>2
  <2>6. Kept(0 + Inputs)' /\ ~ spilled'
    BY <1>1, <1>2, <2>2, <2>3, <2>4, <2>5, RunStores
  <2>7. Kept(prompt[0])'
    <3>1. (0 + Inputs)' = prompt'[0]
      BY <1>1, <1>2, <1>3 DEF Inputs
    <3> QED
      BY <2>6, <3>1 DEF Kept
  <2>8. InPrefill'
    BY <1>1, <2>1, <2>2, <2>7 DEF InPrefill, Holds
  <2> QED
    BY <1>1, <1>3, <2>6, <2>8 DEF Progress
<1>4. CASE mode = "decode"
  <2>1. InDecode
    BY <1>1, <1>4 DEF Before, IInv, Progress
  <2>2. Inputs = 1 /\ schedule = [seq |-> 0, rows |-> 1] /\ Holds(pos + 1) /\ Kept(pos)
    BY <1>1, <1>4, <2>1 DEF InDecode, Inputs
  <2>3. \A l \in Layers : \A j \in RowsOfRun : InPage(<<0, l>>, j)
    <3> TAKE l \in Layers
    <3> TAKE j \in RowsOfRun
    <3>1. First(<<0, l>>) = pos /\ j = 0
      BY <1>2, <2>2 DEF First, Holds, RowsOfRun
    <3>2. Start(0) = 0
      BY <1>2 DEF Start
    <3>3. pos % PageSize < PageSize
      BY <1>2
    <3> QED
      BY <1>2, <3>1, <3>2, <3>3 DEF InPage
  <2>4. Kept(pos + Inputs)' /\ ~ spilled'
    <3>1. \A n \in Nat : n = pos => (Kept(n + Inputs)' /\ ~ spilled')
      BY <1>1, <2>2, <2>3, RunStores
    <3> QED
      BY <1>1, <1>2, <3>1 DEF Kept, Inputs
  <2>5. Kept(pos + 1)'
    BY <1>1, <1>4, <2>2, <2>4 DEF Kept, Inputs
  <2>6. Kept(pos)'
    <3>1. 0 .. pos' - 1 \subseteq 0 .. (pos + 1)' - 1
      BY <1>1, <1>2
    <3> QED
      BY <2>5, <3>1 DEF Kept
  <2>7. InDecode'
    BY <1>1, <2>1, <2>2, <2>5, <2>6 DEF InDecode, Holds
  <2> QED
    BY <1>1, <1>4, <2>4, <2>7 DEF Progress
<1> QED
  BY <1>3, <1>4, Ranges DEF Modes

LEMMA SamplePrefillKeeps == ASSUME Before, SamplePrefill PROVE Progress'
<1>1. seq = 0 /\ seq' = 0 /\ pc = "sample" /\ mode' = "decode" /\ pc' = "inputs"
      /\ InPrefill /\ ~ spilled'
  BY Ranges DEF Before, SamplePrefill, IInv, TypeInv, Progress, cacheVars
<1>2. prompt[0] \in Nat /\ pos' = prompt[0] /\ step' = 0 /\ preTokenNum = 0
      /\ Holds(prompt[0]) /\ Kept(prompt[0]) /\ graphs["decode"] = NoGraph
  BY <1>1, Ranges DEF SamplePrefill, InPrefill
<1>3. Holds(pos)' /\ Kept(pos)' /\ (pos = prompt[0] + step)'
  BY <1>2 DEF SamplePrefill, Holds, Kept, cacheVars
<1>4. InDecode'
  BY <1>1, <1>2, <1>3 DEF SamplePrefill, InDecode
<1> QED
  BY <1>1, <1>4 DEF Progress

LEMMA SampleDecodeKeeps == ASSUME Before, SampleDecode PROVE Progress'
<1>1. seq = 0 /\ seq' = 0 /\ pc = "sample" /\ mode = "decode" /\ mode' = "decode" /\ pc' = "update"
      /\ InDecode /\ ~ spilled'
  BY Ranges DEF Before, SampleDecode, IInv, TypeInv, Progress, cacheVars
<1>2. pos \in Nat /\ step \in Nat /\ prompt[0] \in Nat /\ pos' = pos + 1 /\ step' = step + 1
      /\ todo' = Layers /\ Holds(pos + 1) /\ Kept(pos + 1)
  BY <1>1, Ranges DEF SampleDecode, InDecode
<1>3. Cardinality(Layers) = NLayers
  BY FS_Interval, Constants DEF Layers
<1>4. free' = FreeWith(NLayers - Cardinality(todo'), pos' + 1, pos')
  <2>1. FreeWith(0, pos + 1, pos + 1) = FreeWith(0, pos' + 1, pos')
    BY <1>2, FreeAgain
  <2>2. NLayers - Cardinality(todo') = 0
    BY <1>2, <1>3, Constants
  <2> QED
    BY <1>2, <2>1, <2>2 DEF SampleDecode, Holds, cacheVars
<1>5. Kept(pos)' /\ Updating(pos)' /\ (pos = prompt[0] + step)'
  BY <1>1, <1>2, <1>4 DEF SampleDecode, InDecode, Holds, Kept, Updating, FreeWith, cacheVars
<1>6. InDecode'
  BY <1>1, <1>2, <1>5 DEF SampleDecode, InDecode
<1> QED
  BY <1>1, <1>6 DEF Progress

(* update_kv_cache makes room for one token in each layer it visits. *)
LEMMA UpdateLayerAdds ==
    ASSUME Before, NEW l \in Layers, UpdateLayer(l)
    PROVE  /\ seq = 0 /\ mode = "decode" /\ InDecode
           /\ count[<<0, l>>] = pos /\ <<0, l>> \in Keys
           /\ count' = [count EXCEPT ![<<0, l>>] = pos + 1]
           /\ free' = FreeWith(NLayers - Cardinality(todo'), pos + 1, pos)
<1>1. pc = "update" /\ l \in todo /\ seq = 0 /\ mode \in Modes /\ pos \in Nat
      /\ todo \subseteq Layers /\ step \in Nat /\ step <= NPredict
  BY Ranges, Constants DEF Before, UpdateLayer, IInv, TypeInv, TypeOK
<1>2. mode = "decode" /\ InDecode
  BY <1>1 DEF Before, IInv, Progress, InPrefill, Modes
<1>3. nTokens = 1 /\ pos >= 2 /\ Updating(pos) /\ pos + 1 <= prompt[0] + NPredict + 1
  BY <1>1, <1>2, Ranges, Constants DEF InDecode
<1>4. <<0, l>> \in Keys /\ count[<<0, l>>] = pos /\ SetKV(<<0, l>>, 1)
  BY <1>1, <1>3, Ranges DEF Updating, UpdateLayer
<1> DEFINE d == NLayers - Cardinality(todo)
<1>5. d \in 0 .. NLayers - 1 /\ d + 1 = NLayers - Cardinality(todo')
  <2>1. IsFiniteSet(Layers) /\ Cardinality(Layers) = NLayers /\ NLayers \in Nat
    BY FS_Interval, Constants DEF Layers
  <2>2. IsFiniteSet(todo) /\ Cardinality(todo) <= NLayers /\ Cardinality(todo) \in Nat
    BY <1>1, <2>1, FS_Subset, FS_CardinalityType
  <2>3. Cardinality(todo) # 0
    BY <1>1, <2>2, FS_EmptySet
  <2>4. Cardinality(todo') = Cardinality(todo) - 1
    BY <1>1, <2>2, FS_RemoveElement DEF UpdateLayer
  <2> QED
    BY <2>1, <2>2, <2>3, <2>4
<1>6. free = FreeWith(d, pos + 1, pos) /\ NLayers * PagesOf(pos + 1) <= TotalPages
  BY <1>1, <1>3, Enough DEF Updating
<1> HIDE DEF d
<1>7. count' = [count EXCEPT ![<<0, l>>] = pos + 1] /\ free' = FreeWith(d + 1, pos + 1, pos)
  BY <1>1, <1>3, <1>4, <1>5, <1>6, RoomLeft
<1> QED
  BY <1>1, <1>2, <1>4, <1>5, <1>7

LEMMA UpdateLayerKeeps ==
    ASSUME Before, NEW l \in Layers, UpdateLayer(l)
    PROVE  Progress'
<1>1. /\ seq = 0 /\ mode = "decode" /\ InDecode
      /\ count[<<0, l>>] = pos /\ <<0, l>> \in Keys
      /\ count' = [count EXCEPT ![<<0, l>>] = pos + 1]
      /\ free' = FreeWith(NLayers - Cardinality(todo'), pos + 1, pos)
  BY UpdateLayerAdds
<1>2. Keys = {0} \X Layers /\ count \in [Keys -> 0 .. TotalPages * PageSize]
  BY Ranges
<1>3. \A m \in Layers : count'[<<0, m>>] = IF m \in todo' THEN pos ELSE pos + 1
  <2> TAKE m \in Layers
  <2>1. count[<<0, m>>] = IF m \in todo THEN pos ELSE pos + 1
    BY <1>1 DEF UpdateLayer, InDecode, Updating
  <2>2. count'[<<0, m>>] = IF m = l THEN pos + 1 ELSE count[<<0, m>>]
    BY <1>1, <1>2
  <2> QED
    BY <2>1, <2>2 DEF UpdateLayer
<1>4. Updating(pos)'
  BY <1>1, <1>3 DEF UpdateLayer, Updating, FreeWith
<1>5. InDecode'
  BY <1>1, <1>4 DEF UpdateLayer, InDecode, Kept
<1> QED
  BY <1>1, <1>5 DEF Progress, UpdateLayer, Before, IInv

LEMMA NextStepKeeps == ASSUME Before, NextStep PROVE Progress'
<1>1. seq = 0 /\ seq' = 0 /\ pc = "update" /\ pc' = "inputs" /\ mode' = mode /\ todo = {}
      /\ pos \in Nat /\ ~ spilled'
  BY Ranges DEF Before, NextStep, IInv, TypeInv, Progress, cacheVars
<1>2. mode = "decode" /\ InDecode
  BY <1>1, Ranges DEF Before, IInv, Progress, InPrefill, Modes
<1>3. Holds(pos + 1)
  <2>1. Cardinality(todo) = 0
    BY <1>1, FS_EmptySet
  <2>2. free = FreeWith(NLayers, pos + 1, pos)
    BY <1>1, <1>2, <2>1, Constants DEF InDecode, Updating
  <2>3. FreeWith(NLayers, pos + 1, pos) = FreeWith(0, pos + 1, pos + 1)
    BY <1>1, FreeAgain
  <2> QED
    BY <1>1, <1>2, <2>2, <2>3 DEF InDecode, Updating, Holds
<1>4. InDecode'
  BY <1>1, <1>2, <1>3 DEF NextStep, InDecode, Kept, Holds, cacheVars
<1> QED
  BY <1>1, <1>2, <1>4 DEF Progress

LEMMA EndDecodeKeeps == ASSUME Before, EndDecode PROVE Progress'
<1>1. seq = 0 /\ seq' = 1 /\ ~ spilled'
  BY Ranges DEF Before, EndDecode, IInv, TypeInv, Progress, cacheVars
<1> QED
  BY <1>1 DEF Progress

LEMMA StutterKeeps == ASSUME Before, UNCHANGED vars PROVE Progress'
<1>1. InPrefill' <=> InPrefill
  BY DEF InPrefill, Holds, Kept, Building, FreeWith, vars
<1>2. InDecode' <=> InDecode
  BY DEF InDecode, Holds, Kept, Building, Updating, FreeWith, vars
<1> QED
  BY <1>1, <1>2 DEF Before, IInv, Progress, vars

LEMMA StepKeeps == ASSUME Before, [Next]_vars PROVE IInv'
<1>1. TypeInv'
  BY TypeStep DEF Before, IInv
<1>2. CASE BuildInputs
  BY <1>1, <1>2, BuildInputsKeeps DEF IInv
<1>3. CASE StoreNode
  BY <1>1, <1>3, StoreNodeKeeps DEF IInv
<1>4. CASE GraphBuilt
  BY <1>1, <1>4, GraphBuiltKeeps DEF IInv
<1>5. CASE Run
  BY <1>1, <1>5, RunKeeps DEF IInv
<1>6. CASE SamplePrefill
  BY <1>1, <1>6, SamplePrefillKeeps DEF IInv
<1>7. CASE SampleDecode
  BY <1>1, <1>7, SampleDecodeKeeps DEF IInv
<1>8. CASE \E l \in Layers : UpdateLayer(l)
  BY <1>1, <1>8, UpdateLayerKeeps DEF IInv
<1>9. CASE NextStep
  BY <1>1, <1>9, NextStepKeeps DEF IInv
<1>10. CASE EndDecode
  BY <1>1, <1>10, EndDecodeKeeps DEF IInv
<1>11. CASE UNCHANGED vars
  BY <1>1, <1>11, StutterKeeps DEF IInv
<1> QED
  BY <1>2, <1>3, <1>4, <1>5, <1>6, <1>7, <1>8, <1>9, <1>10, <1>11 DEF Next, Done

-----------------------------------------------------------------------------
LEMMA IInvAttends == ASSUME Before PROVE AttentionSeesContext
<1> SUFFICES ASSUME pc = "sample"
             PROVE  /\ ~ spilled
                    /\ \A l \in Layers : LET k == <<seq, l>> IN
                         /\ count[k] = pos + Inputs
                         /\ \A i \in 0 .. count[k] - 1 : stored[k][i] = [seq |-> seq, pos |-> i]
  BY DEF AttentionSeesContext
<1>1. seq = 0 /\ ~ spilled
  BY Ranges DEF Before, IInv, TypeInv, Progress
<1>2. CASE mode = "prefill"
  <2>1. pos = 0 /\ Inputs = prompt[0] /\ Holds(prompt[0]) /\ Kept(prompt[0]) /\ prompt[0] \in Nat
    BY <1>1, <1>2, Ranges DEF Before, IInv, Progress, InPrefill, Inputs
  <2> QED
    BY <1>1, <2>1 DEF Holds, Kept
<1>3. CASE mode = "decode"
  <2>1. Inputs = 1 /\ Holds(pos + 1) /\ Kept(pos + 1)
    BY <1>1, <1>3 DEF Before, IInv, Progress, InDecode, Inputs
  <2> QED
    BY <1>1, <2>1 DEF Holds, Kept
<1> QED
  BY <1>2, <1>3, Ranges DEF Modes

(* When the pool is large enough attention sees the whole context of the   *)
(* sequence and nothing else (prefill and decode of LLMInferRuntime with   *)
(* the store nodes and update_kv_cache).                                   *)
THEOREM AttentionSound ==
    ASSUME OneSequence, EnoughPages
    PROVE  Spec => []AttentionSeesContext
<1>1. Init => IInv
  BY TypeInit, InitProgress DEF IInv
<1>2. IInv /\ [Next]_vars => IInv'
  BY StepKeeps DEF Before
<1>3. IInv => AttentionSeesContext
  BY IInvAttends DEF Before
<1> QED
  BY <1>1, <1>2, <1>3, PTL DEF Spec

(* When the pool is large enough update_kv_cache never leaves a layer      *)
(* without its next token and never adds two.                              *)
THEOREM StepsAddTokens ==
    ASSUME OneSequence, EnoughPages
    PROVE  Spec => DecodeAddsToken
<1>1. Init => IInv
  BY TypeInit, InitProgress DEF IInv
<1>2. IInv /\ [Next]_vars => IInv'
  BY StepKeeps DEF Before
<1> DEFINE Adds == \A l \in Layers : l \in todo /\ l \notin todo'
                      => count'[<<seq, l>>] = count[<<seq, l>>] + 1
<1>3. IInv /\ [Next]_vars => [Adds]_vars
  <2> SUFFICES ASSUME IInv, Next, NEW l \in Layers, l \in todo, l \notin todo'
               PROVE  count'[<<seq, l>>] = count[<<seq, l>>] + 1
    OBVIOUS
  <2>1. PICK m \in Layers : UpdateLayer(m)
    BY DEF Next, BuildInputs, StoreNode, GraphBuilt, Run, SamplePrefill, SampleDecode,
           NextStep, EndDecode, Done, vars
  <2>2. m = l
    BY <2>1 DEF UpdateLayer
  <2>3. count \in [Keys -> 0 .. TotalPages * PageSize]
    BY DEF IInv, TypeInv, TypeOK
  <2> QED
    BY <2>1, <2>2, <2>3, UpdateLayerAdds DEF Before
<1> QED
  BY <1>1, <1>2, <1>3, PTL DEF Spec, DecodeAddsToken
=============================================================================
