------------------------------- MODULE BatchProofs -------------------------------
(***************************************************************************)
(* What init of the batch manager makes of the prompts, for any prompts,   *)
(* any vocabulary and any size of a ubatch.                                *)
(*                                                                         *)
(* The inductive invariant relates the main batch to the sequences that    *)
(* are linked so far: each of them has a row for exactly the positions     *)
(* behind _shared_prefix_len, in the order of the loop, and shares at      *)
(* least as much with its parent as with any unfinished sequence before it.*)
(***************************************************************************)
EXTENDS BatchManager, FiniteSetTheorems, TLAPS

(* Induction over the natural numbers, as facts about sets.                *)
LEMMA Least ==
    ASSUME NEW T, T \subseteq Nat, T # {}
    PROVE  \E x \in T : \A y \in T : x <= y
<1> DEFINE R == OpToRel(<, Nat)
<1>1. IsWellFoundedOn(R, Nat)
  BY NatLessThanWellFounded
<1>2. \A x, y \in Nat : x < y <=> <<x, y>> \in R
  BY DEF OpToRel
<1> HIDE DEF R
<1>3. PICK x \in T : \A y \in T : ~ (<<y, x>> \in R)
  BY <1>1, WFMin
<1>4. \A y \in T : ~ (y < x)
  BY <1>2, <1>3
<1> QED
  BY <1>4

LEMMA Largest ==
    ASSUME NEW b \in Nat, NEW T, T \subseteq 0 .. b, T # {}
    PROVE  \E x \in T : \A y \in T : y <= x
<1> DEFINE U == {b - x : x \in T}
<1>1. U \subseteq Nat /\ U # {}
  <2>1. \A x \in T : b - x \in Nat
    OBVIOUS
  <2> QED
    BY <2>1
<1>2. PICK u \in U : \A v \in U : u <= v
  BY <1>1, Least
<1>3. PICK x \in T : u = b - x
  OBVIOUS
<1>4. \A y \in T : u <= b - y
  BY <1>2
<1> QED
  BY <1>3, <1>4

-----------------------------------------------------------------------------
(* A sequence SetToSeqs may return has every element of the set once.      *)
LEMMA Permutation ==
    ASSUME NEW S, IsFiniteSet(S), NEW o \in SetToSeqs(S)
    PROVE  /\ Len(o) = Cardinality(S) /\ Len(o) \in Nat /\ o \in Seq(S)
           /\ DOMAIN o = 1 .. Len(o) /\ IsInjective(o) /\ ToSet(o) = S
<1> DEFINE n == Cardinality(S)
<1>1. n \in Nat
  BY FS_CardinalityType
<1>2. o \in [1 .. n -> S] /\ \A i, j \in 1 .. n : i # j => o[i] # o[j]
  BY DEF SetToSeqs
<1>3. o \in Seq(S) /\ Len(o) = n /\ DOMAIN o = 1 .. n
  BY <1>1, <1>2
<1>4. IsInjective(o) /\ o \in Injection(1 .. n, S)
  BY <1>2 DEF IsInjective, Injection
<1>5. IsFiniteSet(1 .. n) /\ Cardinality(1 .. n) = n
  BY <1>1, FS_Interval
<1>6. o \in Surjection(1 .. n, S)
  BY <1>4, <1>5, FS_Injection
<1>7. ToSet(o) = S
  BY <1>2, <1>6 DEF Surjection, ToSet
<1> QED
  BY <1>1, <1>3, <1>4, <1>7

(* InOrder lists the elements of a set from the smallest on.               *)
LEMMA Enumeration ==
    ASSUME NEW I, I \subseteq Nat, IsFiniteSet(I)
    PROVE  /\ InOrder(I) \in Seq(I) /\ DOMAIN InOrder(I) = 1 .. Len(InOrder(I))
           /\ Len(InOrder(I)) = Cardinality(I) /\ Len(InOrder(I)) \in Nat
           /\ ToSet(InOrder(I)) = I
           /\ \A m, n \in DOMAIN InOrder(I) : m < n => InOrder(I)[m] < InOrder(I)[n]
<1> DEFINE n == Cardinality(I)
           upto(i) == {j \in I : j <= i}
           rank == [i \in I |-> Cardinality(upto(i))]
           o == InOrder(I)
<1>1. n \in Nat
  BY FS_CardinalityType
<1>2. ASSUME NEW i \in I
      PROVE  IsFiniteSet(upto(i)) /\ Cardinality(upto(i)) \in 1 .. n
  <2>1. upto(i) \in SUBSET I /\ upto(i) # {}
    OBVIOUS
  <2>2. IsFiniteSet(upto(i)) /\ Cardinality(upto(i)) <= n
    BY <2>1, FS_Subset
  <2>3. Cardinality(upto(i)) \in Nat
    BY <2>2, FS_CardinalityType
  <2>4. Cardinality(upto(i)) # 0
    BY <2>1, <2>2, FS_EmptySet
  <2> QED
    BY <1>1, <2>2, <2>3, <2>4
<1>3. ASSUME NEW i \in I, NEW k \in I, i < k
      PROVE  Cardinality(upto(i)) < Cardinality(upto(k))
  <2>1. k \notin upto(i) /\ upto(i) \union {k} \in SUBSET upto(k)
    <3>1. i \in Nat /\ k \in Nat /\ ~ (k <= i) /\ k <= k
      BY <1>3
    <3>2. \A j \in I : j <= i => j <= k
      BY <3>1, <1>3
    <3> QED
      BY <3>1, <3>2
  <2>2. IsFiniteSet(upto(i)) /\ Cardinality(upto(i)) \in Nat
        /\ IsFiniteSet(upto(k)) /\ Cardinality(upto(k)) \in Nat
    BY <1>1, <1>2
  <2>3. Cardinality(upto(i) \union {k}) = Cardinality(upto(i)) + 1
    BY <2>1, <2>2, FS_AddElement
  <2>4. Cardinality(upto(i) \union {k}) <= Cardinality(upto(k))
    BY <2>1, <2>2, FS_Subset
  <2> QED
    BY <2>2, <2>3, <2>4
<1>4. rank \in [I -> 1 .. n] /\ \A i \in I : rank[i] = Cardinality(upto(i))
  BY <1>2
<1>5. o = [m \in 1 .. n |-> CHOOSE i \in I : Cardinality(upto(i)) = m]
  BY DEF InOrder
<1> HIDE DEF upto, rank, o
<1>6. \A i, k \in I : i < k => rank[i] < rank[k]
  BY <1>3, <1>4
<1>7. \A i, k \in I : rank[i] = rank[k] => i = k
  <2> SUFFICES ASSUME NEW i \in I, NEW k \in I, i # k PROVE rank[i] # rank[k]
    OBVIOUS
  <2>1. i < k \/ k < i
    OBVIOUS
  <2>2. rank[i] \in Nat /\ rank[k] \in Nat
    BY <1>1, <1>4
  <2> QED
    BY <2>1, <2>2, <1>6
<1>8. rank \in Injection(I, 1 .. n)
  BY <1>4, <1>7 DEF Injection, IsInjective
<1>9. rank \in Surjection(I, 1 .. n)
  <2>1. IsFiniteSet(1 .. n) /\ Cardinality(1 .. n) = n
    BY <1>1, FS_Interval
  <2> QED
    BY <1>8, <2>1, FS_Injection
<1>10. \A m \in 1 .. n : o[m] \in I /\ rank[o[m]] = m
  <2> SUFFICES ASSUME NEW m \in 1 .. n PROVE o[m] \in I /\ rank[o[m]] = m
    OBVIOUS
  <2>1. \E i \in I : Cardinality(upto(i)) = m
    BY <1>4, <1>9 DEF Surjection
  <2>2. o[m] = CHOOSE i \in I : Cardinality(upto(i)) = m
    BY <1>5
  <2>3. o[m] \in I /\ Cardinality(upto(o[m])) = m
    BY <2>1, <2>2
  <2> QED
    BY <2>3, <1>4
<1>11. DOMAIN o = 1 .. n /\ o \in [1 .. n -> I]
  BY <1>5, <1>10
<1>12. o \in Seq(I) /\ Len(o) = n
  BY <1>1, <1>11
<1>13. ToSet(o) = I
  <2>1. \A i \in I : rank[i] \in 1 .. n /\ o[rank[i]] = i
    BY <1>4, <1>7, <1>10
  <2> QED
    BY <2>1, <1>10, <1>11 DEF ToSet
<1>14. \A m, k \in 1 .. n : m < k => o[m] < o[k]
  <2> SUFFICES ASSUME NEW m \in 1 .. n, NEW k \in 1 .. n, m < k PROVE o[m] < o[k]
    OBVIOUS
  <2>1. o[m] \in I /\ o[k] \in I /\ rank[o[m]] = m /\ rank[o[k]] = k
    BY <1>10
  <2>2. o[m] \in Nat /\ o[k] \in Nat /\ m \in Nat /\ k \in Nat
    <3>1. \A x \in 1 .. n : x \in Nat
      BY <1>1
    <3> QED
      BY <2>1, <3>1
  <2>3. o[m] # o[k] /\ ~ (k < m)
    BY <2>1, <2>2
  <2>4. ~ (o[k] < o[m])
    BY <2>1, <2>3, <1>6
  <2> QED
    BY <2>2, <2>3, <2>4
<1> QED
  BY <1>1, <1>11, <1>12, <1>13, <1>14 DEF o

-----------------------------------------------------------------------------
LEMMA SameStart ==
    ASSUME NEW a \in Seq(Int), NEW b \in Seq(Int),
           NEW k \in Nat, k <= Len(a), k <= Len(b)
    PROVE  SubSeq(a, 1, k) = SubSeq(b, 1, k) <=> \A i \in 1 .. k : a[i] = b[i]
<1>1. /\ SubSeq(a, 1, k) \in Seq(Int) /\ SubSeq(b, 1, k) \in Seq(Int)
      /\ Len(SubSeq(a, 1, k)) = k /\ Len(SubSeq(b, 1, k)) = k
      /\ \A i \in 1 .. k : SubSeq(a, 1, k)[i] = a[i] /\ SubSeq(b, 1, k)[i] = b[i]
  OBVIOUS
<1>2. (\A i \in 1 .. k : a[i] = b[i]) => SubSeq(a, 1, k) = SubSeq(b, 1, k)
  BY <1>1
<1>3. SubSeq(a, 1, k) = SubSeq(b, 1, k) => \A i \in 1 .. k : a[i] = b[i]
  BY <1>1
<1> QED
  BY <1>2, <1>3

LEMMA StartIsPrefix ==
    ASSUME NEW a \in Seq(Int), NEW b \in Seq(Int), NEW k \in Nat, k <= Len(a)
    PROVE  IsPrefix(SubSeq(a, 1, k), b)
           <=> k <= Len(b) /\ \A i \in 1 .. k : a[i] = b[i]
<1>1. /\ SubSeq(a, 1, k) \in Seq(Int) /\ Len(SubSeq(a, 1, k)) = k
      /\ \A i \in 1 .. k : SubSeq(a, 1, k)[i] = a[i]
  OBVIOUS
<1>2. k <= Len(b) => (SubSeq(SubSeq(a, 1, k), 1, k) = SubSeq(b, 1, k)
                      <=> \A i \in 1 .. k : SubSeq(a, 1, k)[i] = b[i])
  BY <1>1, SameStart
<1> QED
  BY <1>1, <1>2 DEF IsPrefix

(* The longest common prefix of two sequences: there is one, and its       *)
(* length is the largest number of leading tokens in which they agree.     *)
LEMMA CommonPrefix ==
    ASSUME NEW a \in Seq(Int), NEW b \in Seq(Int),
           NEW n, n = Len(LongestCommonPrefix({a, b}))
    PROVE  /\ n \in Nat /\ n <= Len(a) /\ n <= Len(b)
           /\ \A i \in 1 .. n : a[i] = b[i]
           /\ \A k \in Nat : k <= Len(a) /\ k <= Len(b)
                             /\ (\A i \in 1 .. k : a[i] = b[i]) => k <= n
<1> DEFINE C == CommonPrefixes({a, b})
           L == LongestCommonPrefix({a, b})
           Agree == {k \in 0 .. Len(a) : k <= Len(b) /\ \A i \in 1 .. k : a[i] = b[i]}
<1>1. C = {SubSeq(a, 1, k) : k \in Agree}
  <2>1. ASSUME NEW k \in Agree PROVE SubSeq(a, 1, k) \in C
    <3>1. SubSeq(a, 1, k) \in UNION {Prefixes(c) : c \in {a, b}}
      BY DEF Prefixes
    <3>2. IsPrefix(SubSeq(a, 1, k), a) /\ IsPrefix(SubSeq(a, 1, k), b)
      BY StartIsPrefix
    <3> QED
      BY <3>1, <3>2 DEF CommonPrefixes
  <2>2. ASSUME NEW c \in C PROVE \E k \in Agree : c = SubSeq(a, 1, k)
    <3>1. IsPrefix(c, a) /\ IsPrefix(c, b)
      BY DEF CommonPrefixes
    <3>2. c \in Prefixes(a) \/ c \in Prefixes(b)
      BY DEF CommonPrefixes
    <3>3. CASE c \in Prefixes(a)
      <4>1. PICK k \in 0 .. Len(a) : c = SubSeq(a, 1, k)
        BY <3>3 DEF Prefixes
      <4>2. k \in Agree
        BY <4>1, <3>1, StartIsPrefix
      <4> QED
        BY <4>1, <4>2
    <3>4. CASE c \in Prefixes(b)
      <4>1. PICK k \in 0 .. Len(b) : c = SubSeq(b, 1, k)
        BY <3>4 DEF Prefixes
      <4>2. k <= Len(a) /\ \A i \in 1 .. k : b[i] = a[i]
        BY <4>1, <3>1, StartIsPrefix
      <4>3. k \in Agree /\ SubSeq(a, 1, k) = SubSeq(b, 1, k)
        BY <4>2, SameStart
      <4> QED
        BY <4>1, <4>3
    <3> QED
      BY <3>2, <3>3, <3>4
  <2> QED
    BY <2>1, <2>2
<1>2. PICK m \in Agree : \A k \in Agree : k <= m
  <2>1. 0 \in Agree /\ Agree \subseteq 0 .. Len(a) /\ Len(a) \in Nat
    OBVIOUS
  <2> QED
    BY <2>1, Largest
<1>3. \A k \in Agree : Len(SubSeq(a, 1, k)) = k
  OBVIOUS
<1>4. \E c \in C : \A d \in C : Len(d) <= Len(c)
  <2>1. SubSeq(a, 1, m) \in C /\ Len(SubSeq(a, 1, m)) = m
    BY <1>1, <1>3
  <2>2. \A d \in C : Len(d) <= m
    BY <1>1, <1>2, <1>3
  <2> QED
    BY <2>1, <2>2
<1>5. L \in C /\ \A d \in C : Len(d) <= Len(L)
  <2>1. L = CHOOSE c \in C : \A d \in C : Len(d) <= Len(c)
    BY DEF LongestCommonPrefix
  <2> HIDE DEF L, C
  <2> QED
    BY <2>1, <1>4
<1>6. PICK l \in Agree : L = SubSeq(a, 1, l)
  BY <1>1, <1>5
<1>7. n = l
  BY <1>3, <1>6
<1>8. \A k \in Agree : k <= n
  BY <1>1, <1>3, <1>5
<1>9. l \in Nat /\ l <= Len(a) /\ l <= Len(b) /\ \A i \in 1 .. l : a[i] = b[i]
  OBVIOUS
<1>10. n \in Nat /\ n <= Len(a) /\ n <= Len(b) /\ \A i \in 1 .. n : a[i] = b[i]
  BY <1>7, <1>9
<1>11. \A k \in Nat : k <= Len(a) => k \in 0 .. Len(a)
  OBVIOUS
<1> QED
  BY <1>8, <1>10, <1>11

-----------------------------------------------------------------------------
(* The sequences that are linked stand at the places of order before `at'. *)
Done == 1 .. at - 1

OrderFixed ==
    /\ at \in 1 .. Len(order) + 1
    /\ IsInjective(order)
    /\ pc = "sort" => order = <<>>
    /\ pc # "sort" => ToSet(order) = {s \in Seqs : prompt[s] # <<>>}

(* What a linked sequence shares, and with whom.                           *)
LinksOK ==
    \A l \in Done :
        LET s == order[l] IN
        /\ shared[s] <= Len(prompt[s])
        /\ parent[s] = NoSeq => shared[s] = 0
        /\ parent[s] # NoSeq =>
              \E j \in 1 .. l - 1 :
                  /\ parent[s] = order[j] /\ ~ finished[order[j]]
                  /\ shared[s] = SharedLen(s, order[j])
        /\ \A j \in 1 .. l - 1 :
              ~ finished[order[j]] => SharedLen(s, order[j]) <= shared[s]

(* The rows of the main batch.                                             *)
RowsOK ==
    /\ \A n \in DOMAIN batch :
          /\ batch[n] = Row(batch[n].seq, batch[n].pos)
          /\ batch[n].pos \in shared[batch[n].seq] .. Len(prompt[batch[n].seq]) - 1
          /\ \E l \in Done : batch[n].seq = order[l]
    /\ \A l \in Done : \A p \in shared[order[l]] .. Len(prompt[order[l]]) - 1 :
          \E n \in DOMAIN batch : batch[n].seq = order[l] /\ batch[n].pos = p
    /\ \A m, n \in DOMAIN batch : \A j, l \in Done :
          m < n /\ batch[m].seq = order[j] /\ batch[n].seq = order[l]
          => j < l \/ (j = l /\ batch[m].pos < batch[n].pos)

(* The ubatches hold the rows of the main batch, each of them once, those  *)
(* of a sequence in their order.                                           *)
Before(x, y) == x[1] < y[1] \/ (x[1] = y[1] /\ x[2] < y[2])
PlacesIn(ub) == UNION {{<<u, n>> : n \in DOMAIN ub[u]} : u \in DOMAIN ub}
Distributed(ub) ==
    \E g \in Bijection(PlacesIn(ub), DOMAIN batch) :
        /\ \A x \in PlacesIn(ub) : ub[x[1]][x[2]] = batch[g[x]]
        /\ \A x, y \in PlacesIn(ub) :
              Before(x, y) /\ batch[g[x]].seq = batch[g[y]].seq => g[x] < g[y]

BatchInv ==
    /\ TypeOK /\ OrderFixed /\ LinksOK /\ RowsOK
    /\ pc # "done" => ubatches = <<>>
    /\ pc = "done" => at = Len(order) + 1 /\ Distributed(ubatches) /\ SplitsKeepOrder

-----------------------------------------------------------------------------
LEMMA PromptTypes ==
    ASSUME TypeOK, NEW s \in Seqs
    PROVE  prompt[s] \in Seq(Int) /\ Len(prompt[s]) \in Nat
<1>1. prompt[s] \in Prompts
  BY DEF TypeOK
<1> QED
  BY <1>1, PromptsAssumption

LEMMA SharedTokens ==
    ASSUME TypeOK, NEW s \in Seqs, NEW t \in Seqs
    PROVE  /\ SharedLen(s, t) \in Nat
           /\ SharedLen(s, t) <= Len(prompt[s]) /\ SharedLen(s, t) <= Len(prompt[t])
           /\ \A i \in 1 .. SharedLen(s, t) : prompt[s][i] = prompt[t][i]
           /\ \A k \in Nat : k <= Len(prompt[s]) /\ k <= Len(prompt[t])
                  /\ (\A i \in 1 .. k : prompt[s][i] = prompt[t][i]) => k <= SharedLen(s, t)
<1>1. prompt[s] \in Seq(Int) /\ prompt[t] \in Seq(Int)
  BY PromptTypes
<1> DEFINE n == SharedLen(s, t)
<1>2. n = Len(LongestCommonPrefix({prompt[s], prompt[t]}))
  BY DEF SharedLen
<1> HIDE DEF n
<1>3. /\ n \in Nat /\ n <= Len(prompt[s]) /\ n <= Len(prompt[t])
      /\ \A i \in 1 .. n : prompt[s][i] = prompt[t][i]
      /\ \A k \in Nat : k <= Len(prompt[s]) /\ k <= Len(prompt[t])
             /\ (\A i \in 1 .. k : prompt[s][i] = prompt[t][i]) => k <= n
  <2> DEFINE a == prompt[s]  b == prompt[t]
  <2>1. a \in Seq(Int) /\ b \in Seq(Int) /\ n = Len(LongestCommonPrefix({a, b}))
    BY <1>1, <1>2
  <2> HIDE DEF a, b
  <2>2. /\ n \in Nat /\ n <= Len(a) /\ n <= Len(b)
        /\ \A i \in 1 .. n : a[i] = b[i]
        /\ \A k \in Nat : k <= Len(a) /\ k <= Len(b)
               /\ (\A i \in 1 .. k : a[i] = b[i]) => k <= n
    BY <2>1, CommonPrefix
  <2> QED
    BY <2>2 DEF a, b
<1> QED
  BY <1>3 DEF n

LEMMA SeqsFinite == IsFiniteSet(Seqs) /\ NoSeq \notin Seqs /\ Seqs \subseteq Nat
  BY NSeqsAssumption, FS_Interval DEF Seqs, NoSeq

LEMMA OrderTypes ==
    ASSUME TypeOK, OrderFixed
    PROVE  /\ Len(order) \in Nat /\ DOMAIN order = 1 .. Len(order) /\ at \in Nat \ {0}
           /\ \A l \in 1 .. Len(order) : order[l] \in Seqs
           /\ \A j, l \in 1 .. Len(order) : order[j] = order[l] => j = l
           /\ Done \subseteq 1 .. Len(order)
<1>1. order \in Seq(Seqs) /\ at \in Nat \ {0} /\ at <= Len(order) + 1
  BY DEF TypeOK, OrderFixed
<1>2. Len(order) \in Nat /\ DOMAIN order = 1 .. Len(order)
      /\ \A l \in 1 .. Len(order) : order[l] \in Seqs
  BY <1>1
<1>3. \A j, l \in 1 .. Len(order) : order[j] = order[l] => j = l
  BY <1>2 DEF OrderFixed, IsInjective
<1> QED
  BY <1>1, <1>2, <1>3 DEF Done

(* The parent BestParent finds shares more than any other sequence before  *)
(* it that is not finished.                                                *)
LEMMA BestParentIsBest ==
    ASSUME TypeOK, OrderFixed, at <= Len(order)
    PROVE  /\ BestParent = NoSeq => Candidates = {}
           /\ BestParent # NoSeq =>
                 \E j \in Candidates :
                    /\ BestParent = order[j]
                    /\ \A l \in Candidates :
                          SharedLen(order[at], order[l]) <= SharedLen(order[at], order[j])
<1> DEFINE len(j) == SharedLen(order[at], order[j])
           best   == {j \in Candidates : \A l \in Candidates : len(l) <= len(j)}
           lens   == {len(j) : j \in Candidates}
<1>1. at \in 1 .. Len(order) /\ order[at] \in Seqs /\ Len(prompt[order[at]]) \in Nat
  BY OrderTypes, PromptTypes
<1>2. \A j \in Candidates : j \in 1 .. at - 1 /\ j \in Nat /\ order[j] \in Seqs
  BY <1>1, OrderTypes DEF Candidates
<1>3. \A j \in Candidates : len(j) \in 0 .. Len(prompt[order[at]])
  BY <1>1, <1>2, SharedTokens
<1>4. BestParent = IF best = {} THEN NoSeq
                   ELSE order[CHOOSE j \in best : \A l \in best : j <= l]
  BY DEF BestParent
<1> HIDE DEF len
<1>5. ASSUME Candidates # {} PROVE best # {}
  <2>1. lens # {} /\ lens \subseteq 0 .. Len(prompt[order[at]])
    BY <1>3, <1>5
  <2>2. PICK m \in lens : \A k \in lens : k <= m
    BY <2>1, <1>1, Largest
  <2> QED
    BY <2>2
<1>6. ASSUME best # {} PROVE \E j \in best : BestParent = order[j]
  <2>1. best \subseteq Nat
    BY <1>2
  <2> HIDE DEF best
  <2>2. \E j \in best : \A l \in best : j <= l
    BY <1>6, <2>1, Least
  <2> QED
    BY <2>2, <1>4, <1>6
<1>7. best # {} => BestParent # NoSeq
  BY <1>2, <1>6, SeqsFinite
<1>8. best = {} => BestParent = NoSeq
  BY <1>4
<1> QED
  BY <1>5, <1>6, <1>7, <1>8 DEF len

(* So a sequence that is linked shares at least as much as it could with   *)
(* any sequence before it that is not finished.                            *)
LEMMA LinkShares ==
    ASSUME TypeOK, OrderFixed, at <= Len(order),
           NEW s, s = order[at], NEW start,
           start = IF BestParent = NoSeq THEN 0 ELSE SharedLen(s, BestParent)
    PROVE  /\ BestParent \in Seqs \union {NoSeq}
           /\ start \in Nat /\ start <= Len(prompt[s])
           /\ BestParent # NoSeq =>
                 \E j \in Done : BestParent = order[j] /\ ~ finished[order[j]]
           /\ \A j \in Done : ~ finished[order[j]] => SharedLen(s, order[j]) <= start
<1>1. at \in 1 .. Len(order) /\ s \in Seqs /\ Len(prompt[s]) \in Nat
  BY OrderTypes, PromptTypes
<1>2. \A j \in Done : order[j] \in Seqs
  BY OrderTypes
<1>3. \A j \in Done : SharedLen(s, order[j]) \in Nat /\ SharedLen(s, order[j]) <= Len(prompt[s])
  BY <1>1, <1>2, SharedTokens
<1>4. Candidates = {j \in Done : ~ finished[order[j]] /\ SharedLen(s, order[j]) > 0}
  BY DEF Candidates, Done
<1>5. CASE BestParent = NoSeq
  <2>1. Candidates = {} /\ start = 0
    BY <1>5, BestParentIsBest
  <2> QED
    BY <2>1, <1>1, <1>3, <1>4, <1>5
<1>6. CASE BestParent # NoSeq
  <2>1. PICK j \in Candidates :
            /\ BestParent = order[j]
            /\ \A l \in Candidates : SharedLen(s, order[l]) <= SharedLen(s, order[j])
    BY <1>6, BestParentIsBest
  <2>2. j \in Done /\ ~ finished[order[j]] /\ start = SharedLen(s, order[j])
    BY <2>1, <1>4, <1>6
  <2>3. \A l \in Done : ~ finished[order[l]] => SharedLen(s, order[l]) <= start
    BY <2>1, <2>2, <1>3, <1>4
  <2> QED
    BY <2>1, <2>2, <2>3, <1>2, <1>3, <1>6
<1> QED
  BY <1>5, <1>6

-----------------------------------------------------------------------------
LEMMA SortStep ==
    ASSUME BatchInv, Sort
    PROVE  BatchInv'
<1> DEFINE S == {s \in Seqs : prompt[s] # <<>>}
<1>1. TypeOK /\ OrderFixed /\ RowsOK /\ ubatches = <<>>
  BY DEF BatchInv, Sort
<1>2. /\ pc = "sort" /\ pc' = "link" /\ prompt' = prompt /\ split' = split
      /\ outputAll' = outputAll /\ at' = at /\ parent' = parent /\ shared' = shared
      /\ finished' = finished /\ batch' = batch /\ ubatches' = ubatches
  BY DEF Sort
<1>3. order' \in SetToSeqs(S)
  BY DEF Sort, SortedBy
<1>4. IsFiniteSet(S) /\ S \subseteq Seqs
  BY SeqsFinite, FS_Subset
<1> HIDE DEF S
<1>5. /\ order' \in Seq(S) /\ Len(order') \in Nat /\ DOMAIN order' = 1 .. Len(order')
      /\ IsInjective(order') /\ ToSet(order') = S
  BY <1>3, <1>4, Permutation
<1>6. at = 1 /\ Done = {} /\ Done' = {}
  <2>1. order = <<>> /\ at \in 1 .. Len(order) + 1
    BY <1>1, <1>2 DEF OrderFixed
  <2>2. at = 1
    BY <2>1
  <2> QED
    BY <2>2, <1>2 DEF Done
<1>7. OrderFixed'
  BY <1>2, <1>5, <1>6 DEF OrderFixed, S
<1>8. order' \in Seq(Seqs)
  <2>1. \A i \in 1 .. Len(order') : order'[i] \in Seqs
    BY <1>4, <1>5
  <2> QED
    BY <1>5, <2>1
<1>9. TypeOK'
  BY <1>1, <1>2, <1>8 DEF TypeOK
<1>10. LinksOK'
  BY <1>6 DEF LinksOK
<1>11. DOMAIN batch = {}
  BY <1>1, <1>6 DEF RowsOK
<1>12. RowsOK'
  BY <1>2, <1>6, <1>11 DEF RowsOK
<1> QED
  BY <1>1, <1>2, <1>7, <1>9, <1>10, <1>12 DEF BatchInv

-----------------------------------------------------------------------------
(* What a round of the loop does to the sequences, whether it adds rows or *)
(* not: those that are linked already keep their links.                    *)
LEMMA LinkEffect ==
    ASSUME BatchInv, Link,
           NEW s, s = order[at], NEW start,
           start = IF BestParent = NoSeq THEN 0 ELSE SharedLen(s, BestParent)
    PROVE  /\ at \in 1 .. Len(order) /\ s \in Seqs
           /\ start \in Nat /\ start <= Len(prompt[s]) /\ Len(prompt[s]) \in Nat
           /\ parent' \in [Seqs -> Seqs \union {NoSeq}]
           /\ shared' \in [Seqs -> Nat] /\ finished' \in [Seqs -> BOOLEAN]
           /\ shared'[s] = start /\ \A l \in Done : shared'[order[l]] = shared[order[l]]
           /\ \A l \in Done : order[l] # s
           /\ \A l \in Done \union {at} :
                /\ shared'[order[l]] <= Len(prompt[order[l]])
                /\ parent'[order[l]] = NoSeq => shared'[order[l]] = 0
                /\ parent'[order[l]] # NoSeq =>
                      \E j \in 1 .. l - 1 :
                          /\ parent'[order[l]] = order[j] /\ ~ finished'[order[j]]
                          /\ shared'[order[l]] = SharedLen(order[l], order[j])
                /\ \A j \in 1 .. l - 1 :
                      ~ finished'[order[j]] => SharedLen(order[l], order[j]) <= shared'[order[l]]
<1>1. TypeOK /\ OrderFixed /\ LinksOK /\ at <= Len(order)
  BY DEF BatchInv, Link
<1>2. /\ at \in 1 .. Len(order) /\ Len(order) \in Nat /\ at \in Nat
      /\ s \in Seqs /\ Len(prompt[s]) \in Nat
      /\ \A l \in Done : l \in 1 .. Len(order) /\ order[l] \in Seqs
  BY <1>1, OrderTypes, PromptTypes
<1>3. \A l \in Done : order[l] # s
  <2>1. \A l \in Done : l # at
    BY <1>2 DEF Done
  <2> QED
    BY <2>1, <1>1, <1>2, OrderTypes
<1>4. /\ BestParent \in Seqs \union {NoSeq}
      /\ start \in Nat /\ start <= Len(prompt[s])
      /\ BestParent # NoSeq => \E j \in Done : BestParent = order[j] /\ ~ finished[order[j]]
      /\ \A j \in Done : ~ finished[order[j]] => SharedLen(s, order[j]) <= start
  BY <1>1, LinkShares
<1>5. /\ parent' = [parent EXCEPT ![s] = BestParent]
      /\ shared' = [shared EXCEPT ![s] = start]
      /\ finished' = [finished EXCEPT ![s] = \E token \in ToSet(prompt[s]) : token \in Eog]
  BY DEF Link
<1>6. parent' \in [Seqs -> Seqs \union {NoSeq}] /\ shared' \in [Seqs -> Nat]
  BY <1>1, <1>2, <1>4, <1>5 DEF TypeOK
<1>7. finished' \in [Seqs -> BOOLEAN]
  BY <1>1, <1>5 DEF TypeOK
<1>8. /\ parent'[s] = BestParent /\ shared'[s] = start
      /\ \A l \in Done : /\ parent'[order[l]] = parent[order[l]]
                         /\ shared'[order[l]] = shared[order[l]]
  BY <1>1, <1>2, <1>3, <1>5 DEF TypeOK
<1>9. \A l \in Done : finished'[order[l]] = finished[order[l]]
  BY <1>1, <1>2, <1>3, <1>5 DEF TypeOK
<1>10. ASSUME NEW l \in Done
       PROVE  /\ shared'[order[l]] <= Len(prompt[order[l]])
              /\ parent'[order[l]] = NoSeq => shared'[order[l]] = 0
              /\ parent'[order[l]] # NoSeq =>
                    \E j \in 1 .. l - 1 :
                        /\ parent'[order[l]] = order[j] /\ ~ finished'[order[j]]
                        /\ shared'[order[l]] = SharedLen(order[l], order[j])
              /\ \A j \in 1 .. l - 1 :
                    ~ finished'[order[j]] => SharedLen(order[l], order[j]) <= shared'[order[l]]
  <2>1. \A j \in 1 .. l - 1 : j \in Done
    BY <1>2 DEF Done
  <2> QED
    BY <2>1, <1>1, <1>8, <1>9 DEF LinksOK
<1>11. /\ shared'[s] <= Len(prompt[s])
       /\ parent'[s] = NoSeq => shared'[s] = 0
       /\ parent'[s] # NoSeq =>
             \E j \in Done : /\ parent'[s] = order[j] /\ ~ finished'[order[j]]
                             /\ shared'[s] = SharedLen(s, order[j])
       /\ \A j \in Done : ~ finished'[order[j]] => SharedLen(s, order[j]) <= shared'[s]
  BY <1>4, <1>8, <1>9
<1>12. ASSUME NEW l \in Done \union {at}, l \notin Done
       PROVE  order[l] = s /\ 1 .. l - 1 = Done
  BY <1>12 DEF Done
<1> QED
  BY <1>2, <1>3, <1>4, <1>6, <1>7, <1>8, <1>10, <1>11, <1>12

(* The rows it adds.                                                       *)
LEMMA RowTypes ==
    ASSUME NEW t \in 0 .. VocabSize - 1, NEW p \in Nat, NEW s \in Seqs, NEW b \in BOOLEAN
    PROVE  [token |-> t, pos |-> p, seq |-> s, logits |-> b] \in Rows
  BY DEF Rows

LEMMA NewRows ==
    ASSUME TypeOK, NEW s \in Seqs, NEW start \in Nat, start <= Len(prompt[s])
    PROVE  /\ DOMAIN RowsFrom(s, start) = 1 .. Len(RowsFrom(s, start))
           /\ Len(RowsFrom(s, start)) = Len(prompt[s]) - start
           /\ \A n \in 1 .. Len(RowsFrom(s, start)) :
                 /\ RowsFrom(s, start)[n] = Row(s, start + n - 1)
                 /\ RowsFrom(s, start)[n].seq = s /\ RowsFrom(s, start)[n].pos = start + n - 1
           /\ InVocab(RowsFrom(s, start)) => RowsFrom(s, start) \in Seq(Rows)
<1> DEFINE rows == RowsFrom(s, start)  k == Len(prompt[s]) - start
<1>1. k \in Nat
  BY PromptTypes
<1>2. rows = [n \in 1 .. k |-> Row(s, start + n - 1)]
  BY DEF RowsFrom
<1> HIDE DEF rows, k
<1>3. DOMAIN rows = 1 .. k /\ Len(rows) = k
  BY <1>1, <1>2
<1>4. \A n \in 1 .. k : /\ rows[n] = Row(s, start + n - 1)
                        /\ rows[n].seq = s /\ rows[n].pos = start + n - 1
  BY <1>2 DEF Row
<1>5. ASSUME InVocab(rows), NEW n \in 1 .. k PROVE rows[n] \in Rows
  <2>1. rows[n].token \in 0 .. VocabSize - 1
    BY <1>3, <1>5 DEF InVocab
  <2>2. start + n - 1 \in Nat
    BY <1>1
  <2> DEFINE b == outputAll \/ start + n - 1 = Len(prompt[s]) - 1
             t == prompt[s][start + n - 1 + 1]
  <2>3. b \in BOOLEAN
    OBVIOUS
  <2>4. rows[n] = [token |-> t, pos |-> start + n - 1, seq |-> s, logits |-> b]
    BY <1>4 DEF Row
  <2> HIDE DEF b, t
  <2>5. t \in 0 .. VocabSize - 1
    BY <2>1, <2>4
  <2> QED
    BY <2>2, <2>3, <2>4, <2>5, RowTypes
<1>6. InVocab(rows) => rows \in Seq(Rows)
  BY <1>1, <1>2, <1>3, <1>5
<1> QED
  BY <1>3, <1>4, <1>6 DEF rows, k

LEMMA LinkStep ==
    ASSUME BatchInv, Link
    PROVE  BatchInv'
<1> DEFINE s == order[at]
           start == IF BestParent = NoSeq THEN 0 ELSE SharedLen(s, BestParent)
           rows == RowsFrom(s, start)
<1>1. TypeOK /\ OrderFixed /\ RowsOK /\ ubatches = <<>> /\ pc = "link"
  BY DEF BatchInv, Link
<1>2. /\ at \in 1 .. Len(order) /\ s \in Seqs
      /\ start \in Nat /\ start <= Len(prompt[s]) /\ Len(prompt[s]) \in Nat
      /\ parent' \in [Seqs -> Seqs \union {NoSeq}]
      /\ shared' \in [Seqs -> Nat] /\ finished' \in [Seqs -> BOOLEAN]
      /\ shared'[s] = start /\ \A l \in Done : shared'[order[l]] = shared[order[l]]
      /\ \A l \in Done : order[l] # s
  BY LinkEffect
<1>3. \A l \in Done \union {at} :
         /\ shared'[order[l]] <= Len(prompt[order[l]])
         /\ parent'[order[l]] = NoSeq => shared'[order[l]] = 0
         /\ parent'[order[l]] # NoSeq =>
               \E j \in 1 .. l - 1 :
                   /\ parent'[order[l]] = order[j] /\ ~ finished'[order[j]]
                   /\ shared'[order[l]] = SharedLen(order[l], order[j])
         /\ \A j \in 1 .. l - 1 :
               ~ finished'[order[j]] => SharedLen(order[l], order[j]) <= shared'[order[l]]
  BY LinkEffect
<1>4. /\ prompt' = prompt /\ split' = split /\ outputAll' = outputAll /\ order' = order
      /\ ubatches' = ubatches
      /\ IF InVocab(rows) THEN batch' = batch \o rows /\ at' = at + 1 /\ pc' = pc
                          ELSE pc' = "failed" /\ batch' = batch /\ at' = at
  BY DEF Link
<1>5. /\ DOMAIN rows = 1 .. Len(rows) /\ Len(rows) = Len(prompt[s]) - start
      /\ \A n \in 1 .. Len(rows) : /\ rows[n] = Row(s, start + n - 1)
                                   /\ rows[n].seq = s /\ rows[n].pos = start + n - 1
      /\ InVocab(rows) => rows \in Seq(Rows)
  BY <1>1, <1>2, NewRows
<1> HIDE DEF start, rows, s
<1>6. Len(order) \in Nat /\ at \in Nat \ {0} /\ batch \in Seq(Rows)
  BY <1>1, OrderTypes DEF TypeOK
<1>7. \A x, y : Row(x, y)' = Row(x, y) /\ SharedLen(x, y)' = SharedLen(x, y)
  BY <1>4 DEF Row, SharedLen
<1>8. Done' = IF InVocab(rows) THEN Done \union {at} ELSE Done
  <2>1. 1 .. (at + 1) - 1 = (1 .. at - 1) \union {at}
    BY <1>6
  <2>2. Done' = 1 .. at' - 1 /\ Done = 1 .. at - 1
    BY DEF Done
  <2>3. InVocab(rows) => at' = at + 1
    BY <1>4
  <2>4. ~ InVocab(rows) => at' = at
    BY <1>4
  <2>5. CASE InVocab(rows)
    <3>1. Done' = 1 .. (at + 1) - 1
      BY <2>2, <2>3, <2>5
    <3> QED
      BY <2>1, <2>2, <2>5, <3>1
  <2>6. CASE ~ InVocab(rows)
    BY <2>2, <2>4, <2>6
  <2> QED
    BY <2>5, <2>6
<1>9. OrderFixed'
  BY <1>1, <1>2, <1>4, <1>6 DEF OrderFixed
<1>10. LinksOK'
  <2>1. SUFFICES ASSUME NEW l \in Done'
        PROVE  /\ shared'[order[l]] <= Len(prompt[order[l]])
               /\ parent'[order[l]] = NoSeq => shared'[order[l]] = 0
               /\ parent'[order[l]] # NoSeq =>
                     \E j \in 1 .. l - 1 :
                         /\ parent'[order[l]] = order[j] /\ ~ finished'[order[j]]
                         /\ shared'[order[l]] = SharedLen(order[l], order[j])
               /\ \A j \in 1 .. l - 1 :
                     ~ finished'[order[j]] => SharedLen(order[l], order[j]) <= shared'[order[l]]
    BY <1>4, <1>7 DEF LinksOK
  <2>2. l \in Done \union {at}
    BY <1>8
  <2> QED
    BY <2>2, <1>3
<1>11. ASSUME NEW n \in DOMAIN batch
       PROVE  /\ batch[n].seq # s /\ shared'[batch[n].seq] = shared[batch[n].seq]
              /\ batch[n] = Row(batch[n].seq, batch[n].pos)
              /\ batch[n].pos \in shared[batch[n].seq] .. Len(prompt[batch[n].seq]) - 1
              /\ \E l \in Done : batch[n].seq = order[l]
  BY <1>1, <1>2 DEF RowsOK
<1>12. CASE ~ InVocab(rows)
  <2>1. batch' = batch /\ Done' = Done /\ pc' = "failed"
    BY <1>4, <1>8, <1>12
  <2>2. TypeOK'
    BY <2>1, <1>1, <1>2, <1>4, <1>12 DEF TypeOK
  <2>3. RowsOK'
    <3>1. \A n \in DOMAIN batch' :
            /\ batch'[n] = Row(batch'[n].seq, batch'[n].pos)
            /\ batch'[n].pos \in shared'[batch'[n].seq] .. Len(prompt[batch'[n].seq]) - 1
            /\ \E l \in Done' : batch'[n].seq = order[l]
      BY <2>1, <1>4, <1>7, <1>11
    <3>2. \A l \in Done' : \A p \in shared'[order[l]] .. Len(prompt[order[l]]) - 1 :
            \E n \in DOMAIN batch' : batch'[n].seq = order[l] /\ batch'[n].pos = p
      BY <2>1, <1>1, <1>2, <1>4 DEF RowsOK
    <3>3. \A m, n \in DOMAIN batch' : \A j, l \in Done' :
            m < n /\ batch'[m].seq = order[j] /\ batch'[n].seq = order[l]
            => j < l \/ (j = l /\ batch'[m].pos < batch'[n].pos)
      BY <2>1, <1>1, <1>4 DEF RowsOK
    <3> QED
      BY <3>1, <3>2, <3>3, <1>4, <1>7 DEF RowsOK
  <2> QED
    BY <2>1, <2>2, <2>3, <1>1, <1>4, <1>9, <1>10 DEF BatchInv
<1>13. CASE InVocab(rows)
  <2>1. /\ batch' = batch \o rows /\ Done' = Done \union {at} /\ pc' = "link"
        /\ rows \in Seq(Rows) /\ at' = at + 1
    BY <1>1, <1>4, <1>5, <1>8, <1>13
  <2>2. TypeOK'
    <3>1. batch' \in Seq(Rows)
      BY <2>1, <1>6
    <3> QED
      BY <3>1, <2>1, <1>1, <1>2, <1>4, <1>6 DEF TypeOK
  <2> DEFINE b == Len(batch)
  <2>3. /\ b \in Nat /\ Len(rows) \in Nat /\ DOMAIN batch = 1 .. b
        /\ DOMAIN batch' = 1 .. b + Len(rows)
        /\ \A n \in 1 .. b : batch'[n] = batch[n]
        /\ \A n \in 1 .. Len(rows) : batch'[b + n] = rows[n]
    BY <2>1, <1>5, <1>6
  <2> HIDE DEF b
  <2>4. \A n \in DOMAIN batch' : n \in 1 .. b \/ \E i \in 1 .. Len(rows) : n = b + i
    <3> SUFFICES ASSUME NEW n \in 1 .. b + Len(rows), n \notin 1 .. b
                 PROVE  n - b \in 1 .. Len(rows) /\ n = b + (n - b)
      BY <2>3
    <3> QED
      BY <2>3
  <2>5. order[at] = s
    BY DEF s
  <2>6. RowsOK'
    <3>1. ASSUME NEW n \in DOMAIN batch'
          PROVE  /\ batch'[n] = Row(batch'[n].seq, batch'[n].pos)
                 /\ batch'[n].pos \in shared'[batch'[n].seq] .. Len(prompt[batch'[n].seq]) - 1
                 /\ \E l \in Done' : batch'[n].seq = order[l]
      <4>1. CASE n \in 1 .. b
        BY <4>1, <2>1, <2>3, <1>11
      <4>2. ASSUME NEW i \in 1 .. Len(rows), n = b + i
            PROVE  /\ batch'[n] = Row(batch'[n].seq, batch'[n].pos)
                   /\ batch'[n].pos \in shared'[batch'[n].seq] .. Len(prompt[batch'[n].seq]) - 1
                   /\ \E l \in Done' : batch'[n].seq = order[l]
        <5>1. batch'[n] = Row(s, start + i - 1) /\ batch'[n].seq = s
              /\ batch'[n].pos = start + i - 1
          BY <4>2, <2>3, <1>5
        <5>2. start + i - 1 \in start .. Len(prompt[s]) - 1
          BY <1>2, <1>5, <2>3
        <5> QED
          BY <5>1, <5>2, <2>1, <2>5, <1>2
      <4> QED
        BY <4>1, <4>2, <2>4
    <3>2. ASSUME NEW l \in Done', NEW p \in shared'[order[l]] .. Len(prompt[order[l]]) - 1
          PROVE  \E n \in DOMAIN batch' : batch'[n].seq = order[l] /\ batch'[n].pos = p
      <4>1. CASE l \in Done
        <5>1. p \in shared[order[l]] .. Len(prompt[order[l]]) - 1
          BY <4>1, <1>2
        <5>2. PICK n \in DOMAIN batch : batch[n].seq = order[l] /\ batch[n].pos = p
          BY <4>1, <5>1, <1>1 DEF RowsOK
        <5>3. n \in DOMAIN batch' /\ batch'[n] = batch[n]
          BY <2>3
        <5> QED
          BY <5>2, <5>3
      <4>2. CASE l = at
        <5>1. order[l] = s /\ p \in start .. Len(prompt[s]) - 1
          BY <4>2, <2>5, <1>2
        <5>2. p - start + 1 \in 1 .. Len(rows) /\ start + (p - start + 1) - 1 = p
          BY <5>1, <1>2, <1>5
        <5>3. b + (p - start + 1) \in DOMAIN batch'
          BY <5>2, <2>3
        <5>4. batch'[b + (p - start + 1)] = rows[p - start + 1]
          BY <5>2, <2>3
        <5> QED
          BY <5>1, <5>2, <5>3, <5>4, <1>5
      <4> QED
        BY <4>1, <4>2, <2>1
    <3>3. ASSUME NEW m \in DOMAIN batch', NEW n \in DOMAIN batch', NEW j \in Done', NEW l \in Done',
                 m < n, batch'[m].seq = order[j], batch'[n].seq = order[l]
          PROVE  j < l \/ (j = l /\ batch'[m].pos < batch'[n].pos)
      <4>0. \A i \in Done : i < at /\ i \in Nat
        BY <1>6 DEF Done
      <4>1. CASE n \in 1 .. b
        <5>1. m \in 1 .. b
          BY <4>1, <3>3, <2>3
        <5>2. batch'[m] = batch[m] /\ batch'[n] = batch[n] /\ m \in DOMAIN batch /\ n \in DOMAIN batch
          BY <4>1, <5>1, <2>3
        <5>3. j \in Done /\ l \in Done
          BY <5>2, <3>3, <2>1, <2>5, <1>11
        <5> QED
          BY <5>2, <5>3, <3>3, <1>1 DEF RowsOK
      <4>2. ASSUME NEW i \in 1 .. Len(rows), n = b + i
            PROVE  j < l \/ (j = l /\ batch'[m].pos < batch'[n].pos)
        <5>1. batch'[n].seq = s /\ batch'[n].pos = start + i - 1
          BY <4>2, <2>3, <1>5
        <5>2. l = at
          BY <5>1, <3>3, <2>1, <1>2
        <5>3. CASE m \in 1 .. b
          <6>1. batch'[m] = batch[m] /\ m \in DOMAIN batch
            BY <5>3, <2>3
          <6>2. j \in Done
            BY <6>1, <3>3, <2>1, <2>5, <1>11
          <6> QED
            BY <6>2, <5>2, <4>0
        <5>4. ASSUME NEW h \in 1 .. Len(rows), m = b + h
              PROVE  j = l /\ batch'[m].pos < batch'[n].pos
          <6>1. batch'[m].seq = s /\ batch'[m].pos = start + h - 1
            BY <5>4, <2>3, <1>5
          <6>2. j = at
            BY <6>1, <3>3, <2>1, <1>2
          <6>3. h < i
            BY <5>4, <4>2, <3>3, <2>3
          <6> QED
            BY <6>1, <6>2, <6>3, <5>1, <5>2, <1>2, <2>3
        <5> QED
          BY <5>3, <5>4, <2>4
      <4> QED
        BY <4>1, <4>2, <2>4
    <3> QED
      BY <3>1, <3>2, <3>3, <1>4, <1>7 DEF RowsOK
  <2> QED
    BY <2>1, <2>2, <2>6, <1>1, <1>4, <1>9, <1>10 DEF BatchInv
<1> QED
  BY <1>12, <1>13

-----------------------------------------------------------------------------
(* RowsOf takes the rows of a set of sequences in their order.             *)
Indices(S) == {i \in DOMAIN batch : batch[i].seq \in S}

LEMMA RowsOfSet ==
    ASSUME TypeOK, NEW S
    PROVE  /\ RowsOf(S) \in Seq(Rows) /\ Len(RowsOf(S)) \in Nat
           /\ DOMAIN RowsOf(S) = 1 .. Len(RowsOf(S))
           /\ \A n \in DOMAIN RowsOf(S) :
                 /\ InOrder(Indices(S))[n] \in Indices(S)
                 /\ RowsOf(S)[n] = batch[InOrder(Indices(S))[n]]
           /\ \A i \in Indices(S) : \E n \in DOMAIN RowsOf(S) : InOrder(Indices(S))[n] = i
           /\ \A m, n \in DOMAIN RowsOf(S) :
                 m < n => InOrder(Indices(S))[m] < InOrder(Indices(S))[n]
<1> DEFINE I == Indices(S)  o == InOrder(I)
<1>1. batch \in Seq(Rows) /\ Len(batch) \in Nat /\ DOMAIN batch = 1 .. Len(batch)
  BY DEF TypeOK
<1>2. I \subseteq 1 .. Len(batch) /\ I \subseteq Nat
  BY <1>1 DEF Indices
<1>3. IsFiniteSet(I)
  <2> HIDE DEF I
  <2>1. IsFiniteSet(1 .. Len(batch))
    BY <1>1, FS_Interval
  <2> QED
    BY <2>1, <1>2, FS_Subset
<1>4. /\ o \in Seq(I) /\ Len(o) \in Nat /\ DOMAIN o = 1 .. Len(o) /\ ToSet(o) = I
      /\ \A m, n \in DOMAIN o : m < n => o[m] < o[n]
  BY <1>2, <1>3, Enumeration
<1>5. RowsOf(S) = [n \in DOMAIN o |-> batch[o[n]]]
  BY DEF RowsOf, Indices
<1> HIDE DEF I, o
<1>6. \A n \in DOMAIN o : o[n] \in I /\ batch[o[n]] \in Rows
  <2>1. \A i \in 1 .. Len(batch) : batch[i] \in Rows
    BY <1>1
  <2>2. \A n \in DOMAIN o : o[n] \in I
    BY <1>4
  <2> QED
    BY <2>1, <2>2, <1>2
<1>7. /\ RowsOf(S) \in [1 .. Len(o) -> Rows] /\ DOMAIN RowsOf(S) = 1 .. Len(o)
      /\ \A n \in 1 .. Len(o) : RowsOf(S)[n] = batch[o[n]]
  BY <1>4, <1>5, <1>6
<1>8. RowsOf(S) \in Seq(Rows) /\ Len(RowsOf(S)) = Len(o)
  BY <1>4, <1>7
<1>9. \A i \in I : \E n \in DOMAIN o : o[n] = i
  BY <1>4 DEF ToSet
<1> QED
  BY <1>4, <1>6, <1>7, <1>8, <1>9 DEF I, o

(* Groups of sequences that have none in common and leave none out hold    *)
(* every row once.                                                         *)
LEMMA Groups ==
    ASSUME TypeOK, NEW N \in Nat, NEW G \in [1 .. N -> SUBSET Seqs],
           \A c, d \in 1 .. N : c # d => G[c] \cap G[d] = {},
           \A s \in InBatch : \E c \in 1 .. N : s \in G[c],
           NEW ub, ub = [c \in 1 .. N |-> RowsOf(G[c])]
    PROVE  ub \in Seq(Seq(Rows)) /\ DOMAIN ub = 1 .. N /\ Distributed(ub)
<1> DEFINE o(c) == InOrder(Indices(G[c]))
           P == PlacesIn(ub)
           g == [x \in P |-> o(x[1])[x[2]]]
<1>1. \A c \in 1 .. N :
         /\ ub[c] = RowsOf(G[c])
         /\ ub[c] \in Seq(Rows) /\ Len(ub[c]) \in Nat /\ DOMAIN ub[c] = 1 .. Len(ub[c])
         /\ \A n \in DOMAIN ub[c] : o(c)[n] \in Indices(G[c]) /\ ub[c][n] = batch[o(c)[n]]
         /\ \A i \in Indices(G[c]) : \E n \in DOMAIN ub[c] : o(c)[n] = i
         /\ \A m, n \in DOMAIN ub[c] : m < n => o(c)[m] < o(c)[n]
  BY RowsOfSet
<1>2. DOMAIN ub = 1 .. N /\ ub \in Seq(Seq(Rows))
  <2>1. ub \in [1 .. N -> Seq(Rows)]
    BY <1>1
  <2> QED
    BY <2>1
<1> HIDE DEF o
<1>3. \A x \in P : /\ x = <<x[1], x[2]>> /\ x[1] \in 1 .. N /\ x[2] \in DOMAIN ub[x[1]]
                   /\ x[2] \in Nat
  BY <1>1, <1>2 DEF PlacesIn
<1>4. \A c \in 1 .. N : \A n \in DOMAIN ub[c] : <<c, n>> \in P
  BY <1>2 DEF PlacesIn
<1>5. batch \in Seq(Rows) /\ DOMAIN batch \subseteq Nat
  BY DEF TypeOK
<1> HIDE DEF P
<1>6. \A x \in P : /\ g[x] = o(x[1])[x[2]] /\ g[x] \in Indices(G[x[1]])
                   /\ g[x] \in DOMAIN batch /\ batch[g[x]].seq \in G[x[1]]
                   /\ ub[x[1]][x[2]] = batch[g[x]]
  <2> SUFFICES ASSUME NEW x \in P
               PROVE  /\ g[x] = o(x[1])[x[2]] /\ g[x] \in Indices(G[x[1]])
                      /\ ub[x[1]][x[2]] = batch[g[x]]
    BY DEF Indices
  <2>1. x[1] \in 1 .. N /\ x[2] \in DOMAIN ub[x[1]]
    BY <1>3
  <2>2. o(x[1])[x[2]] \in Indices(G[x[1]]) /\ ub[x[1]][x[2]] = batch[o(x[1])[x[2]]]
    BY <2>1, <1>1
  <2>3. g[x] = o(x[1])[x[2]]
    OBVIOUS
  <2> QED
    BY <2>2, <2>3
<1>7. \A x, y \in P : batch[g[x]].seq = batch[g[y]].seq => x[1] = y[1]
  BY <1>3, <1>6
<1>8. \A x, y \in P : x[1] = y[1] /\ x[2] < y[2] => g[x] < g[y]
  BY <1>1, <1>3, <1>6
<1>9. \A x, y \in P : g[x] = g[y] => x = y
  <2> SUFFICES ASSUME NEW x \in P, NEW y \in P, g[x] = g[y] PROVE x = y
    OBVIOUS
  <2>1. x[1] = y[1]
    BY <1>7
  <2>2. g[x] \in Nat /\ g[y] \in Nat
    BY <1>5, <1>6
  <2>3. ~ (x[2] < y[2]) /\ ~ (y[2] < x[2])
    BY <2>1, <2>2, <1>8
  <2>4. x[2] = y[2]
    <3>1. x[2] \in Nat /\ y[2] \in Nat
      BY <1>3
    <3> QED
      BY <2>3, <3>1
  <2> QED
    BY <2>1, <2>4, <1>3
<1>10. \A i \in DOMAIN batch : \E x \in P : g[x] = i
  <2> SUFFICES ASSUME NEW i \in DOMAIN batch PROVE \E x \in P : g[x] = i
    OBVIOUS
  <2>1. batch[i].seq \in InBatch
    BY DEF InBatch
  <2>2. PICK c \in 1 .. N : batch[i].seq \in G[c]
    BY <2>1
  <2>3. i \in Indices(G[c])
    BY <2>2 DEF Indices
  <2>4. PICK n \in DOMAIN ub[c] : o(c)[n] = i
    BY <2>3, <1>1
  <2>5. <<c, n>> \in P /\ g[<<c, n>>] = i
    BY <2>4, <1>4, <1>6
  <2> QED
    BY <2>5
<1>11. g \in Bijection(P, DOMAIN batch)
  <2>1. g \in [P -> DOMAIN batch]
    BY <1>6
  <2> HIDE DEF g
  <2> QED
    BY <2>1, <1>9, <1>10 DEF Bijection, Injection, Surjection, IsInjective
<1>12. \A x, y \in P : Before(x, y) /\ batch[g[x]].seq = batch[g[y]].seq => g[x] < g[y]
  <2> SUFFICES ASSUME NEW x \in P, NEW y \in P, Before(x, y), batch[g[x]].seq = batch[g[y]].seq
               PROVE  g[x] < g[y]
    OBVIOUS
  <2>1. x[1] = y[1]
    BY <1>7
  <2>2. ~ (x[1] < y[1])
    <3>1. x[1] \in 1 .. N /\ y[1] \in 1 .. N
      BY <1>3
    <3> QED
      BY <2>1, <3>1
  <2> QED
    BY <2>1, <2>2, <1>8 DEF Before
<1> HIDE DEF g
<1> QED
  BY <1>2, <1>6, <1>11, <1>12 DEF P, Distributed

-----------------------------------------------------------------------------
(* Pieces of at most MaxBatchSize cover a sequence and do not overlap.     *)
LEMMA Division ==
    ASSUME NEW n \in Nat, NEW m \in Nat \ {0}
    PROVE  n \div m \in Nat /\ (n \div m) * m <= n /\ n < (n \div m) * m + m
  OBVIOUS

LEMMA Product ==
    ASSUME NEW m \in Nat \ {0}, NEW c \in Nat
    PROVE  /\ c * m \in Nat /\ (c + 1) * m = c * m + m
           /\ \A d \in Nat : c < d => c * m + m <= d * m
           /\ 0 * m = 0
  OBVIOUS

LEMMA PiecesCover ==
    ASSUME NEW n \in Nat
    PROVE  /\ Pieces(n) \in Nat
           /\ \A c \in 1 .. Pieces(n) :
                 /\ (c - 1) * MaxBatchSize \in Nat /\ (c - 1) * MaxBatchSize < n
                 /\ c * MaxBatchSize = (c - 1) * MaxBatchSize + MaxBatchSize
           /\ \A c, d \in 1 .. Pieces(n) :
                 c < d => (c - 1) * MaxBatchSize + MaxBatchSize <= (d - 1) * MaxBatchSize
           /\ \A i \in 1 .. n : \E c \in 1 .. Pieces(n), k \in 1 .. MaxBatchSize :
                 i = (c - 1) * MaxBatchSize + k
<1> DEFINE M == MaxBatchSize  q == Pieces(n)
<1>1. M \in Nat \ {0}
  BY MaxBatchAssumption
<1> HIDE DEF M
<1>2. q \in Nat /\ q * M <= n + M - 1 /\ n + M - 1 < q * M + M
  <2>1. q = (n + M - 1) \div M /\ n + M - 1 \in Nat
    BY <1>1 DEF Pieces, M
  <2> QED
    BY <2>1, <1>1, Division
<1> HIDE DEF q
<1>3. ASSUME NEW c \in 1 .. q
      PROVE  (c - 1) * M \in Nat /\ (c - 1) * M < n /\ c * M = (c - 1) * M + M
  <2>1. c - 1 \in Nat /\ q \in Nat /\ c - 1 < q /\ (c - 1) + 1 = c
    BY <1>2
  <2>2. (c - 1) * M \in Nat /\ (c - 1) * M + M <= q * M /\ c * M = (c - 1) * M + M
    BY <1>1, <2>1, Product
  <2>3. q * M \in Nat
    BY <1>1, <1>2, Product
  <2> QED
    BY <1>1, <1>2, <2>2, <2>3
<1>4. ASSUME NEW c \in 1 .. q, NEW d \in 1 .. q, c < d
      PROVE  (c - 1) * M + M <= (d - 1) * M
  <2>1. c - 1 \in Nat /\ d - 1 \in Nat /\ c - 1 < d - 1
    BY <1>2, <1>4
  <2> QED
    BY <2>1, <1>1, Product
<1>5. ASSUME NEW i \in 1 .. n
      PROVE  \E c \in 1 .. q, k \in 1 .. M : i = (c - 1) * M + k
  <2> DEFINE e == (i - 1) \div M
  <2>1. e \in Nat /\ e * M <= i - 1 /\ i - 1 < e * M + M
    BY <1>1, Division
  <2> HIDE DEF e
  <2>2. e * M \in Nat /\ q * M \in Nat
    BY <2>1, <1>1, <1>2, Product
  <2>3. e < q
    <3>1. SUFFICES ASSUME e >= q PROVE FALSE
      BY <2>1, <1>2
    <3>2. q * M <= e * M
      <4>1. CASE e = q
        BY <4>1, <2>2
      <4>2. CASE q < e
        BY <4>2, <2>1, <2>2, <1>1, <1>2, Product
      <4> QED
        BY <3>1, <4>1, <4>2, <2>1, <1>2
    <3>3. q * M <= n - 1
      BY <3>2, <2>1, <2>2
    <3> QED
      BY <3>3, <1>1, <1>2, <2>2
  <2>4. e + 1 \in 1 .. q /\ i - e * M \in 1 .. M /\ ((e + 1) - 1) * M = e * M
    BY <1>1, <1>2, <2>1, <2>2, <2>3
  <2>5. i = ((e + 1) - 1) * M + (i - e * M)
    BY <2>2, <2>4
  <2> QED
    BY <2>4, <2>5
<1> QED
  BY <1>2, <1>3, <1>4, <1>5 DEF M, q

LEMMA PieceOf ==
    ASSUME NEW A, NEW o \in Seq(A), NEW c \in 1 .. Pieces(Len(o))
    PROVE  /\ Piece(o, c) \in Seq(A) /\ Len(Piece(o, c)) \in 1 .. MaxBatchSize
           /\ DOMAIN Piece(o, c) = 1 .. Len(Piece(o, c))
           /\ \A k \in 1 .. Len(Piece(o, c)) :
                 /\ (c - 1) * MaxBatchSize + k \in 1 .. Len(o)
                 /\ Piece(o, c)[k] = o[(c - 1) * MaxBatchSize + k]
           /\ \A k \in 1 .. MaxBatchSize :
                 (c - 1) * MaxBatchSize + k <= Len(o) => k \in 1 .. Len(Piece(o, c))
<1> DEFINE M == MaxBatchSize
           a == (c - 1) * M
           b == IF a + M < Len(o) THEN a + M ELSE Len(o)
<1>1. M \in Nat \ {0} /\ Len(o) \in Nat
  BY MaxBatchAssumption
<1>2. a \in Nat /\ a < Len(o) /\ c * M = a + M
  BY <1>1, PiecesCover
<1>3. Piece(o, c) = SubSeq(o, a + 1, b)
  BY <1>2 DEF Piece
<1> HIDE DEF a, M
<1>4. b \in a + 1 .. Len(o) /\ b - a \in 1 .. M
  BY <1>1, <1>2
<1>5. \A k \in 1 .. M : a + k <= Len(o) => k \in 1 .. b - a
  BY <1>1, <1>2
<1> HIDE DEF b
<1>6. /\ Piece(o, c) \in Seq(A) /\ Len(Piece(o, c)) = b - a
      /\ \A k \in 1 .. b - a : Piece(o, c)[k] = o[a + k]
  <2>1. SubSeq(o, a + 1, b) \in Seq(A) /\ Len(SubSeq(o, a + 1, b)) = b - a
    BY <1>1, <1>2, <1>4
  <2>2. \A k \in 1 .. b - a : SubSeq(o, a + 1, b)[k] = o[a + 1 + k - 1]
    BY <1>1, <1>2, <1>4
  <2>3. \A k \in 1 .. b - a : a + 1 + k - 1 = a + k
    BY <1>2
  <2> QED
    BY <1>3, <2>1, <2>2, <2>3
<1>7. DOMAIN Piece(o, c) = 1 .. b - a /\ \A k \in 1 .. b - a : a + k \in 1 .. Len(o)
  BY <1>1, <1>2, <1>4, <1>6
<1> QED
  BY <1>4, <1>5, <1>6, <1>7 DEF a, M

(* Elements of different pieces stand at different places of the whole.    *)
LEMMA PlaceInWhole ==
    ASSUME NEW n \in Nat, NEW c \in 1 .. Pieces(n), NEW d \in 1 .. Pieces(n),
           NEW j \in 1 .. MaxBatchSize, NEW k \in 1 .. MaxBatchSize
    PROVE  /\ c < d => (c - 1) * MaxBatchSize + j < (d - 1) * MaxBatchSize + k
           /\ (c - 1) * MaxBatchSize + j = (d - 1) * MaxBatchSize + k => c = d /\ j = k
<1> DEFINE a == (c - 1) * MaxBatchSize  b == (d - 1) * MaxBatchSize
<1>1. /\ a \in Nat /\ b \in Nat /\ MaxBatchSize \in Nat
      /\ c < d => a + MaxBatchSize <= b
      /\ d < c => b + MaxBatchSize <= a
      /\ c = d => a = b
  BY PiecesCover, MaxBatchAssumption
<1>2. c \in Nat /\ d \in Nat
  BY PiecesCover
<1> HIDE DEF a, b
<1>3. c < d => a + j < b + k
  BY <1>1
<1>4. d < c => b + k < a + j
  BY <1>1
<1>5. a + j = b + k => c = d
  BY <1>1, <1>2, <1>3, <1>4
<1>6. a + j = b + k => j = k
  BY <1>1, <1>5
<1> QED
  BY <1>3, <1>5, <1>6 DEF a, b

(* split_simple: pieces of the main batch.                                 *)
LEMMA SimplePieces ==
    ASSUME TypeOK, NEW ub, ub = [c \in 1 .. Pieces(Len(batch)) |-> Piece(batch, c)]
    PROVE  ub \in Seq(Seq(Rows)) /\ Distributed(ub)
<1> DEFINE M == MaxBatchSize
           q == Pieces(Len(batch))
           P == PlacesIn(ub)
           g == [x \in P |-> (x[1] - 1) * M + x[2]]
<1>1. batch \in Seq(Rows) /\ Len(batch) \in Nat /\ DOMAIN batch = 1 .. Len(batch)
      /\ DOMAIN batch \subseteq Nat
  BY DEF TypeOK
<1>2. q \in Nat
  BY <1>1, PiecesCover
<1>3. \A c \in 1 .. q :
         /\ ub[c] \in Seq(Rows) /\ Len(ub[c]) \in 1 .. M /\ DOMAIN ub[c] = 1 .. Len(ub[c])
         /\ \A k \in 1 .. Len(ub[c]) : /\ (c - 1) * M + k \in DOMAIN batch
                                       /\ ub[c][k] = batch[(c - 1) * M + k]
         /\ \A k \in 1 .. M : (c - 1) * M + k <= Len(batch) => k \in 1 .. Len(ub[c])
  BY <1>1, PieceOf
<1>4. DOMAIN ub = 1 .. q /\ ub \in Seq(Seq(Rows))
  <2>1. ub \in [1 .. q -> Seq(Rows)]
    BY <1>3
  <2> QED
    BY <2>1, <1>2
<1>5. M \in Nat
  BY MaxBatchAssumption
<1>6. \A x \in P : /\ x = <<x[1], x[2]>> /\ x[1] \in 1 .. q /\ x[2] \in DOMAIN ub[x[1]]
  BY <1>4 DEF PlacesIn
<1>7. \A x \in P : x[2] \in 1 .. M /\ x[2] \in 1 .. Len(ub[x[1]])
  <2> SUFFICES ASSUME NEW x \in P PROVE x[2] \in 1 .. M /\ x[2] \in 1 .. Len(ub[x[1]])
    OBVIOUS
  <2>1. x[1] \in 1 .. q /\ x[2] \in 1 .. Len(ub[x[1]]) /\ Len(ub[x[1]]) \in 1 .. M
    BY <1>3, <1>6
  <2> QED
    BY <2>1, <1>5
<1>8. \A c \in 1 .. q : \A k \in DOMAIN ub[c] : <<c, k>> \in P
  BY <1>4 DEF PlacesIn
<1> HIDE DEF P
<1>9. \A x \in P : /\ g[x] = (x[1] - 1) * M + x[2] /\ g[x] \in DOMAIN batch
                   /\ ub[x[1]][x[2]] = batch[g[x]]
  BY <1>3, <1>6, <1>7
<1>10. \A x, y \in P : g[x] = g[y] => x = y
  <2> SUFFICES ASSUME NEW x \in P, NEW y \in P, g[x] = g[y] PROVE x = y
    OBVIOUS
  <2>1. (x[1] - 1) * M + x[2] = (y[1] - 1) * M + y[2]
    BY <1>9
  <2>2. x[1] = y[1] /\ x[2] = y[2]
    BY <2>1, <1>1, <1>6, <1>7, PlaceInWhole
  <2> QED
    BY <2>2, <1>6
<1>11. \A i \in DOMAIN batch : \E x \in P : g[x] = i
  <2> SUFFICES ASSUME NEW i \in DOMAIN batch PROVE \E x \in P : g[x] = i
    OBVIOUS
  <2>1. PICK c \in 1 .. q, k \in 1 .. M : i = (c - 1) * M + k
    BY <1>1, PiecesCover
  <2>2. i <= Len(batch)
    BY <1>1
  <2>3. k \in DOMAIN ub[c]
    BY <2>1, <2>2, <1>3
  <2>4. <<c, k>> \in P
    BY <2>3, <1>8
  <2> QED
    BY <2>1, <2>4, <1>9
<1>12. \A x, y \in P : Before(x, y) => g[x] < g[y]
  <2> SUFFICES ASSUME NEW x \in P, NEW y \in P, Before(x, y) PROVE g[x] < g[y]
    OBVIOUS
  <2>1. CASE x[1] < y[1]
    <3>1. (x[1] - 1) * M + x[2] < (y[1] - 1) * M + y[2]
      BY <2>1, <1>1, <1>6, <1>7, PlaceInWhole
    <3> QED
      BY <3>1, <1>9
  <2>2. CASE x[1] = y[1] /\ x[2] < y[2]
    <3> DEFINE a == (x[1] - 1) * M
    <3>1. a \in Nat /\ x[2] \in Nat /\ y[2] \in Nat
      <4>1. x[1] \in 1 .. q
        BY <1>6
      <4>2. a \in Nat
        BY <4>1, <1>1, PiecesCover
      <4> QED
        BY <4>2, <1>5, <1>7
    <3>2. g[x] = a + x[2] /\ g[y] = a + y[2]
      BY <2>2, <1>9
    <3> HIDE DEF a
    <3> QED
      BY <3>1, <3>2, <2>2
  <2> QED
    BY <2>1, <2>2 DEF Before
<1>13. g \in Bijection(P, DOMAIN batch)
  <2>1. g \in [P -> DOMAIN batch]
    BY <1>9
  <2> HIDE DEF g
  <2> QED
    BY <2>1, <1>10, <1>11 DEF Bijection, Injection, Surjection, IsInjective
<1> HIDE DEF g
<1> QED
  BY <1>4, <1>9, <1>12, <1>13 DEF P, Distributed

-----------------------------------------------------------------------------
(* Rows follow the order of the loop, those of one sequence ascend.        *)
LEMMA RowsInOrder ==
    ASSUME RowsOK, NEW m \in DOMAIN batch, NEW n \in DOMAIN batch, m < n,
           NEW j \in Done, batch[m].seq = order[j],
           NEW l \in Done, batch[n].seq = order[l]
    PROVE  j < l \/ (j = l /\ batch[m].pos < batch[n].pos)
  BY DEF RowsOK

LEMMA RowsAscend ==
    ASSUME RowsOK, NEW m \in DOMAIN batch, NEW n \in DOMAIN batch,
           m < n, batch[m].seq = batch[n].seq
    PROVE  batch[m].pos < batch[n].pos
<1>1. PICK l \in Done : batch[n].seq = order[l]
  BY DEF RowsOK
<1>2. l \in Nat
  BY DEF Done
<1>3. l < l \/ (l = l /\ batch[m].pos < batch[n].pos)
  BY <1>1, RowsInOrder
<1> QED
  BY <1>2, <1>3

(* What SplitsKeepOrder asks of one ubatch.                                *)
UbatchOK(rows) ==
    LET seqs == {row.seq : row \in ToSet(rows)}
    IN  /\ rows # <<>>
        /\ split = "simple" => Len(rows) <= MaxBatchSize
        /\ split = "equal" => Cardinality(seqs) <= MaxBatchSize
        /\ split = "seq" =>
               /\ Cardinality(seqs) = 1
               /\ rows[Len(rows)].logits
               /\ outputAll \/ \A n \in 1 .. Len(rows) - 1 : ~ rows[n].logits

LEMMA SplitStep ==
    ASSUME BatchInv, ReadyToSplit, ubatches' \in Seq(Seq(Rows)), Distributed(ubatches'),
           \A u \in DOMAIN ubatches' : UbatchOK(ubatches'[u])
    PROVE  BatchInv'
<1>1. TypeOK /\ OrderFixed /\ LinksOK /\ RowsOK /\ pc = "link" /\ at > Len(order)
  BY DEF BatchInv, ReadyToSplit
<1>2. /\ pc' = "done" /\ prompt' = prompt /\ split' = split /\ outputAll' = outputAll
      /\ order' = order /\ at' = at /\ parent' = parent /\ shared' = shared
      /\ finished' = finished /\ batch' = batch
  BY DEF ReadyToSplit
<1>3. Len(order) \in Nat /\ at \in 1 .. Len(order) + 1
  BY <1>1, OrderTypes DEF OrderFixed
<1>4. at' = Len(order') + 1
  BY <1>1, <1>2, <1>3
<1>5. TypeOK' /\ OrderFixed' /\ Done' = Done
  BY <1>1, <1>2 DEF TypeOK, OrderFixed, Done
<1>6. \A x, y : Row(x, y)' = Row(x, y) /\ SharedLen(x, y)' = SharedLen(x, y)
  BY <1>2 DEF Row, SharedLen
<1>7. LinksOK'
  BY <1>1, <1>2, <1>5, <1>6 DEF LinksOK
<1>8. RowsOK'
  BY <1>1, <1>2, <1>5, <1>6 DEF RowsOK
<1>9. Distributed(ubatches)'
  BY <1>2 DEF Distributed
<1>10. SplitsKeepOrder'
  <2> DEFINE P == PlacesIn(ubatches')
  <2>1. Places' = P
    BY DEF Places, PlacesIn
  <2>2. PICK g \in Bijection(P, DOMAIN batch) :
            /\ \A x \in P : ubatches'[x[1]][x[2]] = batch[g[x]]
            /\ \A x, y \in P : Before(x, y) /\ batch[g[x]].seq = batch[g[y]].seq => g[x] < g[y]
    BY DEF Distributed
  <2> HIDE DEF P
  <2>3. \A x \in P : g[x] \in DOMAIN batch
    BY <2>2 DEF Bijection, Injection
  <2>4. ASSUME NEW x \in P, NEW y \in P, Before(x, y),
               ubatches'[x[1]][x[2]].seq = ubatches'[y[1]][y[2]].seq
        PROVE  ubatches'[x[1]][x[2]].pos < ubatches'[y[1]][y[2]].pos
    <3>1. batch[g[x]].seq = batch[g[y]].seq /\ g[x] < g[y]
      BY <2>2, <2>4
    <3>2. batch[g[x]].pos < batch[g[y]].pos
      BY <3>1, <2>3, <1>1, RowsAscend
    <3> QED
      BY <3>2, <2>2
  <2>5. \A x, y \in Places' :
           (x[1] < y[1] \/ (x[1] = y[1] /\ x[2] < y[2])) /\ Placed(x)'.seq = Placed(y)'.seq
           => Placed(x)'.pos < Placed(y)'.pos
    BY <2>1, <2>4 DEF Placed, Before
  <2> QED
    BY <2>5, <1>2 DEF SplitsKeepOrder, UbatchOK
<1> QED
  BY <1>2, <1>4, <1>5, <1>7, <1>8, <1>9, <1>10 DEF BatchInv

LEMMA SimpleStep ==
    ASSUME BatchInv, SplitSimple
    PROVE  BatchInv'
<1>1. TypeOK /\ ReadyToSplit /\ split = "simple" /\ batch \in Seq(Rows)
  BY DEF BatchInv, SplitSimple, TypeOK
<1>2. ubatches' = [c \in 1 .. Pieces(Len(batch)) |-> Piece(batch, c)]
  BY DEF SplitSimple
<1>3. ubatches' \in Seq(Seq(Rows)) /\ Distributed(ubatches')
  BY <1>1, <1>2, SimplePieces
<1>4. ASSUME NEW u \in DOMAIN ubatches' PROVE UbatchOK(ubatches'[u])
  <2>1. u \in 1 .. Pieces(Len(batch)) /\ ubatches'[u] = Piece(batch, u)
    BY <1>2
  <2>2. Piece(batch, u) \in Seq(Rows) /\ Len(Piece(batch, u)) \in 1 .. MaxBatchSize
    BY <2>1, <1>1, PieceOf
  <2>3. Len(Piece(batch, u)) <= MaxBatchSize /\ Piece(batch, u) # <<>>
    BY <2>2, MaxBatchAssumption
  <2> QED
    BY <2>1, <2>3, <1>1 DEF UbatchOK
<1> QED
  BY <1>1, <1>3, <1>4, SplitStep

(* The sequences that have rows.                                           *)
LEMMA InBatchTypes ==
    ASSUME TypeOK
    PROVE  /\ InBatch \subseteq Seqs /\ InBatch \subseteq Nat /\ IsFiniteSet(InBatch)
           /\ \A S : S \cap InBatch # {} => RowsOf(S) # <<>>
           /\ \A S : \A n \in DOMAIN RowsOf(S) : RowsOf(S)[n].seq \in S
<1>1. batch \in Seq(Rows)
  BY DEF TypeOK
<1>2. \A i \in DOMAIN batch : batch[i].seq \in Seqs
  <2>1. \A i \in DOMAIN batch : batch[i] \in Rows
    BY <1>1
  <2>2. \A row \in Rows : row.seq \in Seqs
    BY DEF Rows
  <2> QED
    BY <2>1, <2>2
<1>3. InBatch \subseteq Seqs
  BY <1>2 DEF InBatch
<1>4. InBatch \subseteq Nat /\ IsFiniteSet(InBatch)
  BY <1>3, SeqsFinite, FS_Subset
<1>5. ASSUME NEW S, S \cap InBatch # {} PROVE RowsOf(S) # <<>>
  <2>1. PICK i \in DOMAIN batch : batch[i].seq \in S
    BY <1>5 DEF InBatch
  <2>2. i \in Indices(S)
    BY <2>1 DEF Indices
  <2>3. \E n \in DOMAIN RowsOf(S) : TRUE
    BY <2>2, RowsOfSet
  <2> QED
    BY <2>3
<1>6. ASSUME NEW S, NEW n \in DOMAIN RowsOf(S) PROVE RowsOf(S)[n].seq \in S
  <2>1. InOrder(Indices(S))[n] \in Indices(S) /\ RowsOf(S)[n] = batch[InOrder(Indices(S))[n]]
    BY <1>6, RowsOfSet
  <2> QED
    BY <2>1 DEF Indices
<1> QED
  BY <1>3, <1>4, <1>5, <1>6

LEMMA EqualStep ==
    ASSUME BatchInv, SplitEqual
    PROVE  BatchInv'
<1>1. TypeOK /\ ReadyToSplit /\ split = "equal"
  BY DEF BatchInv, SplitEqual
<1>2. PICK o \in SetToSeqs(InBatch) :
          ubatches' = [c \in 1 .. Pieces(Len(o)) |-> RowsOf(ToSet(Piece(o, c)))]
  BY DEF SplitEqual, SortedBy
<1>3. InBatch \subseteq Seqs /\ IsFiniteSet(InBatch)
  BY <1>1, InBatchTypes
<1>4. /\ o \in Seq(InBatch) /\ Len(o) \in Nat /\ DOMAIN o = 1 .. Len(o)
      /\ IsInjective(o) /\ ToSet(o) = InBatch
  BY <1>3, Permutation
<1> DEFINE M == MaxBatchSize
           N == Pieces(Len(o))
           G == [c \in 1 .. N |-> ToSet(Piece(o, c))]
<1>5. N \in Nat
  BY <1>4, PiecesCover
<1>6. \A c \in 1 .. N :
         /\ Piece(o, c) \in Seq(InBatch) /\ Len(Piece(o, c)) \in 1 .. M
         /\ DOMAIN Piece(o, c) = 1 .. Len(Piece(o, c))
         /\ \A k \in 1 .. Len(Piece(o, c)) : /\ (c - 1) * M + k \in 1 .. Len(o)
                                             /\ Piece(o, c)[k] = o[(c - 1) * M + k]
         /\ \A k \in 1 .. M : (c - 1) * M + k <= Len(o) => k \in 1 .. Len(Piece(o, c))
  BY <1>4, PieceOf
<1>7. ASSUME NEW c \in 1 .. N
      PROVE  /\ G[c] = {Piece(o, c)[k] : k \in 1 .. Len(Piece(o, c))}
             /\ G[c] \subseteq InBatch /\ G[c] # {}
             /\ IsFiniteSet(G[c]) /\ Cardinality(G[c]) <= M
  <2> DEFINE p == Piece(o, c)
  <2>1. /\ p \in Seq(InBatch) /\ Len(p) \in 1 .. M /\ DOMAIN p = 1 .. Len(p)
        /\ G[c] = ToSet(p)
    BY <1>6
  <2>2. M \in Nat
    BY MaxBatchAssumption
  <2> HIDE DEF p, G
  <2>3. G[c] = {p[k] : k \in 1 .. Len(p)} /\ Len(p) \in Nat
    BY <2>1, <2>2 DEF ToSet
  <2>4. G[c] \subseteq InBatch
    BY <2>1, <2>3
  <2>5. G[c] # {}
    <3>1. 1 \in 1 .. Len(p)
      BY <2>1, <2>2
    <3> QED
      BY <3>1, <2>3
  <2>6. p \in Surjection(1 .. Len(p), G[c])
    <3>1. p \in [1 .. Len(p) -> G[c]]
      BY <2>1, <2>3
    <3> QED
      BY <3>1, <2>3 DEF Surjection
  <2>7. IsFiniteSet(G[c])
    BY <2>4, <1>3, FS_Subset
  <2>8. Cardinality(G[c]) <= Len(p)
    <3>1. ExistsSurjection(1 .. Len(p), G[c])
      BY <2>6 DEF ExistsSurjection
    <3> QED
      BY <3>1, <2>3, FS_SurjCardinalityBound
  <2>9. Cardinality(G[c]) <= M
    <3>1. Cardinality(G[c]) \in Nat
      BY <2>7, FS_CardinalityType
    <3> QED
      BY <3>1, <2>1, <2>2, <2>3, <2>8
  <2> QED
    BY <2>3, <2>4, <2>5, <2>7, <2>9 DEF p
<1>8. G \in [1 .. N -> SUBSET Seqs]
  BY <1>3, <1>7
<1>9. \A k, c : c \in 1 .. N /\ k \in 1 .. Len(Piece(o, c)) => k \in 1 .. M
  <2> SUFFICES ASSUME NEW c \in 1 .. N, NEW k \in 1 .. Len(Piece(o, c)) PROVE k \in 1 .. M
    OBVIOUS
  <2>1. Len(Piece(o, c)) \in 1 .. M /\ M \in Nat
    BY <1>6, MaxBatchAssumption
  <2> QED
    BY <2>1
<1>10. \A c, d \in 1 .. N : c # d => G[c] \cap G[d] = {}
  <2> SUFFICES ASSUME NEW c \in 1 .. N, NEW d \in 1 .. N, NEW s \in G[c], s \in G[d]
               PROVE  c = d
    OBVIOUS
  <2>1. PICK j \in 1 .. Len(Piece(o, c)) : s = Piece(o, c)[j]
    BY <1>7
  <2>2. PICK k \in 1 .. Len(Piece(o, d)) : s = Piece(o, d)[k]
    BY <1>7
  <2>3. (c - 1) * M + j = (d - 1) * M + k
    <3>1. /\ (c - 1) * M + j \in DOMAIN o /\ o[(c - 1) * M + j] = s
          /\ (d - 1) * M + k \in DOMAIN o /\ o[(d - 1) * M + k] = s
      BY <2>1, <2>2, <1>4, <1>6
    <3>2. \A a, b \in DOMAIN o : o[a] = o[b] => a = b
      BY <1>4 DEF IsInjective
    <3> QED
      BY <3>1, <3>2
  <2>4. j \in 1 .. M /\ k \in 1 .. M
    BY <1>9
  <2> QED
    BY <2>3, <2>4, <1>4, PlaceInWhole
<1>11. \A s \in InBatch : \E c \in 1 .. N : s \in G[c]
  <2> SUFFICES ASSUME NEW s \in InBatch PROVE \E c \in 1 .. N : s \in G[c]
    OBVIOUS
  <2>1. PICK i \in 1 .. Len(o) : o[i] = s
    BY <1>4 DEF ToSet
  <2>2. PICK c \in 1 .. N, k \in 1 .. M : i = (c - 1) * M + k
    BY <1>4, PiecesCover
  <2>3. i <= Len(o)
    BY <1>4
  <2>4. k \in 1 .. Len(Piece(o, c)) /\ Piece(o, c)[k] = s
    BY <2>1, <2>2, <2>3, <1>6
  <2> QED
    BY <2>4, <1>7
<1> HIDE DEF N
<1>12. ubatches' = [c \in 1 .. N |-> RowsOf(G[c])]
  BY <1>2 DEF N
<1> HIDE DEF G
<1>13. ubatches' \in Seq(Seq(Rows)) /\ DOMAIN ubatches' = 1 .. N /\ Distributed(ubatches')
  BY <1>1, <1>5, <1>8, <1>10, <1>11, <1>12, Groups
<1>14. ASSUME NEW u \in DOMAIN ubatches' PROVE UbatchOK(ubatches'[u])
  <2> DEFINE rows == RowsOf(G[u])
             seqs == {row.seq : row \in ToSet(rows)}
  <2>1. u \in 1 .. N /\ ubatches'[u] = rows
    BY <1>12, <1>13
  <2>2. rows # <<>>
    BY <2>1, <1>1, <1>7, InBatchTypes
  <2>3. seqs \subseteq G[u]
    BY <1>1, InBatchTypes DEF ToSet
  <2>4. IsFiniteSet(seqs) /\ Cardinality(seqs) <= Cardinality(G[u])
    BY <2>1, <2>3, <1>7, FS_Subset
  <2>5. Cardinality(seqs) <= M
    <3>1. Cardinality(seqs) \in Nat /\ Cardinality(G[u]) \in Nat /\ M \in Nat
          /\ Cardinality(G[u]) <= M
      BY <2>1, <2>4, <1>7, FS_CardinalityType, MaxBatchAssumption
    <3> QED
      BY <3>1, <2>4
  <2> QED
    BY <2>1, <2>2, <2>5, <1>1 DEF UbatchOK
<1> QED
  BY <1>1, <1>13, <1>14, SplitStep

(* split_seq: the last row of a sequence is the one at the end of its      *)
(* prompt.                                                                 *)
LEMMA SequenceRows ==
    ASSUME TypeOK, OrderFixed, RowsOK, NEW s \in InBatch
    PROVE  LET rows == RowsOf({s})
           IN  /\ Cardinality({row.seq : row \in ToSet(rows)}) = 1
               /\ rows[Len(rows)].logits
               /\ outputAll \/ \A n \in 1 .. Len(rows) - 1 : ~ rows[n].logits
<1> DEFINE rows == RowsOf({s})
           o == InOrder(Indices({s}))
           last == Len(prompt[s]) - 1
<1>1. /\ Len(rows) \in Nat /\ DOMAIN rows = 1 .. Len(rows)
      /\ \A n \in DOMAIN rows : o[n] \in Indices({s}) /\ rows[n] = batch[o[n]]
      /\ \A i \in Indices({s}) : \E n \in DOMAIN rows : o[n] = i
      /\ \A m, n \in DOMAIN rows : m < n => o[m] < o[n]
  BY RowsOfSet
<1>2. rows # <<>> /\ s \in Seqs
  BY InBatchTypes
<1>3. Len(rows) \in DOMAIN rows
  BY <1>1, <1>2
<1> HIDE DEF rows, o
<1>4. \A n \in DOMAIN rows : o[n] \in DOMAIN batch /\ batch[o[n]].seq = s /\ rows[n].seq = s
                             /\ rows[n] = Row(s, rows[n].pos)
                             /\ rows[n].pos \in shared[s] .. last
  BY <1>1 DEF Indices, RowsOK
<1>5. Len(prompt[s]) \in Nat /\ shared[s] \in Nat
  BY <1>2, PromptTypes DEF TypeOK
<1>6. \A m, n \in DOMAIN rows : m < n => rows[m].pos < rows[n].pos
  BY <1>1, <1>4, RowsAscend
<1>7. \E n \in DOMAIN rows : rows[n].pos = last
  <2>1. PICK l \in Done : s = order[l]
    BY <1>3, <1>4 DEF RowsOK
  <2>2. last \in shared[s] .. last
    BY <1>3, <1>4, <1>5
  <2>3. PICK i \in DOMAIN batch : batch[i].seq = s /\ batch[i].pos = last
    BY <2>1, <2>2 DEF RowsOK
  <2>4. i \in Indices({s})
    BY <2>3 DEF Indices
  <2>5. PICK n \in DOMAIN rows : o[n] = i
    BY <2>4, <1>1
  <2>6. rows[n] = batch[i]
    BY <2>5, <1>1
  <2> QED
    BY <2>3, <2>6
<1>8. \A n \in DOMAIN rows : n # Len(rows) => n < Len(rows)
  BY <1>1
<1>9. rows[Len(rows)].pos = last
  <2>1. PICK n \in DOMAIN rows : rows[n].pos = last
    BY <1>7
  <2>2. ASSUME n # Len(rows) PROVE FALSE
    <3>1. last < rows[Len(rows)].pos
      BY <2>1, <2>2, <1>3, <1>6, <1>8
    <3> QED
      BY <3>1, <1>3, <1>4, <1>5
  <2> QED
    BY <2>1, <2>2
<1>10. rows[Len(rows)].logits
  <2>1. rows[Len(rows)] = Row(s, last)
    BY <1>3, <1>4, <1>9
  <2>2. Row(s, last).logits = (outputAll \/ last = Len(prompt[s]) - 1)
    BY DEF Row
  <2> QED
    BY <2>1, <2>2
<1>11. ASSUME ~ outputAll, NEW n \in 1 .. Len(rows) - 1 PROVE ~ rows[n].logits
  <2>1. n \in DOMAIN rows /\ n < Len(rows)
    BY <1>1
  <2>2. rows[n].pos < last
    BY <2>1, <1>3, <1>6, <1>9
  <2>3. rows[n].pos # Len(prompt[s]) - 1
    BY <2>1, <2>2, <1>4, <1>5
  <2>4. rows[n].logits = (outputAll \/ rows[n].pos = Len(prompt[s]) - 1)
    <3>1. \A p : Row(s, p).logits = (outputAll \/ p = Len(prompt[s]) - 1)
      BY DEF Row
    <3> QED
      BY <3>1, <2>1, <1>4
  <2> QED
    BY <2>3, <2>4, <1>11
<1>12. {row.seq : row \in ToSet(rows)} = {s}
  BY <1>3, <1>4 DEF ToSet
<1>13. Cardinality({s}) = 1
  BY FS_Singleton
<1> QED
  BY <1>10, <1>11, <1>12, <1>13 DEF rows

LEMMA SeqStep ==
    ASSUME BatchInv, SplitSeq
    PROVE  BatchInv'
<1> DEFINE o == InOrder(InBatch)
           N == Len(o)
           G == [c \in 1 .. N |-> {o[c]}]
<1>1. TypeOK /\ OrderFixed /\ RowsOK /\ ReadyToSplit /\ split = "seq"
  BY DEF BatchInv, SplitSeq
<1>2. ubatches' = [c \in DOMAIN o |-> RowsOf({o[c]})]
  BY DEF SplitSeq
<1>3. InBatch \subseteq Seqs /\ InBatch \subseteq Nat /\ IsFiniteSet(InBatch)
  BY <1>1, InBatchTypes
<1>4. /\ o \in Seq(InBatch) /\ N \in Nat /\ DOMAIN o = 1 .. N /\ ToSet(o) = InBatch
      /\ \A m, n \in DOMAIN o : m < n => o[m] < o[n]
  BY <1>3, Enumeration
<1> HIDE DEF o, N
<1>5. \A c \in 1 .. N : o[c] \in InBatch
  BY <1>4 DEF N
<1>6. \A c, d \in 1 .. N : c # d => o[c] # o[d]
  <2> SUFFICES ASSUME NEW c \in 1 .. N, NEW d \in 1 .. N, c < d PROVE o[c] # o[d]
    BY <1>4
  <2>1. o[c] \in Nat /\ o[d] \in Nat /\ o[c] < o[d]
    BY <1>3, <1>4, <1>5
  <2> QED
    BY <2>1
<1>7. G \in [1 .. N -> SUBSET Seqs] /\ \A c, d \in 1 .. N : c # d => G[c] \cap G[d] = {}
  BY <1>3, <1>5, <1>6
<1>8. \A s \in InBatch : \E c \in 1 .. N : s \in G[c]
  BY <1>4 DEF ToSet
<1>9. ubatches' = [c \in 1 .. N |-> RowsOf(G[c])]
  BY <1>2, <1>4
<1> HIDE DEF G
<1>10. ubatches' \in Seq(Seq(Rows)) /\ DOMAIN ubatches' = 1 .. N /\ Distributed(ubatches')
  BY <1>1, <1>4, <1>7, <1>8, <1>9, Groups
<1>11. ASSUME NEW u \in DOMAIN ubatches' PROVE UbatchOK(ubatches'[u])
  <2>1. ubatches'[u] = RowsOf({o[u]}) /\ o[u] \in InBatch
    BY <1>2, <1>4, <1>5, <1>10
  <2>2. RowsOf({o[u]}) # <<>>
    BY <2>1, <1>1, InBatchTypes
  <2> QED
    BY <2>1, <2>2, <1>1, SequenceRows DEF UbatchOK
<1> QED
  BY <1>1, <1>10, <1>11, SplitStep

-----------------------------------------------------------------------------
LEMMA BatchInduction == BatchInv /\ [Next]_vars => BatchInv'
<1> SUFFICES ASSUME BatchInv, [Next]_vars PROVE BatchInv'
  OBVIOUS
<1>1. CASE Sort
  BY <1>1, SortStep
<1>2. CASE Link
  BY <1>2, LinkStep
<1>3. CASE SplitSimple
  BY <1>3, SimpleStep
<1>4. CASE SplitEqual
  BY <1>4, EqualStep
<1>5. CASE SplitSeq
  BY <1>5, SeqStep
<1>6. CASE UNCHANGED vars
  <2>1. /\ prompt' = prompt /\ split' = split /\ outputAll' = outputAll /\ pc' = pc
        /\ order' = order /\ at' = at /\ parent' = parent /\ shared' = shared
        /\ finished' = finished /\ batch' = batch /\ ubatches' = ubatches
    BY <1>6 DEF vars
  <2>2. \A x, y : Row(x, y)' = Row(x, y) /\ SharedLen(x, y)' = SharedLen(x, y)
    BY <2>1 DEF Row, SharedLen
  <2>3. TypeOK' /\ OrderFixed' /\ Done' = Done
    BY <2>1 DEF BatchInv, TypeOK, OrderFixed, Done
  <2>4. LinksOK'
    BY <2>1, <2>2, <2>3 DEF BatchInv, LinksOK
  <2>7. RowsOK'
    BY <2>1, <2>2, <2>3 DEF BatchInv, RowsOK
  <2>5. Distributed(ubatches) => Distributed(ubatches)'
    BY <2>1 DEF Distributed
  <2>6. SplitsKeepOrder => SplitsKeepOrder'
    <3>1. Places' = Places /\ \A x : Placed(x)' = Placed(x)
      BY <2>1 DEF Places, Placed
    <3> QED
      BY <2>1, <3>1 DEF SplitsKeepOrder
  <2> QED
    BY <2>1, <2>3, <2>4, <2>5, <2>6, <2>7 DEF BatchInv
<1>7. CASE Returned
  BY <1>6, <1>7 DEF Returned
<1> QED
  BY <1>1, <1>2, <1>3, <1>4, <1>5, <1>6, <1>7 DEF Next

LEMMA BatchInit == Init => BatchInv
<1> SUFFICES ASSUME Init PROVE BatchInv
  OBVIOUS
<1>1. Done = {} /\ Len(order) = 0 /\ DOMAIN order = {} /\ DOMAIN batch = {}
  BY DEF Init, Done
<1>2. TypeOK
  BY DEF Init, TypeOK
<1>3. OrderFixed
  BY <1>1 DEF Init, OrderFixed, IsInjective
<1>4. LinksOK /\ RowsOK
  BY <1>1 DEF LinksOK, RowsOK
<1> QED
  BY <1>2, <1>3, <1>4 DEF Init, BatchInv

LEMMA BatchInvariant == Spec => []BatchInv
  BY BatchInit, BatchInduction, PTL DEF Spec

(* All variables keep their types: in particular no row has a token that   *)
(* is not in the vocabulary, whatever tokenize returns.                    *)
THEOREM TypeCorrect == Spec => []TypeOK
<1>1. BatchInv => TypeOK
  BY DEF BatchInv
<1> QED
  BY <1>1, BatchInvariant, PTL

(* The three splits keep the rows of a sequence in order, make no empty    *)
(* ubatch and respect their limits; the split by sequence makes ubatches   *)
(* of one sequence that end with the row whose output is sampled.          *)
THEOREM OrderIsKept == Spec => []SplitsKeepOrder
<1>1. BatchInv => SplitsKeepOrder
  <2> SUFFICES ASSUME BatchInv, ubatches = <<>> PROVE SplitsKeepOrder
    BY DEF BatchInv
  <2>1. DOMAIN ubatches = {}
    OBVIOUS
  <2>2. Places = {}
    BY <2>1 DEF Places
  <2> QED
    BY <2>1, <2>2 DEF SplitsKeepOrder
<1> QED
  BY <1>1, BatchInvariant, PTL

(* Two rows for the same prefix are there only if the sequence that was    *)
(* linked first is finished by its own prompt.                             *)
THEOREM PrefixesComputedOnce == Spec => []PrefixComputedOnce
<1>1. BatchInv => PrefixComputedOnce
  <2> SUFFICES ASSUME BatchInv, NEW m \in DOMAIN batch, NEW n \in DOMAIN batch,
                      NEW s, s = batch[m].seq, NEW t, t = batch[n].seq,
                      NEW p, p = batch[n].pos, m < n, s # t, batch[m].pos = p,
                      SubSeq(prompt[s], 1, p + 1) = SubSeq(prompt[t], 1, p + 1),
                      ~ finished[s]
               PROVE  FALSE
    BY DEF PrefixComputedOnce
  <2>1. TypeOK /\ OrderFixed /\ LinksOK /\ RowsOK
    BY DEF BatchInv
  <2>2. PICK j \in Done : s = order[j]
    BY <2>1 DEF RowsOK
  <2>3. PICK l \in Done : t = order[l]
    BY <2>1 DEF RowsOK
  <2>4. s \in Seqs /\ t \in Seqs
    BY <2>1, <2>2, <2>3, OrderTypes
  <2>5. j \in 1 .. l - 1
    <3>0. batch[m].seq = order[j] /\ batch[n].seq = order[l]
      BY <2>2, <2>3
    <3>1. j < l \/ j = l
      BY <2>1, <3>0, RowsInOrder
    <3>2. j # l
      BY <2>2, <2>3
    <3>3. j \in Nat /\ l \in Nat /\ j >= 1
      BY DEF Done
    <3> QED
      BY <3>1, <3>2, <3>3
  <2>6. SharedLen(t, s) <= shared[t]
    BY <2>1, <2>2, <2>3, <2>5 DEF LinksOK
  <2>7. /\ p \in shared[t] .. Len(prompt[t]) - 1 /\ p \in shared[s] .. Len(prompt[s]) - 1
        /\ shared[t] \in Nat /\ shared[s] \in Nat
        /\ Len(prompt[t]) \in Nat /\ Len(prompt[s]) \in Nat
        /\ prompt[t] \in Seq(Int) /\ prompt[s] \in Seq(Int)
    BY <2>1, <2>4, PromptTypes DEF RowsOK, TypeOK
  <2>8. p + 1 \in Nat /\ p + 1 <= Len(prompt[t]) /\ p + 1 <= Len(prompt[s]) /\ p >= shared[t]
    <3>1. \A a, b \in Nat : p \in a .. b - 1 => p \in Nat /\ p + 1 <= b /\ p >= a
      OBVIOUS
    <3>2. p \in Nat /\ p + 1 <= Len(prompt[t]) /\ p >= shared[t]
      BY <2>7, <3>1
    <3>3. p + 1 <= Len(prompt[s])
      BY <2>7, <3>1
    <3> QED
      BY <3>2, <3>3
  <2>9. \A i \in 1 .. p + 1 : prompt[t][i] = prompt[s][i]
    BY <2>7, <2>8, SameStart
  <2>10. p + 1 <= SharedLen(t, s) /\ SharedLen(t, s) \in Nat
    BY <2>1, <2>4, <2>8, <2>9, SharedTokens
  <2> QED
    BY <2>6, <2>7, <2>8, <2>10
<1> QED
  BY <1>1, BatchInvariant, PTL

-----------------------------------------------------------------------------
(* After init every sequence has one row, in one ubatch, for each position *)
(* that it does not share, and no other.                                   *)
LEMMA RowsForPosition ==
    ASSUME BatchInv, pc = "done", NEW t \in Seqs, NEW p \in Nat
    PROVE  IF p \in shared[t] .. Len(prompt[t]) - 1
           THEN RowsFor(t, p) # {} /\ Cardinality(RowsFor(t, p)) = 1
           ELSE RowsFor(t, p) = {}
<1>1. TypeOK /\ OrderFixed /\ RowsOK /\ at = Len(order) + 1 /\ Distributed(ubatches)
  BY DEF BatchInv
<1>2. shared[t] \in Nat /\ Len(prompt[t]) \in Nat /\ prompt[t] \in Seq(Int)
  BY <1>1, PromptTypes DEF TypeOK
<1> DEFINE P == Places  R == RowsFor(t, p)
<1>3. PICK g \in Bijection(P, DOMAIN batch) : \A x \in P : Placed(x) = batch[g[x]]
  BY <1>1 DEF Distributed, Places, PlacesIn, Placed
<1>4. /\ \A x \in P : g[x] \in DOMAIN batch
      /\ \A x, y \in P : g[x] = g[y] => x = y
      /\ \A n \in DOMAIN batch : \E x \in P : g[x] = n
  BY <1>3 DEF Bijection, Injection, Surjection, IsInjective
<1>5. R = {x \in P : batch[g[x]].seq = t /\ batch[g[x]].pos = p}
  BY <1>3 DEF RowsFor
<1> HIDE DEF P, R
<1>6. ASSUME R # {} PROVE p \in shared[t] .. Len(prompt[t]) - 1
  <2>1. PICK x \in P : batch[g[x]].seq = t /\ batch[g[x]].pos = p
    BY <1>5, <1>6
  <2> QED
    BY <2>1, <1>1, <1>4 DEF RowsOK
<1>7. ASSUME p \in shared[t] .. Len(prompt[t]) - 1 PROVE R # {} /\ Cardinality(R) = 1
  <2>1. prompt[t] # <<>>
    BY <1>2, <1>7
  <2>2. t \in ToSet(order)
    BY <2>1, <1>1 DEF OrderFixed
  <2>3. PICK l \in DOMAIN order : t = order[l]
    BY <2>2 DEF ToSet
  <2>4. l \in Done
    <3>1. Len(order) \in Nat /\ DOMAIN order = 1 .. Len(order)
      BY <1>1, OrderTypes
    <3>2. at - 1 = Len(order)
      BY <3>1, <1>1
    <3> QED
      BY <3>1, <3>2 DEF Done
  <2>5. PICK n \in DOMAIN batch : batch[n].seq = t /\ batch[n].pos = p
    BY <2>3, <2>4, <1>1, <1>7 DEF RowsOK
  <2>6. PICK x \in P : g[x] = n
    BY <1>4
  <2>7. ASSUME NEW y \in R PROVE y = x
    <3>1. y \in P /\ g[y] \in DOMAIN batch /\ batch[g[y]].seq = t /\ batch[g[y]].pos = p
      BY <1>4, <1>5
    <3>2. n \in Nat /\ g[y] \in Nat
      BY <3>1, <1>1 DEF TypeOK
    <3>3. ~ (n < g[y]) /\ ~ (g[y] < n)
      <4>1. ~ (p < p)
        OBVIOUS
      <4> QED
        BY <4>1, <3>1, <2>5, <1>1, RowsAscend
    <3>4. g[y] = g[x]
      BY <3>2, <3>3, <2>6
    <3> QED
      BY <3>1, <3>4, <1>4
  <2>8. R = {x}
    BY <2>5, <2>6, <2>7, <1>5
  <2> QED
    BY <2>8, FS_Singleton
<1> QED
  BY <1>6, <1>7 DEF R

-----------------------------------------------------------------------------
LEMMA AncestorsOf ==
    ASSUME TypeOK, NEW s \in Seqs
    PROVE  /\ s \in Ancestors(s)
           /\ parent[s] # NoSeq => Ancestors(s) = {s} \union Ancestors(parent[s])
<1>1. s \in Ancestors(s)
  BY DEF Ancestors
<1>2. ASSUME parent[s] # NoSeq PROVE Ancestors(s) = {s} \union Ancestors(parent[s])
  <2> DEFINE q == parent[s]  A == Ancestors(q)
  <2>1. q \in Seqs
    BY <1>2 DEF TypeOK
  <2>2. Upward(A)
    <3>1. SUFFICES ASSUME NEW t \in A, parent[t] # NoSeq PROVE parent[t] \in A
      BY DEF Upward
    <3>2. t \in Seqs /\ parent[t] \in Seqs
      BY <3>1 DEF Ancestors, TypeOK
    <3>3. ASSUME NEW C \in SUBSET Seqs, q \in C, Upward(C) PROVE parent[t] \in C
      <4>1. t \in C
        BY <3>3 DEF Ancestors
      <4> QED
        BY <4>1, <3>1, <3>3 DEF Upward
    <3> QED
      BY <3>2, <3>3 DEF Ancestors
  <2>3. A \in SUBSET Seqs /\ q \in A
    BY <2>1 DEF Ancestors
  <2>4. Upward({s} \union A) /\ {s} \union A \in SUBSET Seqs
    BY <2>2, <2>3 DEF Upward
  <2>5. Ancestors(s) \subseteq {s} \union A
    BY <2>4 DEF Ancestors
  <2>6. ASSUME NEW t \in A PROVE t \in Ancestors(s)
    <3>1. ASSUME NEW C \in SUBSET Seqs, s \in C, Upward(C) PROVE t \in C
      <4>1. q \in C
        BY <3>1, <1>2 DEF Upward
      <4> QED
        BY <4>1, <3>1, <2>6 DEF Ancestors
    <3> QED
      BY <3>1, <2>3, <2>6 DEF Ancestors
  <2> QED
    BY <2>5, <2>6, <1>1
<1> QED
  BY <1>1, <1>2

(* The ancestors of a sequence were linked before it and are not finished. *)
LEMMA AncestorsEarlier ==
    ASSUME TypeOK, OrderFixed, LinksOK, NEW l \in Done, NEW t \in Ancestors(order[l])
    PROVE  t = order[l] \/ \E j \in 1 .. l - 1 : t = order[j] /\ ~ finished[order[j]]
<1> DEFINE C == {order[l]} \union {order[j] : j \in {i \in 1 .. l - 1 : ~ finished[order[i]]}}
<1>1. /\ l \in Nat /\ \A j \in 1 .. l - 1 : j \in Done /\ j < l /\ j \in Nat
      /\ \A i \in Done : order[i] \in Seqs
  BY OrderTypes DEF Done
<1>2. C \in SUBSET Seqs /\ order[l] \in C
  BY <1>1
<1>3. ASSUME NEW i \in Done, i <= l, parent[order[i]] # NoSeq
      PROVE  parent[order[i]] \in C
  <2>1. PICK j \in 1 .. i - 1 : parent[order[i]] = order[j] /\ ~ finished[order[j]]
    BY <1>3 DEF LinksOK
  <2>2. i \in Nat
    BY DEF Done
  <2>3. j \in 1 .. l - 1
    BY <2>2, <1>1, <1>3
  <2> QED
    BY <2>1, <2>3
<1>4. Upward(C)
  <2> SUFFICES ASSUME NEW c \in C, parent[c] # NoSeq PROVE parent[c] \in C
    BY DEF Upward
  <2>1. PICK i \in Done : i <= l /\ c = order[i]
    BY <1>1
  <2> QED
    BY <2>1, <1>3
<1>5. t \in C
  BY <1>2, <1>4 DEF Ancestors
<1> QED
  BY <1>5

Owners(s, p) == {t \in Ancestors(s) : /\ IsPrefix(SubSeq(prompt[s], 1, p + 1), prompt[t])
                                      /\ RowsFor(t, p) # {}}
Covered(s, p) ==
    \E t \in Owners(s, p) : /\ Owners(s, p) = {t} /\ Cardinality(RowsFor(t, p)) = 1
                            /\ t = s <=> p >= shared[s]

(* A position behind the shared prefix: no ancestor has the same tokens up *)
(* to it, for an ancestor is not finished, and the parent was chosen among *)
(* all of these.                                                           *)
LEMMA OwnRow ==
    ASSUME BatchInv, pc = "done", NEW l \in Done, NEW s, s = order[l],
           NEW p \in 0 .. Len(prompt[s]) - 1, p >= shared[s]
    PROVE  Covered(s, p)
<1>1. TypeOK /\ OrderFixed /\ LinksOK
  BY DEF BatchInv
<1>2. s \in Seqs
  BY <1>1, OrderTypes
<1>3. prompt[s] \in Seq(Int) /\ Len(prompt[s]) \in Nat /\ shared[s] \in Nat
  BY <1>1, <1>2, PromptTypes DEF TypeOK
<1>4. p \in Nat /\ p + 1 \in Nat /\ p + 1 <= Len(prompt[s]) /\ p \in shared[s] .. Len(prompt[s]) - 1
  BY <1>3
<1>5. RowsFor(s, p) # {} /\ Cardinality(RowsFor(s, p)) = 1
  BY <1>2, <1>4, RowsForPosition
<1>6. s \in Owners(s, p)
  <2>1. IsPrefix(SubSeq(prompt[s], 1, p + 1), prompt[s])
    BY <1>3, <1>4, StartIsPrefix
  <2> QED
    BY <2>1, <1>1, <1>2, <1>5, AncestorsOf DEF Owners
<1>7. ASSUME NEW t \in Owners(s, p) PROVE t = s
  <2>1. SUFFICES ASSUME t # s PROVE FALSE
    OBVIOUS
  <2>2. t \in Ancestors(s) /\ t \in Seqs /\ IsPrefix(SubSeq(prompt[s], 1, p + 1), prompt[t])
    BY DEF Owners, Ancestors
  <2>3. PICK j \in 1 .. l - 1 : t = order[j] /\ ~ finished[order[j]]
    BY <2>1, <2>2, <1>1, AncestorsEarlier
  <2>4. SharedLen(s, t) <= shared[s]
    BY <2>3, <1>1 DEF LinksOK
  <2>5. prompt[t] \in Seq(Int)
    BY <2>2, <1>1, PromptTypes
  <2>6. p + 1 <= Len(prompt[t]) /\ \A i \in 1 .. p + 1 : prompt[s][i] = prompt[t][i]
    BY <2>2, <2>5, <1>3, <1>4, StartIsPrefix
  <2>7. p + 1 <= SharedLen(s, t) /\ SharedLen(s, t) \in Nat
    BY <2>2, <2>6, <1>1, <1>2, <1>4, SharedTokens
  <2> QED
    BY <2>4, <2>7, <1>3, <1>4
<1>8. Owners(s, p) = {s}
  BY <1>6, <1>7
<1> QED
  BY <1>5, <1>6, <1>8 DEF Covered

(* A shared position: whoever has the row for the parent has it.           *)
LEMMA ParentsRow ==
    ASSUME BatchInv, pc = "done", NEW l \in Done, NEW s, s = order[l],
           NEW p \in 0 .. Len(prompt[s]) - 1, p < shared[s],
           \A j \in 1 .. l - 1 : \A q \in 0 .. Len(prompt[order[j]]) - 1 : Covered(order[j], q)
    PROVE  Covered(s, p)
<1>1. TypeOK /\ OrderFixed /\ LinksOK
  BY DEF BatchInv
<1>2. s \in Seqs
  BY <1>1, OrderTypes
<1>3. prompt[s] \in Seq(Int) /\ Len(prompt[s]) \in Nat /\ shared[s] \in Nat
  BY <1>1, <1>2, PromptTypes DEF TypeOK
<1>4. p \in Nat /\ p + 1 \in Nat /\ p + 1 <= Len(prompt[s]) /\ p + 1 <= shared[s]
      /\ ~ (p >= shared[s])
  BY <1>3
<1>5. parent[s] # NoSeq
  <2>1. shared[s] # 0
    BY <1>3, <1>4
  <2> QED
    BY <2>1, <1>1 DEF LinksOK
<1>6. PICK j \in 1 .. l - 1 : parent[s] = order[j] /\ shared[s] = SharedLen(s, order[j])
  BY <1>1, <1>5 DEF LinksOK
<1> DEFINE q == order[j]
<1>7. q \in Seqs /\ j \in Done
  <2>1. j \in Done
    <3>1. at \in Nat
      BY <1>1, OrderTypes
    <3> QED
      BY <3>1 DEF Done
  <2> QED
    BY <2>1, <1>1, OrderTypes
<1>8. prompt[q] \in Seq(Int) /\ Len(prompt[q]) \in Nat
  BY <1>1, <1>7, PromptTypes
<1>9. p + 1 <= Len(prompt[q]) /\ \A i \in 1 .. p + 1 : prompt[s][i] = prompt[q][i]
  <2>1. shared[s] <= Len(prompt[q]) /\ \A i \in 1 .. shared[s] : prompt[s][i] = prompt[q][i]
    BY <1>1, <1>2, <1>6, <1>7, SharedTokens
  <2>2. \A i \in 1 .. p + 1 : i \in 1 .. shared[s]
    BY <1>3, <1>4
  <2> QED
    BY <2>1, <2>2, <1>3, <1>4, <1>8
<1>10. SubSeq(prompt[s], 1, p + 1) = SubSeq(prompt[q], 1, p + 1)
  BY <1>3, <1>4, <1>8, <1>9, SameStart
<1>11. RowsFor(s, p) = {}
  <2>1. p \notin shared[s] .. Len(prompt[s]) - 1
    BY <1>3, <1>4
  <2> QED
    BY <2>1, <1>2, <1>4, RowsForPosition
<1>12. Owners(s, p) = Owners(q, p)
  <2>1. Ancestors(s) = {s} \union Ancestors(q)
    BY <1>1, <1>2, <1>5, <1>6, AncestorsOf
  <2> QED
    BY <2>1, <1>10, <1>11 DEF Owners
<1>13. Covered(q, p)
  <2>1. p \in 0 .. Len(prompt[q]) - 1
    BY <1>4, <1>8, <1>9
  <2> QED
    BY <2>1
<1>14. PICK t \in Owners(q, p) : Owners(q, p) = {t} /\ Cardinality(RowsFor(t, p)) = 1
  BY <1>13 DEF Covered
<1>15. t # s
  BY <1>11, <1>14 DEF Owners
<1> QED
  BY <1>4, <1>12, <1>14, <1>15 DEF Covered

(* Every token of every prompt is computed once: the first sequence in the *)
(* order of the loop for which this were not so would have a parent for    *)
(* which it is not so either.                                              *)
THEOREM AllPromptsCovered == Spec => []PromptsCovered
<1>1. BatchInv => PromptsCovered
  <2> SUFFICES ASSUME BatchInv, pc = "done", NEW s \in Seqs, NEW p \in 0 .. Len(prompt[s]) - 1
               PROVE  Covered(s, p)
    BY DEF PromptsCovered, Covered, Owners
  <2>1. TypeOK /\ OrderFixed /\ at = Len(order) + 1
    BY DEF BatchInv
  <2>2. Len(order) \in Nat /\ DOMAIN order = 1 .. Len(order) /\ Done = 1 .. Len(order)
        /\ \A l \in Done : order[l] \in Seqs
    <3>1. Len(order) \in Nat /\ DOMAIN order = 1 .. Len(order)
          /\ \A l \in 1 .. Len(order) : order[l] \in Seqs
      BY <2>1, OrderTypes
    <3>2. at - 1 = Len(order)
      BY <2>1, <3>1
    <3> QED
      BY <3>1, <3>2 DEF Done
  <2> DEFINE Bad == {l \in Done : \E q \in 0 .. Len(prompt[order[l]]) - 1 : ~ Covered(order[l], q)}
  <2>3. Bad = {}
    <3>1. SUFFICES ASSUME Bad # {} PROVE FALSE
      OBVIOUS
    <3>2. Bad \subseteq Nat
      BY <2>2
    <3>3. PICK l \in Bad : \A k \in Bad : l <= k
      BY <3>1, <3>2, Least
    <3>4. PICK q \in 0 .. Len(prompt[order[l]]) - 1 : ~ Covered(order[l], q)
      BY <3>3
    <3>5. l \in Done /\ l \in Nat /\ Len(order) \in Nat
      BY <2>2, <3>2
    <3>6. \A j \in 1 .. l - 1 : \A r \in 0 .. Len(prompt[order[j]]) - 1 : Covered(order[j], r)
      <4>1. \A j \in 1 .. l - 1 : j \in Done /\ ~ (l <= j)
        BY <3>5, <2>2
      <4> QED
        BY <4>1, <3>3
    <3>7. q \in Nat /\ shared[order[l]] \in Nat
      BY <3>4, <3>5, <2>1, <2>2 DEF TypeOK
    <3>8. CASE q >= shared[order[l]]
      BY <3>4, <3>5, <3>8, OwnRow
    <3>9. CASE q < shared[order[l]]
      BY <3>4, <3>5, <3>6, <3>9, ParentsRow
    <3> QED
      BY <3>7, <3>8, <3>9
  <2>4. prompt[s] # <<>>
    <3>1. Len(prompt[s]) \in Nat
      BY <2>1, PromptTypes
    <3> QED
      BY <3>1
  <2>5. PICK l \in Done : s = order[l]
    BY <2>1, <2>2, <2>4 DEF OrderFixed, ToSet, BatchInv
  <2> QED
    BY <2>3, <2>5
<1> QED
  BY <1>1, BatchInvariant, PTL


=============================================================================
