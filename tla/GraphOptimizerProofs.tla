-------------------------- MODULE GraphOptimizerProofs --------------------------
(***************************************************************************)
(* The optimizer on the graph of every model.  In this order: loops and    *)
(* lists; the model's graph and what its nodes read; edits of nets; the    *)
(* pass that copies, and StoreInv, with which the map of devices is right; *)
(* what is at hand while nodes are fused, recycled and built again; the    *)
(* lists that the first build leaves, and HandInv, with which every node   *)
(* has its operands.                                                       *)
(***************************************************************************)
EXTENDS GraphOptimizer, WellFoundedInduction, TLAPS

-----------------------------------------------------------------------------
(* Loops *)

(* Induction over the natural numbers, as a fact about sets.               *)
LEMMA Least ==
    ASSUME NEW T, T \subseteq Nat, T # {}
    PROVE  \E x \in T : \A y \in T : x <= y
<1> DEFINE R == OpToRel(<, Nat)
<1>1. IsWellFoundedOn(R, Nat)
  BY NatLessThanWellFounded
<1>2. \A x, y \in Nat : x < y <=> <<x, y>> \in R
  BY DEF OpToRel
<1> HIDE DEF R
<1>3. PICK x \in T : \A y \in T : ~ (<<y, x>> \in R)
  BY <1>1, WFMin
<1>4. \A y \in T : ~ (y < x)
  BY <1>2, <1>3
<1> QED
  BY <1>4

(* The first turn at which something does not hold would be one more turn  *)
(* than one at which it does.                                              *)
LEMMA LoopInvariant ==
    ASSUME NEW S, NEW n \in Nat, NEW f, f[0] \in S,
           \A k \in 1 .. n : f[k - 1] \in S => f[k] \in S
    PROVE  \A k \in 0 .. n : f[k] \in S
<1> DEFINE T == {k \in 0 .. n : f[k] \notin S}
<1> SUFFICES ASSUME T # {} PROVE FALSE
  OBVIOUS
<1>1. PICK k \in T : \A j \in T : k <= j
  <2>1. T \subseteq Nat
    OBVIOUS
  <2> HIDE DEF T
  <2> QED
    BY <2>1, Least
<1>2. k \in 1 .. n /\ k - 1 \in 0 .. n /\ k - 1 \notin T
  BY <1>1
<1> QED
  BY <1>1, <1>2

(* A loop of n turns over states in S: turn[k][y] is the state that the    *)
(* k-th turn makes of y.                                                   *)
Turns(turn, n, S) == \A k \in 1 .. n, y \in S : turn[k][y] \in S

(* h[k] is the state after k turns, from x.                                *)
Runs(h, turn, n, x, S) ==
    /\ h \in [0 .. n -> S] /\ h[0] = x
    /\ \A k \in 1 .. n : h[k] = turn[k][h[k - 1]]

(* There is a state after each turn.                                       *)
IsLoop(h, turn, n, x) == h = [k \in 0 .. n |-> IF k = 0 THEN x ELSE turn[k][h[k - 1]]]

LEMMA Recursion ==
    ASSUME NEW x, NEW n \in Nat, NEW turn
    PROVE  \E h : IsLoop(h, turn, n, x)
<1> DEFINE Up(h, m) == h = [k \in 0 .. m |-> IF k = 0 THEN x ELSE turn[k][h[k - 1]]]
           T == {m \in 0 .. n : ~ \E h : Up(h, m)}
<1>1. T = {}
  <2> SUFFICES ASSUME T # {} PROVE FALSE
    OBVIOUS
  <2>1. PICK m \in T : \A j \in T : m <= j
    <3>1. T \subseteq Nat
      <4> HIDE DEF Up
      <4> QED
        OBVIOUS
    <3> HIDE DEF T
    <3> QED
      BY <3>1, Least
  <2>2. m # 0
    <3>1. Up([k \in 0 .. 0 |-> x], 0)
      OBVIOUS
    <3> QED
      BY <2>1, <3>1
  <2>3. m \in 1 .. n /\ m - 1 \in 0 .. n /\ m - 1 \notin T
    <3>1. m \in 0 .. n
      OBVIOUS
    <3> HIDE DEF T
    <3> QED
      BY <2>1, <2>2, <3>1
  <2>4. PICK f : Up(f, m - 1)
    BY <2>3
  <2> DEFINE g == [k \in 0 .. m |-> IF k = m THEN turn[m][f[m - 1]] ELSE f[k]]
  <2>5. \A k \in 0 .. m : g[k] = IF k = 0 THEN x ELSE turn[k][g[k - 1]]
    <3> SUFFICES ASSUME NEW k \in 0 .. m
                 PROVE  g[k] = IF k = 0 THEN x ELSE turn[k][g[k - 1]]
      OBVIOUS
    <3>1. CASE k = m
      <4>1. g[m] = turn[m][f[m - 1]] /\ g[m - 1] = f[m - 1]
        BY <2>3
      <4> QED
        BY <2>2, <3>1, <4>1
    <3>2. CASE k # m
      <4>1. k \in 0 .. m - 1 /\ g[k] = f[k]
        BY <2>3, <3>2
      <4>2. f[k] = IF k = 0 THEN x ELSE turn[k][f[k - 1]]
        BY <2>4, <4>1
      <4>3. k # 0 => g[k - 1] = f[k - 1]
        BY <2>3, <4>1
      <4> QED
        BY <4>1, <4>2, <4>3
    <3> QED
      BY <3>1, <3>2
  <2>6. g = [k \in 0 .. m |-> g[k]]
    OBVIOUS
  <2> HIDE DEF g
  <2>7. Up(g, m)
    BY <2>5, <2>6
  <2> QED
    BY <2>1, <2>7
<1>2. n \in 0 .. n /\ n \notin T
  <2> HIDE DEF T
  <2> QED
    BY <1>1
<1> QED
  BY <1>2 DEF IsLoop

LEMMA Loop ==
    ASSUME NEW S, NEW x \in S, NEW n \in Nat, NEW turn, Turns(turn, n, S)
    PROVE  \E h : Runs(h, turn, n, x, S)
<1>1. PICK h : IsLoop(h, turn, n, x)
  BY Recursion
<1>2. h = [k \in 0 .. n |-> IF k = 0 THEN x ELSE turn[k][h[k - 1]]]
  BY <1>1 DEF IsLoop
<1>3. h[0] = x /\ \A k \in 1 .. n : h[k] = turn[k][h[k - 1]]
  <2>1. \A k \in 0 .. n : h[k] = IF k = 0 THEN x ELSE turn[k][h[k - 1]]
    BY <1>2
  <2> QED
    BY <2>1
<1>4. \A k \in 1 .. n : h[k - 1] \in S => h[k] \in S
  BY <1>3 DEF Turns
<1>5. \A k \in 0 .. n : h[k] \in S
  BY <1>3, <1>4, LoopInvariant
<1>6. h \in [0 .. n -> S]
  BY <1>2, <1>5
<1> QED
  BY <1>3, <1>6 DEF Runs

(* A loop in which something is known of each state and its number: Q has  *)
(* these pairs, and f is the loop's function.                              *)
Follows(f, turn, n, x) == f[0] = x /\ \A k \in 1 .. n : f[k] = turn[k][f[k - 1]]

Leads(turn, n, S, Q) ==
    \A k \in 1 .. n, y \in S : <<k - 1, y>> \in Q => turn[k][y] \in S /\ <<k, turn[k][y]>> \in Q
Led(h, turn, n, x, S, Q) ==
    h \in [0 .. n -> S] /\ Follows(h, turn, n, x) /\ \A k \in 0 .. n : <<k, h[k]>> \in Q

LEMMA Folding ==
    ASSUME NEW S, NEW x \in S, NEW n \in Nat, NEW turn, NEW Q, <<0, x>> \in Q, Leads(turn, n, S, Q)
    PROVE  \E h : Led(h, turn, n, x, S, Q)
<1> USE DEF Leads, Led
<1>0. PICK h : IsLoop(h, turn, n, x)
  BY Recursion
<1>1. h = [k \in 0 .. n |-> IF k = 0 THEN x ELSE turn[k][h[k - 1]]]
  BY <1>0 DEF IsLoop
<1>2. Follows(h, turn, n, x)
  <2>1. \A k \in 0 .. n : h[k] = IF k = 0 THEN x ELSE turn[k][h[k - 1]]
    BY <1>1
  <2> QED
    BY <2>1 DEF Follows
<1> DEFINE R == {k \in 0 .. n : h[k] \in S /\ <<k, h[k]>> \in Q}
           id == [k \in 0 .. n |-> k]
<1>3. \A k \in 0 .. n : id[k] \in R
  <2>1. id[0] \in R
    BY <1>2 DEF Follows
  <2>2. ASSUME NEW k \in 1 .. n, id[k - 1] \in R
        PROVE  id[k] \in R
    <3>1. k - 1 \in 0 .. n /\ k \in 0 .. n /\ h[k - 1] \in S /\ <<k - 1, h[k - 1]>> \in Q
      BY <2>2
    <3>2. h[k] = turn[k][h[k - 1]]
      BY <1>2 DEF Follows
    <3> QED
      BY <3>1, <3>2
  <2> HIDE DEF R, id
  <2> QED
    BY <2>1, <2>2, LoopInvariant
<1>4. \A k \in 0 .. n : h[k] \in S /\ <<k, h[k]>> \in Q
  BY <1>3
<1>5. h \in [0 .. n -> S]
  BY <1>1, <1>4
<1> QED
  BY <1>2, <1>4, <1>5

(* There is only one such function.                                        *)
LEMMA OneWay ==
    ASSUME NEW f, NEW h, NEW turn, NEW n \in Nat, NEW x, Follows(f, turn, n, x), Follows(h, turn, n, x)
    PROVE  \A k \in 0 .. n : f[k] = h[k]
<1> DEFINE R == {k \in 0 .. n : f[k] = h[k]}
           id == [k \in 0 .. n |-> k]
<1>1. id[0] \in R
  BY DEF Follows
<1>2. ASSUME NEW k \in 1 .. n, id[k - 1] \in R
      PROVE  id[k] \in R
  <2>1. k - 1 \in 0 .. n /\ k \in 0 .. n /\ f[k - 1] = h[k - 1]
    BY <1>2
  <2> QED
    BY <2>1 DEF Follows
<1>3. \A k \in 0 .. n : id[k] \in R
  <2> HIDE DEF R, id
  <2> QED
    BY <1>1, <1>2, LoopInvariant
<1> QED
  BY <1>3

-----------------------------------------------------------------------------
(* Lists *)

Distinct(q) == \A i, j \in DOMAIN q : q[i] = q[j] => i = j

(* The member x comes once, if at all.                                     *)
Once(q, x) == \A i, j \in DOMAIN q : q[i] = x /\ q[j] = x => i = j

LEMMA AllOnce ==
    ASSUME NEW q
    PROVE  Distinct(q) <=> \A x : Once(q, x)
<1>1. ASSUME Distinct(q), NEW x PROVE Once(q, x)
  BY <1>1 DEF Distinct, Once
<1>2. ASSUME \A x : Once(q, x) PROVE Distinct(q)
  <2> SUFFICES ASSUME NEW i \in DOMAIN q, NEW j \in DOMAIN q, q[i] = q[j] PROVE i = j
    BY DEF Distinct
  <2>1. Once(q, q[i])
    BY <1>2
  <2> QED
    BY <2>1 DEF Once
<1> QED
  BY <1>1, <1>2

LEMMA AppendIs ==
    ASSUME NEW A, NEW q \in Seq(A), NEW x \in A
    PROVE  Append(q, x) \in Seq(A) /\ Members(Append(q, x)) = Members(q) \union {x}
<1>1. /\ Append(q, x) \in Seq(A) /\ Len(q) \in Nat
      /\ DOMAIN q = 1 .. Len(q) /\ DOMAIN Append(q, x) = 1 .. Len(q) + 1
      /\ Append(q, x)[Len(q) + 1] = x
      /\ \A i \in 1 .. Len(q) : Append(q, x)[i] = q[i]
  OBVIOUS
<1>2. Members(Append(q, x)) \subseteq Members(q) \union {x}
  <2> SUFFICES ASSUME NEW i \in DOMAIN Append(q, x)
               PROVE  Append(q, x)[i] \in Members(q) \union {x}
    BY DEF Members
  <2>1. CASE i = Len(q) + 1
    BY <1>1, <2>1
  <2>2. CASE i # Len(q) + 1
    <3>1. i \in DOMAIN q
      BY <1>1, <2>2
    <3> QED
      BY <1>1, <3>1 DEF Members
  <2> QED
    BY <2>1, <2>2
<1>3. Members(q) \union {x} \subseteq Members(Append(q, x))
  <2>1. x \in Members(Append(q, x))
    <3>1. Len(q) + 1 \in DOMAIN Append(q, x)
      BY <1>1
    <3> QED
      BY <1>1, <3>1 DEF Members
  <2>2. \A i \in DOMAIN q : q[i] \in Members(Append(q, x))
    <3> SUFFICES ASSUME NEW i \in DOMAIN q PROVE q[i] \in Members(Append(q, x))
      OBVIOUS
    <3>1. i \in DOMAIN Append(q, x) /\ Append(q, x)[i] = q[i]
      BY <1>1
    <3> QED
      BY <3>1 DEF Members
  <2> QED
    BY <2>1, <2>2 DEF Members
<1> QED
  BY <1>1, <1>2, <1>3

LEMMA AppendOnce ==
    ASSUME NEW A, NEW q \in Seq(A), NEW x \in A, NEW o, Once(q, o), x = o => x \notin Members(q)
    PROVE  Once(Append(q, x), o)
<1>1. /\ Len(q) \in Nat /\ DOMAIN q = 1 .. Len(q) /\ DOMAIN Append(q, x) = 1 .. Len(q) + 1
      /\ Append(q, x)[Len(q) + 1] = x /\ \A i \in 1 .. Len(q) : Append(q, x)[i] = q[i]
  OBVIOUS
<1> SUFFICES ASSUME NEW i \in 1 .. Len(q) + 1, NEW j \in 1 .. Len(q) + 1,
                    Append(q, x)[i] = o, Append(q, x)[j] = o
             PROVE  i = j
  BY <1>1 DEF Once
<1>2. x = o => \A k \in 1 .. Len(q) : q[k] # x
  BY <1>1 DEF Members
<1>3. CASE i = Len(q) + 1 \/ j = Len(q) + 1
  BY <1>1, <1>2, <1>3
<1>4. CASE i # Len(q) + 1 /\ j # Len(q) + 1
  <2>1. i \in DOMAIN q /\ j \in DOMAIN q /\ q[i] = o /\ q[j] = o
    BY <1>1, <1>4
  <2> QED
    BY <2>1 DEF Once
<1> QED
  BY <1>3, <1>4

LEMMA AppendDistinct ==
    ASSUME NEW A, NEW q \in Seq(A), NEW x \in A, Distinct(q), x \notin Members(q)
    PROVE  Distinct(Append(q, x))
BY AppendOnce, AllOnce

(* Only(list, S) lists the members of list that are in S.                  *)
LEMMA OnlyIs ==
    ASSUME NEW A, NEW list \in Seq(A), NEW S
    PROVE  /\ Only(list, S) \in Seq(A \cap S) /\ Members(Only(list, S)) = Members(list) \cap S
           /\ Distinct(list) => Distinct(Only(list, S))
           /\ \A o : Once(list, o) => Once(Only(list, S), o)
<1> DEFINE n == Len(list)
           Q == Seq(A \cap S)
           Turn(q, k) == IF list[k] \in S THEN Append(q, list[k]) ELSE q
           turn == [k \in 1 .. n |-> [q \in Q |-> Turn(q, k)]]
           kept == CHOOSE f : f = [k \in 0 .. n |->
                    IF k = 0 THEN << >>
                    ELSE IF list[k] \in S THEN Append(f[k - 1], list[k]) ELSE f[k - 1]]
<1>1. n \in Nat /\ DOMAIN list = 1 .. n /\ \A k \in 1 .. n : list[k] \in A
  OBVIOUS
<1>2. Turns(turn, n, Q)
  BY <1>1 DEF Turns
<1>3. << >> \in Q
  OBVIOUS
<1>4. PICK h : Runs(h, turn, n, << >>, Q)
  <2> HIDE DEF turn, n, Q
  <2> QED
    BY <1>1, <1>2, <1>3, Loop
<1>5. \A k \in 0 .. n : h[k] = IF k = 0 THEN << >> ELSE Turn(h[k - 1], k)
  <2> SUFFICES ASSUME NEW k \in 0 .. n PROVE h[k] = IF k = 0 THEN << >> ELSE Turn(h[k - 1], k)
    OBVIOUS
  <2>1. k # 0 => k \in 1 .. n /\ k - 1 \in 0 .. n
    BY <1>1
  <2> HIDE DEF n, Q
  <2> QED
    BY <1>4, <2>1 DEF Runs
<1>6. kept = [k \in 0 .. n |-> IF k = 0 THEN << >> ELSE Turn(kept[k - 1], k)]
  <2>1. h = [k \in 0 .. n |-> IF k = 0 THEN << >> ELSE Turn(h[k - 1], k)]
    <3> HIDE DEF Turn, n, Q
    <3> QED
      BY <1>4, <1>5 DEF Runs
  <2> QED
    BY <2>1
<1>7. Only(list, S) = kept[n]
  BY Zenon DEF Only
<1> HIDE DEF kept
<1>8. kept[0] = << >> /\ \A k \in 1 .. n : kept[k] = Turn(kept[k - 1], k)
  <2> HIDE DEF Turn
  <2>1. \A k \in 0 .. n : kept[k] = IF k = 0 THEN << >> ELSE Turn(kept[k - 1], k)
    BY <1>6
  <2> QED
    BY <1>1, <2>1
<1> DEFINE R == {k \in 0 .. n : /\ kept[k] \in Q
                                /\ Members(kept[k]) = {list[i] : i \in 1 .. k} \cap S
                                /\ \A o : Once(list, o) => Once(kept[k], o)}
           id == [k \in 0 .. n |-> k]
<1>9. \A k \in 0 .. n : id[k] \in R
  <2>1. id[0] \in R
    <3>1. id[0] = 0 /\ kept[0] = << >> /\ 0 \in 0 .. n
      BY <1>1, <1>8
    <3>2. Members(<< >>) = {} /\ {list[i] : i \in 1 .. 0} = {} /\ << >> \in Q /\ \A o : Once(<< >>, o)
      BY DEF Members, Once
    <3> QED
      BY <3>1, <3>2
  <2>2. ASSUME NEW k \in 1 .. n, id[k - 1] \in R
        PROVE  id[k] \in R
    <3>1. k - 1 \in 0 .. n /\ k \in 0 .. n /\ k - 1 \in R /\ id[k] = k
      BY <1>1, <2>2
    <3>2. /\ kept[k - 1] \in Q /\ Members(kept[k - 1]) = {list[i] : i \in 1 .. k - 1} \cap S
          /\ \A o : Once(list, o) => Once(kept[k - 1], o)
      BY <3>1
    <3>3. {list[i] : i \in 1 .. k} = {list[i] : i \in 1 .. k - 1} \union {list[k]}
      BY <1>1
    <3>4. /\ kept[k] \in Q /\ Members(kept[k]) = {list[i] : i \in 1 .. k} \cap S
          /\ \A o : Once(list, o) => Once(kept[k], o)
      <4>1. CASE list[k] \in S
        <5>1. kept[k] = Append(kept[k - 1], list[k]) /\ list[k] \in A \cap S
          BY <1>1, <1>8, <4>1
        <5>2. Once(list, list[k]) => list[k] \notin Members(kept[k - 1])
          BY <1>1, <3>2 DEF Once
        <5> HIDE DEF n
        <5> DEFINE q == kept[k - 1]
                   x == list[k]
        <5>0. q \in Seq(A \cap S) /\ x \in A \cap S
          BY <3>2, <5>1
        <5> HIDE DEF q, x, Q
        <5>3. Members(Append(q, x)) = Members(q) \union {x} /\ Append(q, x) \in Seq(A \cap S)
          BY <5>0, AppendIs
        <5>4. \A o : Once(q, o) /\ (x = o => x \notin Members(q)) => Once(Append(q, x), o)
          BY <5>0, AppendOnce
        <5> USE DEF q, x, Q
        <5> QED
          BY <3>2, <3>3, <4>1, <5>1, <5>2, <5>3, <5>4
      <4>2. CASE list[k] \notin S
        BY <1>8, <3>2, <3>3, <4>2
      <4> QED
        BY <4>1, <4>2
    <3> QED
      BY <3>1, <3>4
  <2> HIDE DEF R, id
  <2> QED
    BY <1>1, <2>1, <2>2, LoopInvariant
<1>10. n \in R
  <2>1. n \in 0 .. n /\ id[n] = n
    BY <1>1
  <2> HIDE DEF R, id, n
  <2> QED
    BY <1>9, <2>1
<1>11. {list[i] : i \in 1 .. n} = Members(list)
  BY <1>1 DEF Members
<1>12. Distinct(list) => Distinct(kept[n])
  BY <1>10, AllOnce
<1> QED
  BY <1>7, <1>10, <1>11, <1>12

(* RemoveFirst(q, x) is q, or q without one place that had x.              *)
LEMMA LeastPlace ==
    ASSUME NEW A, NEW q \in Seq(A), NEW x, \E j \in 1 .. Len(q) : q[j] = x
    PROVE  \E j \in 1 .. Len(q) : q[j] = x /\ RemoveFirst(q, x) = RemoveAt(q, j)
<1> DEFINE I == {j \in 1 .. Len(q) : q[j] = x}
<1>1. RemoveFirst(q, x) = RemoveAt(q, Min(I))
  BY Zenon DEF RemoveFirst, SelectInSeq
<1>2. I \subseteq Nat /\ I # {} /\ \A j \in I : j \in 1 .. Len(q) /\ q[j] = x
  OBVIOUS
<1> HIDE DEF I
<1>3. \E j \in I : \A k \in I : j <= k
  BY <1>2, Least
<1>4. Min(I) \in I
  BY <1>3 DEF Min
<1> QED
  BY <1>1, <1>2, <1>4

LEMMA RemoveAtIs ==
    ASSUME NEW A, NEW q \in Seq(A), NEW j \in 1 .. Len(q)
    PROVE  /\ RemoveAt(q, j) \in Seq(A) /\ Len(RemoveAt(q, j)) = Len(q) - 1
           /\ \A i \in 1 .. Len(q) - 1 : RemoveAt(q, j)[i] = IF i < j THEN q[i] ELSE q[i + 1]
<1>1. PICK a \in Nat, b \in Nat : a = j - 1 /\ b = Len(q) /\ a < b
  <2>1. j - 1 \in Nat /\ Len(q) \in Nat /\ j - 1 < Len(q)
    OBVIOUS
  <2> QED
    BY <2>1
<1> DEFINE s == SubSeq(q, 1, a)
           t == SubSeq(q, a + 2, b)
<1>2. s \in Seq(A)
  BY <1>1
<1>3. Len(s) = a /\ \A i \in 1 .. a : s[i] = q[i]
  BY <1>1
<1>4. t \in Seq(A)
  BY <1>1
<1>5. Len(t) = b - a - 1
  BY <1>1
<1>6. \A i \in 1 .. b - a - 1 : t[i] = q[a + 1 + i]
  BY <1>1
<1>7. RemoveAt(q, j) = s \o t
  <2>1. j - 1 = a /\ j + 1 = a + 2
    BY <1>1
  <2> QED
    BY <1>1, <2>1 DEF RemoveAt
<1> HIDE DEF s, t
<1>8. s \o t \in Seq(A) /\ Len(s \o t) = b - 1
  <2>1. s \o t \in Seq(A) /\ Len(s \o t) = Len(s) + Len(t)
    BY <1>2, <1>4
  <2>2. Len(s) = a
    BY <1>3
  <2> QED
    BY <1>1, <1>5, <2>1, <2>2
<1>9. \A i \in 1 .. b - 1 : (s \o t)[i] = IF i <= a THEN s[i] ELSE t[i - a]
  <2>1. \A i \in 1 .. Len(s) + Len(t) :
           (s \o t)[i] = IF i <= Len(s) THEN s[i] ELSE t[i - Len(s)]
    BY <1>2, <1>4
  <2>2. Len(s) = a
    BY <1>3
  <2>3. Len(s) + Len(t) = b - 1
    BY <1>1, <1>5, <2>2
  <2> QED
    BY <2>1, <2>2, <2>3
<1>10. ASSUME NEW i \in 1 .. b - 1
       PROVE  (s \o t)[i] = IF i < j THEN q[i] ELSE q[i + 1]
  <2>1. CASE i <= a
    <3>1. i \in 1 .. a /\ i < j
      BY <1>1, <2>1
    <3> QED
      BY <1>3, <1>9, <2>1, <3>1
  <2>2. CASE ~ (i <= a)
    <3>1. i - a \in 1 .. b - a - 1 /\ ~ (i < j) /\ a + 1 + (i - a) = i + 1
      BY <1>1, <2>2
    <3> QED
      BY <1>6, <1>9, <2>2, <3>1
  <2> QED
    BY <2>1, <2>2
<1> QED
  BY <1>1, <1>7, <1>8, <1>10

LEMMA RemoveFirstIs ==
    ASSUME NEW A, NEW q \in Seq(A), NEW x
    PROVE  /\ RemoveFirst(q, x) \in Seq(A)
           /\ Members(RemoveFirst(q, x)) \subseteq Members(q)
           /\ Members(q) \ {x} \subseteq Members(RemoveFirst(q, x))
           /\ Distinct(q) => Distinct(RemoveFirst(q, x)) /\ x \notin Members(RemoveFirst(q, x))
           /\ \A o : Once(q, o) => Once(RemoveFirst(q, x), o)
           /\ Once(q, x) => x \notin Members(RemoveFirst(q, x))
<1>1. CASE ~ \E j \in 1 .. Len(q) : q[j] = x
  <2>1. RemoveFirst(q, x) = q
    BY Zenon, <1>1 DEF RemoveFirst
  <2>2. x \notin Members(q)
    BY <1>1 DEF Members
  <2> QED
    BY <2>1, <2>2
<1>2. CASE \E j \in 1 .. Len(q) : q[j] = x
  <2>1. PICK j \in 1 .. Len(q) : q[j] = x /\ RemoveFirst(q, x) = RemoveAt(q, j)
    BY <1>2, LeastPlace
  <2> DEFINE p == RemoveFirst(q, x)
             n == Len(q)
  <2>2. /\ p \in Seq(A) /\ Len(p) = n - 1 /\ DOMAIN p = 1 .. n - 1 /\ n \in Nat
        /\ \A i \in 1 .. n - 1 : p[i] = IF i < j THEN q[i] ELSE q[i + 1]
    <3>1. p \in Seq(A) /\ Len(p) = n - 1
          /\ \A i \in 1 .. n - 1 : p[i] = IF i < j THEN q[i] ELSE q[i + 1]
      BY <2>1, RemoveAtIs
    <3> HIDE DEF p
    <3>2. DOMAIN p = 1 .. Len(p) /\ n \in Nat
      BY <3>1
    <3> QED
      BY <3>1, <3>2
  <2> HIDE DEF p, n
  <2>3. DOMAIN q = 1 .. n /\ j \in 1 .. n
    BY <2>1 DEF n
  <2>4. Members(p) \subseteq Members(q)
    <3> SUFFICES ASSUME NEW i \in 1 .. n - 1 PROVE p[i] \in Members(q)
      BY <2>2 DEF Members
    <3>1. i \in 1 .. n /\ i + 1 \in 1 .. n
      BY <2>2
    <3> QED
      BY <2>2, <2>3, <3>1 DEF Members
  <2>5. Members(q) \ {x} \subseteq Members(p)
    <3> SUFFICES ASSUME NEW i \in 1 .. n, q[i] # x PROVE q[i] \in Members(p)
      BY <2>3 DEF Members
    <3>1. CASE i < j
      <4>1. i \in 1 .. n - 1
        BY <2>2, <2>3, <3>1
      <4>2. p[i] = q[i]
        BY <2>2, <3>1, <4>1
      <4> QED
        BY <2>2, <4>1, <4>2 DEF Members
    <3>2. CASE ~ (i < j)
      <4>1. i # j
        BY <2>1
      <4>2. i - 1 \in 1 .. n - 1 /\ ~ (i - 1 < j) /\ (i - 1) + 1 = i
        BY <2>2, <2>3, <3>2, <4>1
      <4>3. p[i - 1] = q[i]
        BY <2>2, <4>2
      <4> QED
        BY <2>2, <4>2, <4>3 DEF Members
    <3> QED
      BY <3>1, <3>2
  <2> DEFINE at(i) == IF i < j THEN i ELSE i + 1
  <2>6. /\ \A i \in 1 .. n - 1 : p[i] = q[at(i)] /\ at(i) \in 1 .. n /\ at(i) # j
        /\ \A i, k \in 1 .. n - 1 : at(i) = at(k) => i = k
    BY <2>2, <2>3
  <2> HIDE DEF at
  <2>7. ASSUME NEW o, Once(q, o)
        PROVE  Once(p, o)
    BY <2>2, <2>3, <2>6, <2>7 DEF Once
  <2>8. ASSUME Once(q, x)
        PROVE  x \notin Members(p)
    <3>1. \A i \in 1 .. n - 1 : p[i] # x
      BY <2>1, <2>3, <2>6, <2>8 DEF Once
    <3> QED
      BY <2>2, <3>1 DEF Members
  <2>9. Distinct(q) => Distinct(p)
    BY <2>7, AllOnce
  <2> QED
    BY <2>2, <2>4, <2>5, <2>7, <2>8, <2>9, AllOnce DEF p
<1> QED
  BY <1>1, <1>2

-----------------------------------------------------------------------------
(* bind_device finds a GPU for every layer, the first one for layer 0.     *)
LEMMA BindIsGPU ==
    ASSUME NEW free \in Seq(Nat \ {0}), free # << >>, NEW l \in Layers
    PROVE  BindDevice(free, l) \in DOMAIN free /\ (l = 0 => BindDevice(free, l) = 1)
<1> DEFINE n == Len(free)
           turn == [k \in 1 .. n |-> [q \in Nat |-> q + free[k]]]
           upTo == CHOOSE f : f = [i \in 0 .. n |-> IF i = 0 THEN 0 ELSE f[i - 1] + free[i]]
           P(i) == /\ upTo[i] * NLayers > l * upTo[n]
                   /\ \A j \in 1 .. i - 1 : upTo[j] * NLayers <= l * upTo[n]
<1>1. n \in Nat \ {0} /\ DOMAIN free = 1 .. n /\ \A k \in 1 .. n : free[k] \in Nat \ {0}
  OBVIOUS
<1>2. NLayers \in Nat /\ l \in Nat /\ l < NLayers
  BY LayersAssumption DEF Layers
<1>3. PICK h : Runs(h, turn, n, 0, Nat)
  <2>1. Turns(turn, n, Nat)
    BY <1>1 DEF Turns
  <2> HIDE DEF turn, n
  <2> QED
    BY <1>1, <2>1, Loop
<1>4. upTo = [i \in 0 .. n |-> IF i = 0 THEN 0 ELSE upTo[i - 1] + free[i]]
  <2>1. \A i \in 0 .. n : h[i] = IF i = 0 THEN 0 ELSE h[i - 1] + free[i]
    <3> SUFFICES ASSUME NEW i \in 0 .. n PROVE h[i] = IF i = 0 THEN 0 ELSE h[i - 1] + free[i]
      OBVIOUS
    <3>1. i # 0 => i \in 1 .. n /\ i - 1 \in 0 .. n
      BY <1>1
    <3> HIDE DEF n
    <3> QED
      BY <1>3, <3>1 DEF Runs
  <2>2. h = [i \in 0 .. n |-> IF i = 0 THEN 0 ELSE h[i - 1] + free[i]]
    <3> HIDE DEF n
    <3> QED
      BY <1>3, <2>1 DEF Runs
  <2> QED
    BY <2>2
<1>5. BindDevice(free, l) = CHOOSE i \in DOMAIN free : P(i)
  BY Zenon DEF BindDevice
<1> HIDE DEF upTo, n
<1>6. upTo[0] = 0 /\ \A i \in 1 .. n : upTo[i] = upTo[i - 1] + free[i]
  <2>1. \A i \in 0 .. n : upTo[i] = IF i = 0 THEN 0 ELSE upTo[i - 1] + free[i]
    BY <1>4
  <2> QED
    BY <1>1, <2>1
<1>7. \A i \in 0 .. n : upTo[i] \in Nat
  <2>1. \A k \in 1 .. n : upTo[k - 1] \in Nat => upTo[k] \in Nat
    BY <1>1, <1>6
  <2>2. upTo[0] \in Nat /\ n \in Nat
    BY <1>1, <1>6
  <2> QED
    BY <2>1, <2>2, LoopInvariant
<1>8. upTo[n] \in Nat \ {0} /\ upTo[1] \in Nat \ {0}
  <2>1. \A i \in 1 .. n : upTo[i] \in Nat \ {0}
    <3> SUFFICES ASSUME NEW i \in 1 .. n PROVE upTo[i] \in Nat \ {0}
      OBVIOUS
    <3>1. i - 1 \in 0 .. n
      BY <1>1
    <3>2. upTo[i - 1] \in Nat /\ free[i] \in Nat \ {0} /\ upTo[i] = upTo[i - 1] + free[i]
      BY <1>1, <1>6, <1>7, <3>1
    <3> QED
      BY <3>2
  <2> QED
    BY <1>1, <2>1
<1>9. \E i \in 1 .. n : P(i)
  <2> DEFINE T == {i \in 1 .. n : upTo[i] * NLayers > l * upTo[n]}
  <2>1. upTo[n] * NLayers > l * upTo[n]
    <3>1. ASSUME NEW a \in Nat \ {0}, NEW b \in Nat, NEW c \in Nat, b < c
          PROVE  a * c > b * a
      <4>1. a * (c - b) > 0
        BY <3>1
      <4>2. a * (c - b) = a * c - b * a
        OBVIOUS
      <4> QED
        BY <4>1, <4>2
    <3> QED
      BY <1>2, <1>8, <3>1
  <2>2. T \subseteq Nat /\ n \in T
    BY <1>1, <2>1
  <2>3. PICK i \in T : \A j \in T : i <= j
    <3> HIDE DEF T
    <3> QED
      BY <2>2, Least
  <2>4. \A j \in 1 .. i - 1 : upTo[j] * NLayers <= l * upTo[n]
    <3> SUFFICES ASSUME NEW j \in 1 .. i - 1 PROVE upTo[j] * NLayers <= l * upTo[n]
      OBVIOUS
    <3>1. j \in 1 .. n /\ j \notin T
      BY <1>1, <2>3
    <3>2. \A a, b, c, d \in Nat : ~ (a * b > c * d) => a * b <= c * d
      OBVIOUS
    <3> QED
      BY <1>2, <1>7, <1>8, <3>1, <3>2
  <2> QED
    BY <2>3, <2>4
<1>10. P(CHOOSE i \in DOMAIN free : P(i)) /\ (CHOOSE i \in DOMAIN free : P(i)) \in DOMAIN free
  <2> HIDE DEF P
  <2> QED
    BY <1>1, <1>9
<1>11. ASSUME l = 0 PROVE \A i \in 1 .. n : P(i) => i = 1
  <2> SUFFICES ASSUME NEW i \in 1 .. n, P(i), i # 1 PROVE FALSE
    OBVIOUS
  <2>1. 1 \in 1 .. i - 1
    BY <1>1
  <2>2. upTo[1] * NLayers <= 0 * upTo[n]
    BY <1>11, <2>1
  <2>3. \A a, b, c \in Nat : a # 0 /\ b # 0 /\ a * b <= 0 * c => FALSE
    OBVIOUS
  <2> QED
    BY <1>2, <1>8, <2>2, <2>3, LayersAssumption
<1> QED
  <2> HIDE DEF P
  <2> QED
    BY <1>1, <1>5, <1>10, <1>11

-----------------------------------------------------------------------------
(* The graph of the model *)

PlainKinds ==
    {"norm1", "mul1", "qq", "qk", "qv", "mq", "mk", "mv", "rq", "rk", "rv",
     "nq", "uq", "nk", "uk", "sk", "sv", "gk", "gv", "cq", "pq", "pk", "att", "ra",
     "qo", "mo", "inp", "norm2", "mul2", "qu", "qg", "up", "gate", "act", "qd", "down", "res"}
MulKinds == {"mul1", "uq", "uk", "mul2", "mul3"}
MatmulKinds == {"mq", "mk", "mv", "mo", "up", "gate", "down", "out"}
NormKinds == {"norm1", "nq", "nk", "norm2", "norm3"}
QuantKinds == {"qq", "qk", "qv", "qo", "qu", "qg", "qd", "qout"}

LEMMA Kinds ==
    /\ DOMAIN OpOf = PlainKinds \union HeadKinds \union TailKinds \union {"weight"}
    /\ LayerKinds = PlainKinds
    /\ Weighted = MulKinds \union MatmulKinds
<1>1. DOMAIN OpOf = PlainKinds \union HeadKinds \union TailKinds \union {"weight"}
  BY DEF OpOf, PlainKinds, HeadKinds, TailKinds
<1>2. LayerKinds = PlainKinds
  BY <1>1 DEF LayerKinds, PlainKinds, HeadKinds, TailKinds
<1>3. Weighted = MulKinds \union MatmulKinds
  BY DEF Weighted, OpOf, MulKinds, MatmulKinds
<1> QED
  BY <1>1, <1>2, <1>3

LEMMA OpsOf ==
    ASSUME NEW k \in DOMAIN OpOf
    PROVE  /\ OpOf[k] = "MUL" <=> k \in MulKinds
           /\ OpOf[k] = "MATMUL" <=> k \in MatmulKinds
           /\ OpOf[k] = "RMS_NORM" <=> k \in NormKinds
           /\ OpOf[k] = "QUANTIZE" <=> k \in QuantKinds
           /\ OpOf[k] = "RESHAPE" <=> k \in {"rq", "rk", "rv", "ra"}
           /\ OpOf[k] = "ROPE" <=> k \in {"pq", "pk"}
           /\ OpOf[k] = "SET_ROWS" <=> k \in {"sk", "sv"}
           /\ OpOf[k] = "GET_ROWS" <=> k \in {"gk", "gv"}
           /\ OpOf[k] = "FLASH_ATTN" <=> k = "att"
           /\ OpOf[k] = "PRE_ROPE_TABLE" <=> k \in {"tableq", "tablek"}
           /\ OpOf[k] = "BINARY" <=> k \in {"inp", "res"}
           /\ OpOf[k] = "UNARY" <=> k = "act"
           /\ OpOf[k] = "MEM_REF" <=> k \in {"weight", "token", "logits"}
           /\ OpOf[k] \notin {"MEM_CPY", "MEM_RECYCLE"}
  BY DEF OpOf, MulKinds, MatmulKinds, NormKinds, QuantKinds

(* The nodes of the model by their shape; s is a setting.                  *)
IsPlain(n) == \E k, l : /\ n = <<k, l>>
                        /\ \/ k \in PlainKinds /\ l \in Layers
                           \/ k \in HeadKinds \union TailKinds /\ l = 0
IsWeight(n) == \E k, l : /\ n = <<"weight", k, l>> /\ l \in Layers
                         /\ k \in (MulKinds \union MatmulKinds) \union {"embed"}

LEMMA NodeShape ==
    ASSUME NEW n \in ModelNodes
    PROVE  /\ IsPlain(n) \/ IsWeight(n)
           /\ Kind(n) \in DOMAIN OpOf /\ Op(n) = OpOf[Kind(n)]
           /\ Kind(n) = "weight" <=> IsWeight(n)
<1>0. 0 \in Layers
  BY LayersAssumption DEF Layers
<1>1. IsPlain(n) \/ IsWeight(n)
  <2>1. CASE n \in {<<k, l>> : k \in LayerKinds, l \in Layers}
    BY <2>1, Kinds DEF IsPlain
  <2>2. CASE n \in {<<k, 0>> : k \in HeadKinds \union TailKinds}
    BY <2>2 DEF IsPlain
  <2>3. CASE n \in {<<"weight", k, l>> : k \in Weighted \ TailKinds, l \in Layers}
    BY <2>3, Kinds DEF IsWeight
  <2>4. CASE n \in {<<"weight", k, 0>> : k \in {"embed"} \union (Weighted \cap TailKinds)}
    BY <1>0, <2>4, Kinds DEF IsWeight
  <2> QED
    BY <2>1, <2>2, <2>3, <2>4 DEF ModelNodes
<1>2. IsPlain(n) => /\ Kind(n) \in PlainKinds \union HeadKinds \union TailKinds
                    /\ Kind(n) # "weight" /\ ~ IsWeight(n)
  BY DEF IsPlain, IsWeight, Kind, PlainKinds, HeadKinds, TailKinds
<1>3. IsWeight(n) => Kind(n) = "weight"
  BY DEF IsWeight, Kind
<1>4. Kind(n) \in DOMAIN OpOf
  BY <1>1, <1>2, <1>3, Kinds
<1>5. Kind(n) # "copy" /\ Kind(n) # "recycle"
  BY <1>4, Kinds DEF PlainKinds, HeadKinds, TailKinds
<1> QED
  BY <1>1, <1>2, <1>3, <1>4, <1>5 DEF Op

LEMMA PlainNode ==
    /\ \A k \in PlainKinds, l \in Layers : <<k, l>> \in ModelNodes
    /\ \A k \in HeadKinds \union TailKinds : <<k, 0>> \in ModelNodes
    /\ \A k \in MulKinds \union MatmulKinds, l \in Layers :
           k \notin TailKinds => <<"weight", k, l>> \in ModelNodes
    /\ \A k \in {"mul3", "out", "embed"} : <<"weight", k, 0>> \in ModelNodes
  BY Kinds DEF ModelNodes, MulKinds, MatmulKinds, TailKinds

(* The operand of a node is a node that is not a weight.                   *)
LEMMA OperandIn ==
    ASSUME NEW s, NEW k, NEW l \in Layers,
           k \in (PlainKinds \ {"att", "act", "res"}) \/ (k \in TailKinds /\ l = 0)
    PROVE  Operand(s, k, l) \in ModelNodes /\ IsPlain(Operand(s, k, l))
<1> DEFINE x == IF l = 0 THEN <<"embed", 0>> ELSE <<"res", l - 1>>
<1>1. x \in ModelNodes /\ IsPlain(x)
  <2>1. l # 0 => l - 1 \in Layers
    BY LayersAssumption DEF Layers
  <2> QED
    BY <2>1, PlainNode DEF PlainKinds, HeadKinds, IsPlain
<1>2. <<"res", NLayers - 1>> \in ModelNodes /\ IsPlain(<<"res", NLayers - 1>>)
  <2>1. NLayers - 1 \in Layers
    BY LayersAssumption DEF Layers
  <2> QED
    BY <2>1, PlainNode DEF PlainKinds, IsPlain
<1>3. \A j \in PlainKinds : <<j, l>> \in ModelNodes /\ IsPlain(<<j, l>>)
  BY PlainNode DEF IsPlain
<1>4. \A j \in TailKinds : <<j, 0>> \in ModelNodes /\ IsPlain(<<j, 0>>)
  BY PlainNode DEF IsPlain
<1> DEFINE In(n) == n \in ModelNodes /\ IsPlain(n)
<1> HIDE DEF x
<1>5. CASE k \in {"norm1", "inp", "norm3"}
  BY <1>1, <1>2, <1>5 DEF Operand, x
<1>6. CASE k \in PlainKinds \ {"att", "act", "res", "norm1", "inp"}
  BY <1>3, <1>6 DEF Operand, PlainKinds
<1>7. CASE k \in TailKinds \ {"norm3"} /\ l = 0
  BY <1>4, <1>7 DEF Operand, TailKinds
<1> QED
  BY <1>5, <1>6, <1>7 DEF PlainKinds, TailKinds

(* The inputs of a node are nodes of the model, and its operand is one.    *)
LEMMA InputsIn ==
    ASSUME NEW s, NEW n \in ModelNodes
    PROVE  ModelInputs(s, n) \in Seq(ModelNodes)
<1> DEFINE k == Kind(n)
           l == n[2]
<1>1. CASE IsWeight(n)
  <2>1. Kind(n) = "weight"
    BY <1>1, NodeShape
  <2>2. ModelInputs(s, n) = << >>
    BY <2>1, Kinds DEF ModelInputs, MulKinds, MatmulKinds
  <2> QED
    BY <2>2
<1>2. CASE IsPlain(n)
  <2>1. /\ n = <<k, l>> /\ l \in Layers
        /\ k \in PlainKinds \/ (k \in HeadKinds \union TailKinds /\ l = 0)
    BY <1>2, LayersAssumption DEF IsPlain, Kind, Layers
  <2> HIDE DEF k, l
  <2>2. \A j \in PlainKinds : <<j, l>> \in ModelNodes
    BY <2>1, PlainNode
  <2>3. CASE k \in HeadKinds
    BY <2>1, <2>3, PlainNode DEF ModelInputs, k, l, HeadKinds, Weighted, OpOf
  <2>4. CASE k \in Weighted
    <3>1. <<"weight", k, l>> \in ModelNodes
      BY <2>1, <2>4, Kinds, PlainNode DEF PlainKinds, HeadKinds, TailKinds, MulKinds, MatmulKinds
    <3>2. Operand(s, k, l) \in ModelNodes
      BY <2>1, <2>4, Kinds, OperandIn DEF PlainKinds, HeadKinds, TailKinds, MulKinds, MatmulKinds
    <3>3. ModelInputs(s, n) = <<Operand(s, k, l), <<"weight", k, l>>>>
      BY <2>4, Kinds DEF ModelInputs, k, l, MulKinds, MatmulKinds
    <3> QED
      BY <3>1, <3>2, <3>3
  <2>5. CASE k \in {"att", "act", "res"}
    <3>1. CASE k = "att"
      <4>1. ModelInputs(s, n) = (IF l = 0 /\ ~ s.decode THEN <<<<"mask", 0>>>> ELSE << >>)
                                \o <<<<"pq", l>>, <<"pk", l>>, <<"gv", l>>>>
        BY <3>1, Kinds DEF ModelInputs, k, l, MulKinds, MatmulKinds
      <4>2. <<<<"pq", l>>, <<"pk", l>>, <<"gv", l>>>> \in Seq(ModelNodes)
        BY <2>2 DEF PlainKinds
      <4>3. <<<<"mask", 0>>>> \in Seq(ModelNodes) /\ << >> \in Seq(ModelNodes)
        BY PlainNode DEF HeadKinds
      <4> QED
        BY <4>1, <4>2, <4>3
    <3>2. CASE k = "act"
      <4>1. ModelInputs(s, n) = <<<<"gate", l>>, <<"up", l>>>>
        BY <3>2, Kinds DEF ModelInputs, k, l, MulKinds, MatmulKinds
      <4> QED
        BY <2>2, <4>1 DEF PlainKinds
    <3>3. CASE k = "res"
      <4>1. ModelInputs(s, n) = <<<<"inp", l>>, <<"down", l>>>>
        BY <3>3, Kinds DEF ModelInputs, k, l, MulKinds, MatmulKinds
      <4> QED
        BY <2>2, <4>1 DEF PlainKinds
    <3> QED
      BY <2>5, <3>1, <3>2, <3>3
  <2>6. CASE /\ k \notin HeadKinds /\ k \notin Weighted /\ k \notin {"att", "act", "res"}
    <3>1. Operand(s, k, l) \in ModelNodes
      BY <2>1, <2>6, OperandIn
    <3>2. ModelInputs(s, n) \in
            {<<<<"tableq", 0>>, Operand(s, k, l)>>, <<<<"tablek", 0>>, Operand(s, k, l)>>,
             <<<<"mo", l>>, Operand(s, k, l)>>, <<Operand(s, k, l)>>}
      BY <2>1, <2>6 DEF ModelInputs, k, l, HeadKinds, TailKinds, PlainKinds
    <3>3. /\ <<"tableq", 0>> \in ModelNodes /\ <<"tablek", 0>> \in ModelNodes
          /\ <<"mo", l>> \in ModelNodes
      BY <2>2, PlainNode DEF PlainKinds, HeadKinds
    <3>4. \A a, b \in ModelNodes : <<a, b>> \in Seq(ModelNodes) /\ <<a>> \in Seq(ModelNodes)
      OBVIOUS
    <3> QED
      BY <3>1, <3>2, <3>3, <3>4
  <2> QED
    BY <2>3, <2>4, <2>5, <2>6
<1> QED
  BY <1>1, <1>2, NodeShape

(* Settings, and what TLC evaluates of them.                               *)
LEMMA SettingFree ==
    ASSUME NEW s \in Settings
    PROVE  /\ s.free \in Seq(Nat \ {0}) /\ s.free # << >>
           /\ s.quant \in BOOLEAN /\ s.fp16 \in BOOLEAN /\ s.decode \in BOOLEAN
  BY FreesAssumption DEF Settings

(* The tensors of the model, and the names of parameters.                  *)
ModelTensors == ModelNodes \union {Table}
Names == {"x", "weight", "token", "in", "table", "q", "k", "v", "mask", "x1", "x2"}

LEMMA TensorIn ==
    ASSUME NEW s, NEW n \in ModelNodes
    PROVE  TensorOf(s, n) \in ModelTensors
<1>1. CASE Op(n) = "RESHAPE"
  <2>1. Kind(n) \in {"rq", "rk", "rv", "ra"}
    BY <1>1, NodeShape, OpsOf
  <2>2. Kind(n) # "weight" /\ IsPlain(n)
    BY <2>1, NodeShape
  <2>3. n[2] \in Layers /\ Kind(n) \in PlainKinds \ {"att", "act", "res"}
    BY <2>1, <2>2 DEF IsPlain, Kind, PlainKinds, HeadKinds, TailKinds
  <2>4. Operand(s, Kind(n), n[2]) \in ModelNodes
    BY <2>3, OperandIn
  <2> QED
    BY <1>1, <2>4 DEF TensorOf, ModelTensors
<1>2. CASE Op(n) # "RESHAPE"
  BY <1>2 DEF TensorOf, ModelTensors
<1> QED
  BY <1>1, <1>2

(* What the parameters of a node may be, given the tensors there are.      *)
ParamsIn(X) == UNION {[P -> X] : P \in SUBSET Names}

LEMMA ParamsOf ==
    ASSUME NEW s, NEW n \in ModelNodes
    PROVE  ModelParams(s, n) \in ParamsIn(ModelTensors)
<1> DEFINE k == Kind(n)
           l == n[2]
           T(m) == TensorOf(s, m)
<1>1. ASSUME NEW f, NEW P \in SUBSET Names, f \in [P -> ModelTensors]
      PROVE  f \in ParamsIn(ModelTensors)
  BY <1>1 DEF ParamsIn
<1>2. CASE k \in {"weight", "token", "mask", "tableq", "tablek"}
  <2>1. ModelParams(s, n) = [p \in {} |-> n]
    BY <1>2, NodeShape, OpsOf, Kinds DEF ModelParams, MulKinds, MatmulKinds
  <2> QED
    BY <1>1, <2>1
<1>3. CASE k = "embed"
  <2>1. ModelParams(s, n) = [weight |-> <<"weight", "embed", 0>>, token |-> <<"token", 0>>]
    BY <1>3, NodeShape, OpsOf, Kinds DEF ModelParams, MulKinds, MatmulKinds
  <2>2. <<"weight", "embed", 0>> \in ModelTensors /\ <<"token", 0>> \in ModelTensors
    BY PlainNode DEF ModelTensors, HeadKinds
  <2>3. ModelParams(s, n) \in [{"weight", "token"} -> ModelTensors]
    BY <2>1, <2>2
  <2> QED
    BY <1>1, <2>3 DEF Names
<1>4. CASE k \notin {"weight", "token", "mask", "tableq", "tablek", "embed"}
  <2>1. /\ n = <<k, l>> /\ l \in Layers
        /\ k \in PlainKinds \/ (k \in TailKinds /\ l = 0)
    BY <1>4, NodeShape, LayersAssumption DEF IsPlain, Kind, Layers, HeadKinds
  <2>2. \A j \in PlainKinds : T(<<j, l>>) \in ModelTensors
    BY <2>1, PlainNode, TensorIn
  <2>3. k \notin {"att", "act", "res"} => T(Operand(s, k, l)) \in ModelTensors
    BY <2>1, OperandIn, TensorIn
  <2>4. k \in Weighted => <<"weight", k, l>> \in ModelTensors
    <3>1. k \in Weighted /\ k \in TailKinds => k \in {"mul3", "out"} /\ l = 0
      BY <2>1, Kinds DEF MulKinds, MatmulKinds, TailKinds, PlainKinds
    <3> QED
      BY <2>1, <3>1, Kinds, PlainNode DEF ModelTensors
  <2>5. <<"mask", 0>> \in ModelTensors /\ Table \in ModelTensors
    BY PlainNode DEF ModelTensors, HeadKinds
  <2>6. Op(n) = "ROPE" <=> k \in {"pq", "pk"}
    BY NodeShape, OpsOf
  <2> HIDE DEF T
  <2>7. CASE k \in Weighted
    <3>1. ModelParams(s, n) = [x |-> T(Operand(s, k, l)), weight |-> <<"weight", k, l>>]
      BY <2>6, <2>7, Kinds DEF ModelParams, MulKinds, MatmulKinds, k, l, T
    <3>2. ModelParams(s, n) \in [{"x", "weight"} -> ModelTensors]
      BY <2>3, <2>4, <2>7, <3>1, Kinds DEF MulKinds, MatmulKinds
    <3> QED
      BY <1>1, <3>2 DEF Names
  <2>8. CASE k \in {"pq", "pk"}
    <3>1. ModelParams(s, n) = [in |-> T(Operand(s, k, l)), table |-> Table]
      BY <2>6, <2>8, Kinds DEF ModelParams, MulKinds, MatmulKinds, k, l, T
    <3>2. ModelParams(s, n) \in [{"in", "table"} -> ModelTensors]
      BY <2>3, <2>5, <2>8, <3>1
    <3> QED
      BY <1>1, <3>2 DEF Names
  <2>9. CASE k = "att"
    <3>1. ModelParams(s, n) = [q |-> T(<<"pq", l>>), k |-> T(<<"pk", l>>),
                               v |-> T(<<"gv", l>>), mask |-> <<"mask", 0>>]
      BY <2>6, <2>9, Kinds DEF ModelParams, MulKinds, MatmulKinds, k, l, T
    <3>2. ModelParams(s, n) \in [{"q", "k", "v", "mask"} -> ModelTensors]
      BY <2>2, <2>5, <3>1 DEF PlainKinds
    <3> QED
      BY <1>1, <3>2 DEF Names
  <2>10. CASE k \in {"inp", "act", "res"}
    <3>1. k = "inp" => ModelParams(s, n) = [x1 |-> T(<<"mo", l>>), x2 |-> T(Operand(s, k, l))]
      BY <2>6, Kinds DEF ModelParams, MulKinds, MatmulKinds, k, l, T
    <3>2. k = "act" => ModelParams(s, n) = [x1 |-> T(<<"gate", l>>), x2 |-> T(<<"up", l>>)]
      BY <2>6, Kinds DEF ModelParams, MulKinds, MatmulKinds, k, l, T
    <3>3. k = "res" => ModelParams(s, n) = [x1 |-> T(<<"inp", l>>), x2 |-> T(<<"down", l>>)]
      BY <2>6, Kinds DEF ModelParams, MulKinds, MatmulKinds, k, l, T
    <3>4. ModelParams(s, n) \in [{"x1", "x2"} -> ModelTensors]
      BY <2>2, <2>3, <2>10, <3>1, <3>2, <3>3 DEF PlainKinds
    <3> QED
      BY <1>1, <3>4 DEF Names
  <2>11. CASE k \notin Weighted \union {"pq", "pk", "att", "inp", "act", "res"}
    <3>1. ModelParams(s, n) = [in |-> T(Operand(s, k, l))]
      BY <1>4, <2>6, <2>11, Kinds DEF ModelParams, k, l, T
    <3>2. ModelParams(s, n) \in [{"in"} -> ModelTensors]
      BY <2>3, <2>11, <3>1
    <3> QED
      BY <1>1, <3>2 DEF Names
  <2> QED
    BY <2>7, <2>8, <2>9, <2>10, <2>11
<1> QED
  BY <1>2, <1>3, <1>4

(* What the nodes around the attention of a layer read.                    *)
Turned(s, l) == IF s.fp16 THEN <<"cq", l>> ELSE <<"uq", l>>
Before(l) == IF l = 0 THEN <<"embed", 0>> ELSE <<"res", l - 1>>

LEMMA LayerInputs ==
    ASSUME NEW s, NEW l \in Layers
    PROVE  /\ ModelInputs(s, <<"res", l>>) = <<<<"inp", l>>, <<"down", l>>>>
           /\ ModelInputs(s, <<"inp", l>>) = <<<<"mo", l>>, Before(l)>>
           /\ ModelInputs(s, <<"mo", l>>) =
                  <<IF s.quant THEN <<"qo", l>> ELSE <<"ra", l>>, <<"weight", "mo", l>>>>
           /\ ModelInputs(s, <<"qo", l>>) = <<<<"ra", l>>>>
           /\ ModelInputs(s, <<"ra", l>>) = <<<<"att", l>>>>
           /\ ModelInputs(s, <<"att", l>>) =
                  (IF l = 0 /\ ~ s.decode THEN <<<<"mask", 0>>>> ELSE << >>)
                  \o <<<<"pq", l>>, <<"pk", l>>, <<"gv", l>>>>
           /\ ModelInputs(s, <<"gv", l>>) = <<<<"sv", l>>>>
           /\ ModelInputs(s, <<"sv", l>>) = <<<<"rv", l>>>>
           /\ ModelInputs(s, <<"pk", l>>) =
                  IF l = 0 THEN <<<<"tablek", 0>>, <<"gk", l>>>> ELSE <<<<"gk", l>>>>
           /\ ModelInputs(s, <<"pq", l>>) =
                  IF l = 0 THEN <<<<"tableq", 0>>, Turned(s, l)>> ELSE <<Turned(s, l)>>
           /\ ModelInputs(s, <<"gk", l>>) = <<<<"sk", l>>>>
           /\ ModelInputs(s, <<"sk", l>>) = <<<<"uk", l>>>>
           /\ ModelInputs(s, <<"cq", l>>) = <<<<"uq", l>>>>
           /\ ModelInputs(s, <<"uq", l>>) = <<<<"nq", l>>, <<"weight", "uq", l>>>>
           /\ ModelInputs(s, <<"nq", l>>) = <<<<"rq", l>>>>
<1> USE Kinds DEF Kind, MulKinds, MatmulKinds
<1>1. \A k \in {"res", "inp", "mo", "qo", "ra", "att", "gv", "sv", "pk", "pq", "gk", "sk",
                "cq", "uq", "nq"} : Kind(<<k, l>>) = k /\ <<k, l>>[2] = l
  OBVIOUS
<1>2. /\ Operand(s, "inp", l) = Before(l)
      /\ Operand(s, "mo", l) = IF s.quant THEN <<"qo", l>> ELSE <<"ra", l>>
      /\ Operand(s, "qo", l) = <<"ra", l>> /\ Operand(s, "ra", l) = <<"att", l>>
      /\ Operand(s, "gv", l) = <<"sv", l>> /\ Operand(s, "sv", l) = <<"rv", l>>
      /\ Operand(s, "pk", l) = <<"gk", l>> /\ Operand(s, "pq", l) = Turned(s, l)
      /\ Operand(s, "gk", l) = <<"sk", l>> /\ Operand(s, "sk", l) = <<"uk", l>>
      /\ Operand(s, "cq", l) = <<"uq", l>> /\ Operand(s, "uq", l) = <<"nq", l>>
      /\ Operand(s, "nq", l) = <<"rq", l>>
  BY DEF Operand, Before, Turned
<1>3. ModelInputs(s, <<"res", l>>) = <<<<"inp", l>>, <<"down", l>>>>
  BY DEF ModelInputs
<1>4. ModelInputs(s, <<"inp", l>>) = <<<<"mo", l>>, Before(l)>>
  BY <1>2 DEF ModelInputs
<1>5. \A k \in {"mo", "uq"} : ModelInputs(s, <<k, l>>) = <<Operand(s, k, l), <<"weight", k, l>>>>
  BY DEF ModelInputs
<1>6. \A k \in {"qo", "ra", "gv", "sv", "gk", "sk", "cq", "nq"} :
          ModelInputs(s, <<k, l>>) = <<Operand(s, k, l)>>
  BY DEF ModelInputs
<1>7. ModelInputs(s, <<"att", l>>) =
          (IF l = 0 /\ ~ s.decode THEN <<<<"mask", 0>>>> ELSE << >>)
          \o <<<<"pq", l>>, <<"pk", l>>, <<"gv", l>>>>
  BY DEF ModelInputs
<1>8. ModelInputs(s, <<"pq", l>>) =
          IF l = 0 THEN <<<<"tableq", 0>>, Turned(s, l)>> ELSE <<Turned(s, l)>>
  BY <1>2 DEF ModelInputs
<1>9. ModelInputs(s, <<"pk", l>>) =
          IF l = 0 THEN <<<<"tablek", 0>>, <<"gk", l>>>> ELSE <<<<"gk", l>>>>
  BY <1>2 DEF ModelInputs
<1> QED
  BY <1>2, <1>3, <1>4, <1>5, <1>6, <1>7, <1>8, <1>9

(* The tail of the model.                                                  *)
LEMMA TailInputs ==
    ASSUME NEW s
    PROVE  /\ ModelInputs(s, Logits) = <<<<"out", 0>>>>
           /\ ModelInputs(s, <<"out", 0>>) =
                  <<IF s.quant THEN <<"qout", 0>> ELSE <<"mul3", 0>>, <<"weight", "out", 0>>>>
           /\ ModelInputs(s, <<"qout", 0>>) = <<<<"mul3", 0>>>>
           /\ ModelInputs(s, <<"mul3", 0>>) = <<<<"norm3", 0>>, <<"weight", "mul3", 0>>>>
           /\ ModelInputs(s, <<"norm3", 0>>) = <<<<"res", NLayers - 1>>>>
           /\ ModelInputs(s, <<"tableq", 0>>) = << >> /\ ModelInputs(s, <<"tablek", 0>>) = << >>
  BY Kinds DEF ModelInputs, Operand, Kind, MulKinds, MatmulKinds, Logits

(* Whatever holds the logits, and with a node its inputs, holds these      *)
(* nodes of every layer.                                                   *)
LEMMA Reached ==
    ASSUME NEW s, NEW V, Logits \in V, \A n \in V : Members(ModelInputs(s, n)) \subseteq V
    PROVE  \A l \in Layers :
               /\ <<"res", l>> \in V /\ <<"att", l>> \in V /\ <<"sv", l>> \in V
               /\ <<"pq", l>> \in V
<1>0. NLayers - 1 \in Layers /\ \A l \in Layers : l \in Nat /\ (l # 0 => l - 1 \in Layers)
  BY LayersAssumption DEF Layers
<1>1. ASSUME NEW a, NEW n \in V, ModelInputs(s, n) = <<a>>
      PROVE  a \in V
  BY <1>1 DEF Members
<1>2. ASSUME NEW a, NEW b, NEW n \in V, ModelInputs(s, n) = <<a, b>>
      PROVE  a \in V /\ b \in V
  <2>1. a \in Members(<<a, b>>) /\ b \in Members(<<a, b>>)
    BY DEF Members
  <2> QED
    BY <1>2, <2>1
<1>3. <<"res", NLayers - 1>> \in V
  <2>1. <<"out", 0>> \in V
    BY <1>1, TailInputs
  <2>2. <<"mul3", 0>> \in V
    <3>1. (IF s.quant THEN <<"qout", 0>> ELSE <<"mul3", 0>>) \in V
      BY <1>2, <2>1, TailInputs
    <3> QED
      BY <1>1, <3>1, TailInputs
  <2>3. <<"norm3", 0>> \in V
    BY <1>2, <2>2, TailInputs
  <2> QED
    BY <1>1, <2>3, TailInputs
<1>4. ASSUME NEW l \in Layers, <<"res", l>> \in V
      PROVE  <<"inp", l>> \in V /\ Before(l) \in V
  <2>1. <<"inp", l>> \in V
    <3>1. ModelInputs(s, <<"res", l>>) = <<<<"inp", l>>, <<"down", l>>>>
      BY LayerInputs
    <3> QED
      BY <1>2, <1>4, <3>1
  <2>2. ModelInputs(s, <<"inp", l>>) = <<<<"mo", l>>, Before(l)>>
    BY LayerInputs
  <2> QED
    BY <1>2, <2>1, <2>2
<1>5. \A l \in Layers : <<"res", l>> \in V
  <2> DEFINE T == {j \in Nat : j < NLayers /\ <<"res", NLayers - 1 - j>> \notin V}
  <2>1. T = {}
    <3> SUFFICES ASSUME T # {} PROVE FALSE
      OBVIOUS
    <3>1. PICK j \in T : \A i \in T : j <= i
      <4>1. T \subseteq Nat
        OBVIOUS
      <4> HIDE DEF T
      <4> QED
        BY <4>1, Least
    <3>2. j \in Nat \ {0} /\ j < NLayers
      <4>1. j \in Nat /\ j < NLayers /\ <<"res", NLayers - 1 - j>> \notin V
        BY <3>1
      <4>2. j = 0 => NLayers - 1 - j = NLayers - 1
        BY LayersAssumption
      <4> QED
        BY <1>3, <4>1, <4>2
    <3>3. j - 1 \in Nat /\ j - 1 < NLayers /\ j - 1 \notin T
      BY <3>1, <3>2, LayersAssumption
    <3>4. NLayers - j \in Layers /\ NLayers - j # 0 /\ NLayers - 1 - (j - 1) = NLayers - j
      BY <3>2, LayersAssumption DEF Layers
    <3>5. <<"res", NLayers - j>> \in V
      BY <3>3, <3>4
    <3>6. Before(NLayers - j) \in V
      BY <1>4, <3>4, <3>5
    <3>7. Before(NLayers - j) = <<"res", NLayers - 1 - j>>
      <4>1. NLayers - j - 1 = NLayers - 1 - j
        BY <3>2, LayersAssumption
      <4> QED
        BY <3>4, <4>1 DEF Before
    <3> QED
      BY <3>1, <3>6, <3>7
  <2> SUFFICES ASSUME NEW l \in Layers PROVE <<"res", l>> \in V
    OBVIOUS
  <2>2. NLayers - 1 - l \in Nat /\ NLayers - 1 - l < NLayers /\ NLayers - 1 - (NLayers - 1 - l) = l
    BY LayersAssumption DEF Layers
  <2>3. NLayers - 1 - l \notin T
    BY <2>1
  <2> QED
    BY <2>2, <2>3
<1> SUFFICES ASSUME NEW l \in Layers
             PROVE  <<"att", l>> \in V /\ <<"sv", l>> \in V /\ <<"pq", l>> \in V
  BY <1>5
<1>6. <<"inp", l>> \in V
  BY <1>4, <1>5
<1>7. <<"mo", l>> \in V
  <2>1. ModelInputs(s, <<"inp", l>>) = <<<<"mo", l>>, Before(l)>>
    BY LayerInputs
  <2> QED
    BY <1>2, <1>6, <2>1
<1>8. <<"ra", l>> \in V
  <2>1. (IF s.quant THEN <<"qo", l>> ELSE <<"ra", l>>) \in V
    <3>1. ModelInputs(s, <<"mo", l>>) =
              <<IF s.quant THEN <<"qo", l>> ELSE <<"ra", l>>, <<"weight", "mo", l>>>>
      BY LayerInputs
    <3> QED
      BY <1>2, <1>7, <3>1
  <2> QED
    BY <1>1, <2>1, LayerInputs
<1>9. <<"att", l>> \in V
  BY <1>1, <1>8, LayerInputs
<1>10. <<"pq", l>> \in V /\ <<"gv", l>> \in V
  <2>1. /\ <<"pq", l>> \in Members(<<<<"pq", l>>, <<"pk", l>>, <<"gv", l>>>>)
        /\ <<"gv", l>> \in Members(<<<<"pq", l>>, <<"pk", l>>, <<"gv", l>>>>)
    BY DEF Members
  <2>2. /\ <<"pq", l>> \in Members(<<<<"mask", 0>>>> \o <<<<"pq", l>>, <<"pk", l>>, <<"gv", l>>>>)
        /\ <<"gv", l>> \in Members(<<<<"mask", 0>>>> \o <<<<"pq", l>>, <<"pk", l>>, <<"gv", l>>>>)
    BY DEF Members
  <2>3. << >> \o <<<<"pq", l>>, <<"pk", l>>, <<"gv", l>>>> = <<<<"pq", l>>, <<"pk", l>>, <<"gv", l>>>>
    OBVIOUS
  <2>4. \/ ModelInputs(s, <<"att", l>>) = <<<<"mask", 0>>>> \o <<<<"pq", l>>, <<"pk", l>>, <<"gv", l>>>>
        \/ ModelInputs(s, <<"att", l>>) = <<<<"pq", l>>, <<"pk", l>>, <<"gv", l>>>>
    BY <2>3, LayerInputs
  <2> QED
    BY <1>9, <2>1, <2>2, <2>4
<1> QED
  BY <1>1, <1>9, <1>10, LayerInputs

(* The nodes around the attention of a layer are on its GPU, as are the    *)
(* mask and the table, which the first layer reads.                        *)
ChainKinds == {"sk", "sv", "nq", "uq", "cq", "pq", "pk", "gk", "gv", "att"}

LEMMA ChainDevices ==
    ASSUME NEW s \in Settings, NEW l \in Layers
    PROVE  /\ \A k \in ChainKinds : ModelDevice(s, <<k, l>>) = BindDevice(s.free, l)
           /\ BindDevice(s.free, l) # CPU
           /\ l = 0 => /\ ModelDevice(s, <<"mask", 0>>) = BindDevice(s.free, l)
                       /\ ModelDevice(s, Table) = BindDevice(s.free, l)
<1>1. /\ BindDevice(s.free, l) \in DOMAIN s.free
      /\ l = 0 => BindDevice(s.free, l) = 1
  BY SettingFree, BindIsGPU
<1>2. BindDevice(s.free, l) # CPU
  BY <1>1, SettingFree DEF CPU
<1>3. ASSUME NEW k \in ChainKinds
      PROVE  ModelDevice(s, <<k, l>>) = BindDevice(s.free, l)
  <2>1. Kind(<<k, l>>) = k /\ <<k, l>>[2] = l /\ <<k, l>> # <<"weight", "embed", 0>>
    BY DEF Kind, ChainKinds
  <2> QED
    BY <2>1 DEF ModelDevice, ChainKinds
<1>4. ModelDevice(s, <<"mask", 0>>) = 1 /\ ModelDevice(s, Table) = 1
  BY DEF ModelDevice, Kind, Table
<1> QED
  BY <1>1, <1>2, <1>3, <1>4

(* Layers and devices of the model are numbers.                            *)
LEMMA Numbers ==
    ASSUME NEW s \in Settings
    PROVE  /\ \A n \in ModelNodes : ModelLayer(n) \in Int
           /\ \A t \in ModelTensors : ModelDevice(s, t) \in Int
<1>0. NLayers \in Nat /\ NLayers - 1 \in Layers /\ \A l \in Layers : l \in Int /\ l \in Nat
  BY LayersAssumption DEF Layers
<1>1. ASSUME NEW l \in Layers
      PROVE  BindDevice(s.free, l) \in Int
  BY SettingFree, BindIsGPU
<1>2. ASSUME NEW n \in ModelNodes
      PROVE  ModelLayer(n) \in Int /\ ModelDevice(s, n) \in Int
  <2>1. CASE IsWeight(n)
    <3>1. Kind(n) = "weight" /\ n[3] \in Layers
      BY <2>1, NodeShape DEF IsWeight
    <3> QED
      BY <1>0, <1>1, <3>1 DEF ModelLayer, ModelDevice, CPU
  <2>2. CASE ~ IsWeight(n)
    <3>1. Kind(n) # "weight" /\ n[2] \in Layers
      BY <2>2, NodeShape, LayersAssumption DEF IsPlain, Layers
    <3>2. n[2] # 0 => n[2] - 1 \in Layers
      BY <3>1, LayersAssumption DEF Layers
    <3>3. ModelLayer(n) \in Int
      BY <1>0, <3>1 DEF ModelLayer
    <3>4. ModelDevice(s, n) \in {CPU, 1} \union {BindDevice(s.free, l) : l \in Layers}
      BY <1>0, <3>1, <3>2 DEF ModelDevice
    <3> QED
      BY <1>1, <3>3, <3>4 DEF CPU
  <2> QED
    BY <2>1, <2>2
<1>3. ModelDevice(s, Table) \in Int
  BY DEF ModelDevice, Kind, Table
<1> QED
  BY <1>2, <1>3 DEF ModelTensors

-----------------------------------------------------------------------------
(* The nets *)

IsCopy(n) == Kind(n) = "copy"
AllNodes == ModelNodes \union {<<"copy", n, i>> : n, i \in ModelNodes}
                       \union {<<"recycle", n>> : n \in ModelNodes}
TensorsOf(D) == ModelTensors \union {c \in D : IsCopy(c)}

(* The nets whose nodes are those in D.                                    *)
NetsOn(D) ==
    [ins : [D -> Seq(D)], outs : [D -> Seq(D)], layer : [D -> Int],
     params : [D -> ParamsIn(TensorsOf(D))], known : [D -> ParamsIn(TensorsOf(D))],
     tensor : [D -> TensorsOf(D)], fused : SUBSET D, dev : [TensorsOf(D) -> Int]]
Domains == {D \in SUBSET AllNodes : ModelNodes \subseteq D}

LEMMA NoCopy ==
    /\ \A n \in ModelNodes : ~ IsCopy(n)
    /\ \A t \in ModelTensors : ~ IsCopy(t)
    /\ TensorsOf(ModelNodes) = ModelTensors /\ ModelNodes \in Domains
<1>1. \A n \in ModelNodes : ~ IsCopy(n)
  BY NodeShape, Kinds DEF IsCopy, PlainKinds, HeadKinds, TailKinds
<1>2. ~ IsCopy(Table)
  BY DEF IsCopy, Kind, Table
<1> QED
  BY <1>1, <1>2 DEF ModelTensors, TensorsOf, Domains, AllNodes

(* The parts of a net.                                                     *)
LEMMA NetParts ==
    ASSUME NEW D, NEW g \in NetsOn(D)
    PROVE  /\ g.ins \in [D -> Seq(D)] /\ g.outs \in [D -> Seq(D)] /\ g.layer \in [D -> Int]
           /\ g.params \in [D -> ParamsIn(TensorsOf(D))]
           /\ g.known \in [D -> ParamsIn(TensorsOf(D))]
           /\ g.tensor \in [D -> TensorsOf(D)] /\ g.fused \in SUBSET D
           /\ g.dev \in [TensorsOf(D) -> Int]
  BY DEF NetsOn

LEMMA ModelNetType ==
    ASSUME NEW s \in Settings
    PROVE  ModelNet(s) \in NetsOn(ModelNodes)
<1>1. [n \in ModelNodes |-> ModelInputs(s, n)] \in [ModelNodes -> Seq(ModelNodes)]
  BY InputsIn
<1>2. [n \in ModelNodes |-> << >>] \in [ModelNodes -> Seq(ModelNodes)]
  OBVIOUS
<1>3. [n \in ModelNodes |-> ModelLayer(n)] \in [ModelNodes -> Int]
  BY Numbers
<1>4. [n \in ModelNodes |-> ModelParams(s, n)] \in [ModelNodes -> ParamsIn(ModelTensors)]
  BY ParamsOf
<1>5. [n \in ModelNodes |-> TensorOf(s, n)] \in [ModelNodes -> ModelTensors]
  BY TensorIn
<1>6. [t \in ModelTensors |-> ModelDevice(s, t)] \in [ModelTensors -> Int]
  BY Numbers
<1> QED
  BY <1>1, <1>2, <1>3, <1>4, <1>5, <1>6, NoCopy DEF ModelNet, NetsOn, ModelTensors

-----------------------------------------------------------------------------
(* build_graph *)

Dom == DOMAIN net.ins
Lists3 == order \in Seq(Dom) /\ inner \in Seq(Dom) /\ walk \in Seq(Dom)

Seen(n) == uses[n] # -1
Open(n) == \E k \in DOMAIN stack : stack[k][1] = n

(* The i-th input of n has been visited, and has n in its output list.     *)
Passed(n, i) ==
    /\ i <= Len(net.ins[n]) /\ Seen(net.ins[n][i])
    /\ n \in Members(net.outs[net.ins[n][i]])

Calls ==
    /\ stack \in Seq(Dom \X (Nat \ {0})) /\ uses \in [Dom -> Nat \union {-1}]
    /\ \A j, k \in DOMAIN stack : stack[j][1] = stack[k][1] => j = k
    /\ \A n \in Members(order) : ~ Open(n)
    /\ \A n \in Dom : Seen(n) <=> n \in Members(order) \/ Open(n)
    /\ \A k \in DOMAIN stack : \A i \in 1 .. stack[k][2] - 1 : Passed(stack[k][1], i)
    /\ stack # << >> => stack[1][1] = Logits

ListsBuilt ==
    /\ Distinct(order) /\ Distinct(inner) /\ Members(inner) \subseteq Members(order)
    /\ \A n \in Members(order) : \A i \in Inputs(n) : Seen(i) /\ n \in Members(net.outs[i])

LogitsLast == order # << >> /\ order[Len(order)] = Logits

BuildOK ==
    pass \in {"create", "rebuild"} /\ phase # "idle" =>
        /\ Calls /\ ListsBuilt
        /\ phase = "visit" <=> stack # << >>
        /\ phase # "visit" => LogitsLast

(* The list of a graph that has been built has with a node its inputs.     *)
LEMMA BuiltClosed ==
    ASSUME Calls, ListsBuilt, LogitsLast, stack = << >>, Lists3, net \in NetsOn(Dom)
    PROVE  /\ Logits \in Members(order)
           /\ \A n \in Members(order) : Inputs(n) \subseteq Members(order)
           /\ \A n \in Members(order) : \A i \in Inputs(n) : n \in Members(net.outs[i])
<1>1. Logits \in Members(order)
  <2>1. Len(order) \in DOMAIN order
    BY DEF LogitsLast, Lists3
  <2> QED
    BY <2>1 DEF LogitsLast, Members
<1>2. \A n \in Dom : ~ Open(n)
  BY DEF Open
<1>3. ASSUME NEW n \in Members(order)
      PROVE  Inputs(n) \subseteq Dom
  <2>1. n \in Dom
    BY <1>3 DEF Members, Lists3
  <2>2. net.ins[n] \in Seq(Dom)
    BY <2>1 DEF NetsOn
  <2> QED
    BY <2>2 DEF Inputs, Members
<1> QED
  BY <1>1, <1>2, <1>3 DEF Calls, ListsBuilt

(* The call on top, and the input at which it stands.                      *)
LEMMA TopCall ==
    ASSUME Calls, net \in NetsOn(Dom), stack # << >>
    PROVE  /\ Len(stack) \in Nat \ {0} /\ DOMAIN stack = 1 .. Len(stack)
           /\ Top = stack[Len(stack)] /\ Top \in Dom \X (Nat \ {0})
           /\ Node \in Dom /\ Node = stack[Len(stack)][1]
           /\ net.ins[Node] \in Seq(Dom) /\ Len(net.ins[Node]) \in Nat
           /\ More => NextInput \in Dom /\ NextInput \in Inputs(Node)
<1>1. Len(stack) \in Nat \ {0} /\ stack[Len(stack)] \in Dom \X (Nat \ {0})
      /\ DOMAIN stack = 1 .. Len(stack)
  BY DEF Calls
<1>2. Node \in Dom /\ Top[2] \in Nat \ {0}
  BY <1>1 DEF Node, Top
<1>3. net.ins[Node] \in Seq(Dom)
  BY <1>2 DEF NetsOn
<1>4. ASSUME More PROVE NextInput \in Dom /\ NextInput \in Inputs(Node)
  <2>1. Top[2] \in DOMAIN net.ins[Node]
    BY <1>2, <1>3, <1>4 DEF More
  <2> QED
    BY <1>3, <2>1 DEF NextInput, Inputs, Members
<1> QED
  BY <1>1, <1>2, <1>3, <1>4 DEF Top, Node

(* The steps of build_graph change the output lists of the net, no more.   *)
OnlyOuts ==
    /\ Dom' = Dom /\ net' \in NetsOn(Dom)
    /\ net'.ins = net.ins /\ net'.layer = net.layer /\ net'.params = net.params
    /\ net'.known = net.known /\ net'.tensor = net.tensor /\ net'.fused = net.fused
    /\ net'.dev = net.dev

LEMMA NewOuts ==
    ASSUME net \in NetsOn(Dom), NEW f \in [Dom -> Seq(Dom)], net' = [net EXCEPT !.outs = f]
    PROVE  OnlyOuts /\ net'.outs = f
<1>1. /\ net'.ins = net.ins /\ net'.layer = net.layer /\ net'.params = net.params
      /\ net'.known = net.known /\ net'.tensor = net.tensor /\ net'.fused = net.fused
      /\ net'.dev = net.dev /\ net'.outs = f
  BY DEF NetsOn
<1>2. net' \in NetsOn(Dom)
  BY DEF NetsOn
<1> QED
  BY <1>1, <1>2 DEF OnlyOuts, Dom

LEMMA StartStep ==
    ASSUME net \in NetsOn(Dom), Dom \in Domains, walk \in Seq(Dom), Build
    PROVE  OnlyOuts /\ Lists3' /\ BuildOK' /\ pass' = pass /\ phase' = "visit"
           /\ \A n \in Dom :
                  net'.outs[n] = << >> \/ (net'.outs[n] = net.outs[n] /\ n \notin Members(order))
<1> DEFINE f == [n \in Dom |-> IF n \in Members(order) THEN << >> ELSE net.outs[n]]
<1>0. Logits \in Dom
  BY PlainNode DEF Domains, Logits, TailKinds
<1>1. f \in [Dom -> Seq(Dom)]
  BY DEF NetsOn
<1>2. net' = [net EXCEPT !.outs = f]
  <2>1. DOMAIN net.outs = Dom
    BY DEF NetsOn
  <2> QED
    BY <2>1 DEF Build, BuildGraph
<1> HIDE DEF f
<1>3. OnlyOuts /\ net'.outs = f
  BY <1>1, <1>2, NewOuts
<1> USE DEF f
<1>4. /\ order' = << >> /\ inner' = << >> /\ walk' = walk /\ stack' = <<<<Logits, 1>>>>
      /\ uses' = [m \in Dom |-> IF m = Logits THEN 0 ELSE -1] /\ phase' = "visit"
      /\ pass' = pass
  BY DEF Build, BuildGraph, optVars, Dom
<1>5. Lists3'
  BY <1>3, <1>4 DEF Lists3, OnlyOuts
<1>6. Calls'
  <2>1. /\ stack' \in Seq(Dom \X (Nat \ {0})) /\ DOMAIN stack' = {1} /\ Len(stack') = 1
        /\ stack'[1] = <<Logits, 1>> /\ stack'[1][1] = Logits /\ stack'[1][2] = 1
        /\ uses' \in [Dom -> Nat \union {-1}]
    BY <1>0, <1>4
  <2>2. \A n : Open(n)' <=> n = Logits
    BY <2>1 DEF Open
  <2>3. Members(order') = {}
    BY <1>4 DEF Members
  <2>4. \A n \in Dom : Seen(n)' <=> n = Logits
    BY <1>4 DEF Seen
  <2> QED
    BY <1>3, <2>1, <2>2, <2>3, <2>4 DEF Calls, OnlyOuts
<1>7. ListsBuilt'
  BY <1>4 DEF ListsBuilt, Distinct, Members
<1>8. stack' # << >>
  BY <1>4
<1>9. ASSUME NEW n \in Dom
      PROVE  net'.outs[n] = << >> \/ (net'.outs[n] = net.outs[n] /\ n \notin Members(order))
  <2>1. f[n] = << >> \/ (f[n] = net.outs[n] /\ n \notin Members(order))
    OBVIOUS
  <2> QED
    BY <1>3, <2>1
<1> QED
  BY <1>3, <1>4, <1>5, <1>6, <1>7, <1>8, <1>9 DEF BuildOK

LEMMA DescendStep ==
    ASSUME net \in NetsOn(Dom), Lists3, Calls, ListsBuilt, stack # << >>, Descend, UNCHANGED optVars
    PROVE  UNCHANGED net /\ Lists3' /\ BuildOK' /\ pass' = pass /\ phase' = "visit"
<1> DEFINE m == NextInput
           n == Len(stack)
<1>1. /\ More /\ uses[m] = -1 /\ uses' = [uses EXCEPT ![m] = 0]
      /\ stack' = Append(stack, <<m, 1>>)
      /\ UNCHANGED <<net, order, inner, walk, pass, phase>> /\ phase = "visit"
  BY DEF Descend, optVars
<1>2. m \in Dom /\ m \in Inputs(Node) /\ n \in Nat \ {0} /\ DOMAIN stack = 1 .. n
  BY <1>1, TopCall
<1> HIDE DEF m
<1>3. /\ stack' \in Seq(Dom \X (Nat \ {0})) /\ DOMAIN stack' = 1 .. n + 1
      /\ stack'[n + 1] = <<m, 1>> /\ \A k \in 1 .. n : stack'[k] = stack[k]
  BY <1>1, <1>2 DEF Calls
<1>4. ~ Open(m) /\ m \notin Members(order)
  BY <1>1, <1>2 DEF Calls, Seen
<1>5. \A x : Open(x)' <=> Open(x) \/ x = m
  <2>1. \A x : Open(x)' <=> \E k \in 1 .. n + 1 : stack'[k][1] = x
    BY <1>3 DEF Open
  <2>2. \A x : Open(x) <=> \E k \in 1 .. n : stack[k][1] = x
    BY <1>2 DEF Open
  <2>3. stack'[n + 1][1] = m /\ \A k \in 1 .. n + 1 : k = n + 1 \/ k \in 1 .. n
    BY <1>2, <1>3
  <2> QED
    BY <1>2, <1>3, <2>1, <2>2, <2>3
<1>6. \A x \in Dom : Seen(x)' <=> Seen(x) \/ x = m
  BY <1>1 DEF Calls, Seen
<1>7. Calls'
  <2>1. uses' \in [Dom' -> Nat \union {-1}] /\ stack' \in Seq(Dom' \X (Nat \ {0}))
    BY <1>1, <1>3 DEF Calls, Dom
  <2>2. \A j, k \in DOMAIN stack' : stack'[j][1] = stack'[k][1] => j = k
    <3> SUFFICES ASSUME NEW j \in 1 .. n + 1, NEW k \in 1 .. n + 1, stack'[j][1] = stack'[k][1]
                 PROVE  j = k
      BY <1>3
    <3>1. \A i \in 1 .. n : stack'[i][1] = stack[i][1] /\ stack[i][1] # m
      BY <1>2, <1>3, <1>4 DEF Open
    <3>2. stack'[n + 1][1] = m
      BY <1>3
    <3>3. CASE j = n + 1 \/ k = n + 1
      BY <1>2, <3>1, <3>2, <3>3
    <3>4. CASE j # n + 1 /\ k # n + 1
      <4>1. j \in 1 .. n /\ k \in 1 .. n /\ stack[j][1] = stack[k][1]
        BY <1>2, <3>1, <3>4
      <4> QED
        BY <1>2, <4>1 DEF Calls
    <3> QED
      BY <3>3, <3>4
  <2>3. \A x \in Members(order') : ~ Open(x)'
    BY <1>1, <1>4, <1>5 DEF Calls
  <2>4. \A x \in Dom' : Seen(x)' <=> x \in Members(order') \/ Open(x)'
    BY <1>1, <1>5, <1>6 DEF Calls, Dom
  <2>5. ASSUME NEW k \in DOMAIN stack', NEW i \in 1 .. stack'[k][2] - 1
        PROVE  (i <= Len(net'.ins[stack'[k][1]])) /\ uses'[net'.ins[stack'[k][1]][i]] # -1
               /\ stack'[k][1] \in Members(net'.outs[net'.ins[stack'[k][1]][i]])
    <3>1. k # n + 1 /\ k \in 1 .. n + 1
      BY <1>3, <2>5
    <3>2. k \in 1 .. n /\ stack'[k] = stack[k]
      BY <1>2, <1>3, <3>1
    <3>3. Passed(stack[k][1], i)
      BY <1>2, <2>5, <3>2 DEF Calls
    <3>4. stack[k][1] \in Dom /\ stack[k][2] \in Nat
      BY <1>2, <3>2 DEF Calls
    <3>5. net.ins[stack[k][1]][i] \in Dom
      <4>1. i \in Nat \ {0}
        BY <2>5, <3>2, <3>4
      <4>2. net.ins[stack[k][1]] \in Seq(Dom)
        BY <3>4 DEF NetsOn
      <4> QED
        BY <3>3, <4>1, <4>2 DEF Passed
    <3> QED
      BY <1>1, <1>6, <3>2, <3>3, <3>5 DEF Passed, Seen
  <2>6. stack'[1][1] = Logits
    BY <1>2, <1>3 DEF Calls
  <2> QED
    BY <2>1, <2>2, <2>3, <2>4, <2>5, <2>6 DEF Calls, Passed, Seen
<1>8. ListsBuilt'
  <2>1. \A x \in Members(order) : \A i \in Inputs(x) : i \in Dom
    <3> SUFFICES ASSUME NEW x \in Members(order), NEW i \in Inputs(x) PROVE i \in Dom
      OBVIOUS
    <3>1. x \in Dom
      BY DEF Members, Lists3
    <3> QED
      BY <3>1 DEF Inputs, Members, NetsOn
  <2> QED
    BY <1>1, <1>6, <2>1 DEF ListsBuilt, Inputs
<1>9. stack' # << >>
  BY <1>2, <1>3
<1> QED
  BY <1>1, <1>7, <1>8, <1>9 DEF BuildOK, Lists3, Dom

LEMMA UseStep ==
    ASSUME net \in NetsOn(Dom), Lists3, Calls, ListsBuilt, stack # << >>, UseInput, UNCHANGED optVars
    PROVE  /\ OnlyOuts /\ Lists3' /\ BuildOK' /\ pass' = pass /\ phase' = "visit"
           /\ \A n \in Dom : Members(net'.outs[n]) \subseteq
                  Members(net.outs[n]) \union {x \in Dom : n \in Inputs(x)}
<1> DEFINE m == NextInput
           n == Len(stack)
           f == [net.outs EXCEPT ![m] = Append(@, Node)]
<1>1. /\ More /\ uses[m] # -1 /\ uses' = [uses EXCEPT ![m] = @ + 1]
      /\ net' = [net EXCEPT !.outs[m] = Append(@, Node)]
      /\ stack' = [stack EXCEPT ![n][2] = @ + 1]
      /\ UNCHANGED <<order, inner, walk, pass, phase>> /\ phase = "visit"
  BY DEF UseInput, optVars
<1>2. /\ m \in Dom /\ m \in Inputs(Node) /\ n \in Nat \ {0} /\ DOMAIN stack = 1 .. n
      /\ Node \in Dom /\ Node = stack[n][1] /\ net.ins[Node] \in Seq(Dom)
      /\ stack[n] \in Dom \X (Nat \ {0}) /\ Top = stack[n]
      /\ stack[n][2] <= Len(net.ins[Node]) /\ m = net.ins[Node][stack[n][2]]
  BY <1>1, TopCall DEF More, NextInput
<1> HIDE DEF m, n
<1>3. /\ f \in [Dom -> Seq(Dom)]
      /\ \A x \in Dom : Members(net.outs[x]) \subseteq Members(f[x])
      /\ Node \in Members(f[m])
      /\ \A x \in Dom : Members(f[x]) \subseteq Members(net.outs[x]) \union {y \in Dom : x \in Inputs(y)}
  <2>1. net.outs \in [Dom -> Seq(Dom)]
    BY DEF NetsOn
  <2>2. f[m] = Append(net.outs[m], Node) /\ \A x \in Dom \ {m} : f[x] = net.outs[x]
    BY <1>2, <2>1
  <2>3. f[m] \in Seq(Dom) /\ Members(f[m]) = Members(net.outs[m]) \union {Node}
    <3>1. net.outs[m] \in Seq(Dom) /\ Node \in Dom
      BY <1>2, <2>1
    <3>2. /\ Append(net.outs[m], Node) \in Seq(Dom)
          /\ Members(Append(net.outs[m], Node)) = Members(net.outs[m]) \union {Node}
      BY <3>1, AppendIs
    <3> HIDE DEF f
    <3> QED
      BY <2>2, <3>2
  <2>4. f \in [Dom -> Seq(Dom)]
    BY <2>1, <2>2, <2>3
  <2> HIDE DEF f
  <2> QED
    BY <1>2, <2>2, <2>3, <2>4
<1>4. OnlyOuts /\ net'.outs = f
  <2>1. net' = [net EXCEPT !.outs = f]
    BY <1>1 DEF NetsOn
  <2> HIDE DEF f
  <2> QED
    BY <1>3, <2>1, NewOuts
<1> HIDE DEF f
<1>5. /\ stack' \in Seq(Dom \X (Nat \ {0})) /\ DOMAIN stack' = 1 .. n
      /\ \A k \in 1 .. n : stack'[k][1] = stack[k][1]
      /\ \A k \in 1 .. n - 1 : stack'[k] = stack[k]
      /\ stack'[n][2] = stack[n][2] + 1
  <2>0. \A k \in 1 .. n : stack[k] \in Dom \X (Nat \ {0})
    BY <1>2 DEF Calls
  <2>1. stack'[n] = [stack[n] EXCEPT ![2] = @ + 1] /\ DOMAIN stack' = 1 .. n
        /\ \A k \in 1 .. n - 1 : stack'[k] = stack[k]
    <3>1. stack' = [stack EXCEPT ![n] = [stack[n] EXCEPT ![2] = @ + 1]]
      BY <1>1
    <3>2. n \in 1 .. n /\ \A k \in 1 .. n - 1 : k \in 1 .. n /\ k # n
      BY <1>2
    <3> QED
      BY <1>2, <3>1, <3>2
  <2>2. stack'[n] = <<Node, stack[n][2] + 1>>
    BY <1>2, <2>1
  <2>3. \A k \in 1 .. n : stack'[k] \in Dom \X (Nat \ {0})
    <3>1. <<Node, stack[n][2] + 1>> \in Dom \X (Nat \ {0})
      BY <1>2
    <3>2. \A k \in 1 .. n : k = n \/ k \in 1 .. n - 1
      BY <1>2
    <3> QED
      BY <2>0, <2>1, <2>2, <3>1, <3>2
  <2>4. stack' \in Seq(Dom \X (Nat \ {0}))
    <3>1. stack' = [k \in 1 .. n |-> stack'[k]]
      BY <1>1, <2>1
    <3>2. stack' \in [1 .. n -> Dom \X (Nat \ {0})]
      BY <2>3, <3>1
    <3>3. \A S : \A q \in [1 .. n -> S] : q \in Seq(S)
      BY <1>2
    <3> QED
      BY <3>2, <3>3
  <2> QED
    BY <1>2, <2>1, <2>2, <2>4
<1>6. \A x : Open(x)' <=> Open(x)
  BY <1>2, <1>5 DEF Open
<1>7. \A x \in Dom : Seen(x)' <=> Seen(x)
  <2>1. uses \in [Dom -> Nat \union {-1}] /\ uses[m] \in Nat
    BY <1>1, <1>2 DEF Calls
  <2>2. uses'[m] = uses[m] + 1 /\ \A x \in Dom \ {m} : uses'[x] = uses[x]
    BY <1>1, <1>2, <2>1
  <2> QED
    BY <1>2, <2>1, <2>2 DEF Seen
<1>8. ASSUME NEW x \in Dom, NEW i \in Nat \ {0}, Passed(x, i)
      PROVE  Passed(x, i)'
  <2>1. net.ins[x][i] \in Dom
    <3>1. net.ins[x] \in Seq(Dom)
      BY DEF NetsOn
    <3> QED
      BY <1>8, <3>1 DEF Passed
  <2>2. net'.ins = net.ins /\ Members(net.outs[net.ins[x][i]]) \subseteq Members(net'.outs[net.ins[x][i]])
    BY <1>3, <1>4, <2>1 DEF OnlyOuts
  <2>3. uses'[net.ins[x][i]] # -1
    BY <1>7, <1>8, <2>1 DEF Passed, Seen
  <2> QED
    BY <1>8, <2>2, <2>3 DEF Passed, Seen
<1>9. Calls'
  <2>1. uses' \in [Dom' -> Nat \union {-1}] /\ stack' \in Seq(Dom' \X (Nat \ {0}))
    <3>1. uses \in [Dom -> Nat \union {-1}] /\ uses[m] \in Nat
      BY <1>1, <1>2 DEF Calls
    <3>2. uses[m] + 1 \in Nat \union {-1} /\ uses' = [uses EXCEPT ![m] = uses[m] + 1]
      BY <1>1, <3>1
    <3>3. uses' \in [Dom -> Nat \union {-1}]
      BY <3>1, <3>2
    <3> QED
      BY <1>4, <1>5, <3>3 DEF OnlyOuts
  <2>2. \A j, k \in DOMAIN stack' : stack'[j][1] = stack'[k][1] => j = k
    BY <1>2, <1>5 DEF Calls
  <2>3. \A x \in Members(order') : ~ Open(x)'
    BY <1>1, <1>6 DEF Calls
  <2>4. \A x \in Dom' : Seen(x)' <=> x \in Members(order') \/ Open(x)'
    BY <1>1, <1>4, <1>6, <1>7 DEF Calls, OnlyOuts
  <2>5. ASSUME NEW k \in DOMAIN stack', NEW i \in 1 .. stack'[k][2] - 1
        PROVE  Passed(stack[k][1], i)'
    <3>1. k \in 1 .. n /\ stack[k][1] \in Dom /\ stack[k][2] \in Nat /\ stack'[k][1] = stack[k][1]
      BY <1>2, <1>5 DEF Calls
    <3>2. i \in Nat \ {0}
      BY <1>5, <3>1
    <3>3. CASE i \in 1 .. stack[k][2] - 1
      <4>1. Passed(stack[k][1], i)
        BY <1>2, <3>1, <3>3 DEF Calls
      <4>2. Passed(stack[k][1], i)'
        BY <1>8, <3>1, <3>2, <4>1
      <4> QED
        BY <1>4, <3>1, <4>2 DEF Passed, Seen, OnlyOuts
    <3>4. CASE i \notin 1 .. stack[k][2] - 1
      <4>1. k = n /\ i = stack[n][2]
        BY <1>2, <1>5, <3>1, <3>2, <3>4
      <4>2. net'.ins[Node][i] = m /\ net'.ins = net.ins /\ i <= Len(net.ins[Node])
        BY <1>2, <1>4, <4>1 DEF OnlyOuts
      <4>3. uses'[m] # -1 /\ Node \in Members(net'.outs[m])
        BY <1>1, <1>2, <1>3, <1>4, <1>7 DEF Seen
      <4>4. Node = stack'[k][1]
        BY <1>2, <3>1, <4>1
      <4> QED
        BY <4>2, <4>3, <4>4 DEF Passed, Seen
    <3> QED
      BY <3>3, <3>4
  <2>6. stack'[1][1] = Logits
    BY <1>2, <1>5 DEF Calls
  <2> QED
    BY <2>1, <2>2, <2>3, <2>4, <2>5, <2>6 DEF Calls
<1>10. ListsBuilt'
  <2>1. ASSUME NEW x \in Members(order), NEW i \in Inputs(x)
        PROVE  i \in Dom /\ Seen(i)' /\ x \in Members(net'.outs[i])
    <3>1. x \in Dom
      BY DEF Members, Lists3
    <3>2. i \in Dom
      BY <3>1 DEF Inputs, Members, NetsOn
    <3>3. Seen(i) /\ x \in Members(net.outs[i])
      BY DEF ListsBuilt
    <3> QED
      BY <1>3, <1>4, <1>7, <3>2, <3>3
  <2> QED
    BY <1>1, <1>4, <2>1 DEF ListsBuilt, Inputs, OnlyOuts, Seen
<1>11. stack' # << >>
  BY <1>2, <1>5
<1>12. Lists3'
  BY <1>1, <1>4 DEF Lists3, OnlyOuts
<1> QED
  BY <1>1, <1>3, <1>4, <1>9, <1>10, <1>11, <1>12 DEF BuildOK

LEMMA FrontIs ==
    ASSUME NEW A, NEW q \in Seq(A), Len(q) \in Nat \ {0}
    PROVE  LET p == SubSeq(q, 1, Len(q) - 1)
           IN  /\ p \in Seq(A) /\ DOMAIN p = 1 .. Len(q) - 1
               /\ \A k \in 1 .. Len(q) - 1 : p[k] = q[k]
               /\ p = << >> <=> Len(q) = 1
<1> DEFINE p == SubSeq(q, 1, Len(q) - 1)
<1>1. p \in Seq(A)
  OBVIOUS
<1>2. Len(p) = Len(q) - 1
  <2>1. PICK m \in Nat : m = Len(q) - 1
    OBVIOUS
  <2>2. Len(SubSeq(q, 1, m)) = m
    BY <2>1
  <2> QED
    BY <2>1, <2>2
<1>3. \A k \in 1 .. Len(q) - 1 : p[k] = q[k]
  OBVIOUS
<1>4. p = << >> <=> Len(p) = 0
  <2> HIDE DEF p
  <2> QED
    BY <1>1
<1> HIDE DEF p
<1>5. DOMAIN p = 1 .. Len(p)
  BY <1>1
<1>6. /\ p \in Seq(A) /\ DOMAIN p = 1 .. Len(q) - 1
      /\ \A k \in 1 .. Len(q) - 1 : p[k] = q[k]
      /\ p = << >> <=> Len(q) = 1
  BY <1>1, <1>2, <1>3, <1>4, <1>5
<1> QED
  BY <1>6 DEF p

LEMMA FinishStep ==
    ASSUME net \in NetsOn(Dom), Lists3, Calls, ListsBuilt, stack # << >>, Finish, UNCHANGED optVars
    PROVE  UNCHANGED net /\ Lists3' /\ BuildOK' /\ pass' = pass /\ phase' \in {"visit", "analyze"}
<1> DEFINE n == Len(stack)
<1>1. /\ ~ More /\ order' = Append(order, Node)
      /\ inner' = IF net.ins[Node] = << >> THEN inner ELSE Append(inner, Node)
      /\ stack' = SubSeq(stack, 1, n - 1)
      /\ phase' = IF stack' = << >> THEN "analyze" ELSE "visit"
      /\ UNCHANGED <<net, uses, walk, pass>> /\ phase = "visit"
  BY DEF Finish, optVars, Pop
<1>2. /\ n \in Nat \ {0} /\ DOMAIN stack = 1 .. n /\ Node \in Dom /\ Node = stack[n][1]
      /\ net.ins[Node] \in Seq(Dom) /\ stack[n] \in Dom \X (Nat \ {0}) /\ Top = stack[n]
      /\ Len(net.ins[Node]) < stack[n][2]
  BY <1>1, TopCall DEF More
<1>3. /\ stack' \in Seq(Dom \X (Nat \ {0})) /\ DOMAIN stack' = 1 .. n - 1
      /\ \A k \in 1 .. n - 1 : stack'[k] = stack[k]
      /\ stack' = << >> <=> n = 1
  <2>1. stack \in Seq(Dom \X (Nat \ {0})) /\ Len(stack) \in Nat \ {0}
    BY <1>2 DEF Calls
  <2>2. stack' = SubSeq(stack, 1, Len(stack) - 1)
    BY <1>1
  <2> QED
    BY <1>2, <2>1, <2>2, FrontIs
<1> HIDE DEF n
<1>4. Node \notin Members(order) /\ Open(Node)
  BY <1>2 DEF Calls, Open
<1>5. /\ order' \in Seq(Dom) /\ Members(order') = Members(order) \union {Node}
      /\ Len(order') = Len(order) + 1 /\ order'[Len(order')] = Node
      /\ \A p \in DOMAIN order : order'[p] = order[p] /\ DOMAIN order = 1 .. Len(order)
  BY <1>1, <1>2, AppendIs DEF Lists3
<1>6. Distinct(order)'
  <2>1. Distinct(Append(order, Node))
    BY <1>2, <1>4, AppendDistinct DEF Lists3, ListsBuilt
  <2> QED
    BY <1>1, <2>1 DEF Distinct
<1>7. inner' \in Seq(Dom) /\ Distinct(inner)' /\ Members(inner') \subseteq Members(order')
  <2>1. inner \in Seq(Dom) /\ Distinct(inner) /\ Members(inner) \subseteq Members(order)
    BY DEF Lists3, ListsBuilt
  <2>2. Distinct(Append(inner, Node)) /\ Append(inner, Node) \in Seq(Dom)
        /\ Members(Append(inner, Node)) = Members(inner) \union {Node}
    BY <1>2, <1>4, <2>1, AppendDistinct, AppendIs
  <2> QED
    BY <1>1, <1>5, <2>1, <2>2 DEF Distinct
<1>8. \A x : Open(x) <=> Open(x)' \/ x = Node
  <2>1. \A x : Open(x)' <=> \E k \in 1 .. n - 1 : stack'[k][1] = x
    BY <1>3 DEF Open
  <2>2. \A x : Open(x) <=> \E k \in 1 .. n : stack[k][1] = x
    BY <1>2 DEF Open
  <2>3. \A k \in 1 .. n : k = n \/ k \in 1 .. n - 1
    BY <1>2
  <2> QED
    BY <1>2, <1>3, <2>1, <2>2, <2>3
<1>9. \A x : Open(x)' => x # Node
  <2>1. \A k \in 1 .. n - 1 : stack[k][1] # Node
    BY <1>2 DEF Calls
  <2>2. \A x : Open(x)' => \E k \in 1 .. n - 1 : stack'[k][1] = x
    BY <1>3 DEF Open
  <2> QED
    BY <1>3, <2>1, <2>2
<1>10. Calls'
  <2>1. \A j, k \in DOMAIN stack' : stack'[j][1] = stack'[k][1] => j = k
    BY <1>2, <1>3 DEF Calls
  <2>2. \A x \in Members(order') : ~ Open(x)'
    BY <1>5, <1>8, <1>9 DEF Calls
  <2>3. \A x \in Dom : Seen(x)' <=> x \in Members(order') \/ Open(x)'
    BY <1>1, <1>4, <1>5, <1>8 DEF Calls, Seen
  <2>4. ASSUME NEW k \in DOMAIN stack', NEW i \in 1 .. stack'[k][2] - 1
        PROVE  Passed(stack[k][1], i)'
    <3>1. k \in 1 .. n /\ stack'[k] = stack[k]
      BY <1>2, <1>3
    <3>2. Passed(stack[k][1], i)
      BY <1>2, <3>1 DEF Calls
    <3> QED
      BY <1>1, <3>1, <3>2 DEF Passed, Seen
  <2>5. stack' # << >> => stack'[1][1] = Logits
    BY <1>2, <1>3 DEF Calls
  <2> QED
    BY <1>1, <1>3, <2>1, <2>2, <2>3, <2>4, <2>5 DEF Calls, Dom, Passed, Seen
<1>11. ListsBuilt'
  <2>1. ASSUME NEW i \in Inputs(Node)
        PROVE  Seen(i) /\ Node \in Members(net.outs[i])
    <3>1. PICK j \in DOMAIN net.ins[Node] : i = net.ins[Node][j]
      BY DEF Inputs, Members
    <3>2. j \in 1 .. stack[n][2] - 1
      BY <1>2, <3>1
    <3>3. Passed(Node, j)
      BY <1>2, <3>2 DEF Calls
    <3> QED
      BY <3>1, <3>3 DEF Passed
  <2>2. \A x \in Members(order') : \A i \in Inputs(x) : Seen(i) /\ x \in Members(net.outs[i])
    BY <1>5, <2>1 DEF ListsBuilt
  <2> QED
    BY <1>1, <1>6, <1>7, <2>2 DEF ListsBuilt, Inputs, Seen
<1>12. n = 1 => Node = Logits
  BY <1>2 DEF Calls
<1>13. Lists3'
  BY <1>1, <1>5, <1>7 DEF Lists3, Dom
<1>14. stack' = << >> => LogitsLast'
  <2>1. order' # << >>
    BY <1>5
  <2> QED
    BY <1>3, <1>5, <1>12, <2>1 DEF LogitsLast
<1> QED
  BY <1>1, <1>10, <1>11, <1>13, <1>14 DEF BuildOK

-----------------------------------------------------------------------------
(* What the nodes of the model read *)

MI(s, n) == Members(ModelInputs(s, n))

(* An input of a node of the model is of one of these forms.               *)
InputForm(s, n, i) ==
    LET k == Kind(n)
        l == n[2]
    IN  \/ k \in MulKinds \union MatmulKinds \union {"embed"} /\ i = <<"weight", k, l>>
        \/ k = "embed" /\ i = <<"token", 0>>
        \/ k \in PlainKinds \union TailKinds /\ k \notin {"att", "act", "res"}
           /\ i = Operand(s, k, l)
        \/ k = "pq" /\ l = 0 /\ i = <<"tableq", 0>>
        \/ k = "pk" /\ l = 0 /\ i = <<"tablek", 0>>
        \/ k = "att" /\ l = 0 /\ ~ s.decode /\ i = <<"mask", 0>>
        \/ k = "att" /\ i \in {<<"pq", l>>, <<"pk", l>>, <<"gv", l>>}
        \/ k = "inp" /\ i = <<"mo", l>>
        \/ k = "act" /\ i \in {<<"gate", l>>, <<"up", l>>}
        \/ k = "res" /\ i \in {<<"inp", l>>, <<"down", l>>}

(* A node is its kind and its layer, unless it is a weight.                *)
LEMMA PlainForm ==
    ASSUME NEW n \in ModelNodes, Kind(n) # "weight"
    PROVE  /\ n = <<Kind(n), n[2]>> /\ n[2] \in Layers
           /\ Kind(n) \in PlainKinds \/ (Kind(n) \in HeadKinds \union TailKinds /\ n[2] = 0)
  BY NodeShape, LayersAssumption DEF IsPlain, Kind, Layers

LEMMA MembersOf ==
    /\ Members(<< >>) = {}
    /\ \A a : Members(<<a>>) = {a}
    /\ \A a, b : Members(<<a, b>>) = {a, b}
    /\ \A a, b, c : Members(<<a, b, c>>) = {a, b, c}
    /\ \A a, b, c, d : Members(<<a, b, c, d>>) = {a, b, c, d}
<1>1. Members(<< >>) = {}
  BY DEF Members
<1>2. ASSUME NEW a PROVE Members(<<a>>) = {a}
  <2>1. DOMAIN <<a>> = {1}
    OBVIOUS
  <2> QED
    BY <2>1 DEF Members
<1>3. ASSUME NEW a, NEW b PROVE Members(<<a, b>>) = {a, b}
  <2>1. DOMAIN <<a, b>> = {1, 2}
    OBVIOUS
  <2> QED
    BY <2>1 DEF Members
<1>4. ASSUME NEW a, NEW b, NEW c PROVE Members(<<a, b, c>>) = {a, b, c}
  <2>1. DOMAIN <<a, b, c>> = {1, 2, 3}
    OBVIOUS
  <2> QED
    BY <2>1 DEF Members
<1>5. ASSUME NEW a, NEW b, NEW c, NEW d PROVE Members(<<a, b, c, d>>) = {a, b, c, d}
  <2>1. DOMAIN <<a, b, c, d>> = {1, 2, 3, 4}
    OBVIOUS
  <2> QED
    BY <2>1 DEF Members
<1> QED
  BY <1>1, <1>2, <1>3, <1>4, <1>5

LEMMA ConcatIs ==
    ASSUME NEW A, NEW p \in Seq(A), NEW q \in Seq(A)
    PROVE  \E m, n \in Nat : /\ DOMAIN p = 1 .. m /\ DOMAIN q = 1 .. n
                             /\ DOMAIN (p \o q) = 1 .. m + n
                             /\ \A i \in 1 .. m + n :
                                    (p \o q)[i] = IF i <= m THEN p[i] ELSE q[i - m]
<1>1. p \o q \in Seq(A)
  OBVIOUS
<1>2. PICK m \in Nat, n \in Nat : Len(p) = m /\ Len(q) = n
  OBVIOUS
<1>3. Len(p \o q) = m + n
  BY <1>2
<1>4. \A i \in 1 .. m + n : (p \o q)[i] = IF i <= m THEN p[i] ELSE q[i - m]
  BY <1>2
<1>5. DOMAIN p = 1 .. m /\ DOMAIN q = 1 .. n
  BY <1>2
<1> DEFINE t == p \o q
<1> HIDE DEF t
<1>6. DOMAIN t = 1 .. Len(t)
  BY <1>1 DEF t
<1>7. DOMAIN t = 1 .. m + n
  BY <1>3, <1>6 DEF t
<1> QED
  BY <1>4, <1>5, <1>7 DEF t

LEMMA ConcatMembers ==
    ASSUME NEW A, NEW p \in Seq(A), NEW q \in Seq(A)
    PROVE  /\ Members(p \o q) = Members(p) \union Members(q)
           /\ Distinct(p) /\ Distinct(q) /\ Members(p) \cap Members(q) = {} => Distinct(p \o q)
<1> DEFINE t == p \o q
<1>3. PICK m \in Nat, n \in Nat :
          /\ DOMAIN p = 1 .. m /\ DOMAIN q = 1 .. n /\ DOMAIN t = 1 .. m + n
          /\ \A i \in 1 .. m + n : t[i] = IF i <= m THEN p[i] ELSE q[i - m]
  BY ConcatIs
<1> HIDE DEF t
<1>4. \A i \in 1 .. m : i \in 1 .. m + n /\ t[i] = p[i]
  BY <1>3
<1>5. \A i \in 1 .. n : i + m \in 1 .. m + n /\ t[i + m] = q[i]
  <2> SUFFICES ASSUME NEW i \in 1 .. n PROVE i + m \in 1 .. m + n /\ t[i + m] = q[i]
    OBVIOUS
  <2>1. i + m \in 1 .. m + n /\ ~ (i + m <= m) /\ (i + m) - m = i
    OBVIOUS
  <2> QED
    BY <1>3, <2>1
<1>6. \A i \in 1 .. m + n : (i \in 1 .. m /\ t[i] = p[i]) \/ (i - m \in 1 .. n /\ t[i] = q[i - m])
  BY <1>3
<1>7. Members(t) = Members(p) \union Members(q)
  <2>1. Members(p) \subseteq Members(t)
    BY <1>3, <1>4 DEF Members
  <2>2. Members(q) \subseteq Members(t)
    BY <1>3, <1>5 DEF Members
  <2>3. Members(t) \subseteq Members(p) \union Members(q)
    BY <1>3, <1>6 DEF Members
  <2> QED
    BY <2>1, <2>2, <2>3
<1>8. ASSUME Distinct(p), Distinct(q), Members(p) \cap Members(q) = {}
      PROVE  Distinct(t)
  <2> SUFFICES ASSUME NEW i \in 1 .. m + n, NEW j \in 1 .. m + n, t[i] = t[j]
               PROVE  i = j
    BY <1>3 DEF Distinct
  <2>1. \A a \in 1 .. m, b \in 1 .. n : p[a] # q[b]
    BY <1>3, <1>8 DEF Members
  <2>2. CASE i \in 1 .. m /\ j \in 1 .. m
    BY <1>3, <1>4, <1>8, <2>2 DEF Distinct
  <2>3. CASE i \notin 1 .. m /\ j \notin 1 .. m
    <3>1. i - m \in 1 .. n /\ j - m \in 1 .. n /\ q[i - m] = q[j - m]
      BY <1>6, <2>3
    <3>2. i - m = j - m
      BY <1>3, <1>8, <3>1 DEF Distinct
    <3> QED
      BY <3>2
  <2>4. CASE i \in 1 .. m /\ j \notin 1 .. m
    <3>1. j - m \in 1 .. n /\ t[j] = q[j - m] /\ t[i] = p[i]
      BY <1>4, <1>6, <2>4
    <3> QED
      BY <2>1, <2>4, <3>1
  <2>5. CASE i \notin 1 .. m /\ j \in 1 .. m
    <3>1. i - m \in 1 .. n /\ t[i] = q[i - m] /\ t[j] = p[j]
      BY <1>4, <1>6, <2>5
    <3> QED
      BY <2>1, <2>5, <3>1
  <2> QED
    BY <2>2, <2>3, <2>4, <2>5
<1> QED
  BY <1>7, <1>8 DEF t

LEMMA DistinctOf ==
    /\ Distinct(<< >>) /\ \A a : Distinct(<<a>>)
    /\ \A a, b : a # b => Distinct(<<a, b>>)
    /\ \A a, b, c : a # b /\ a # c /\ b # c => Distinct(<<a, b, c>>)
<1>1. Distinct(<< >>) /\ \A a : Distinct(<<a>>)
  BY DEF Distinct
<1>2. ASSUME NEW a, NEW b, a # b PROVE Distinct(<<a, b>>)
  <2>1. DOMAIN <<a, b>> = {1, 2}
    OBVIOUS
  <2> QED
    BY <1>2, <2>1 DEF Distinct
<1>3. ASSUME NEW a, NEW b, NEW c, a # b, a # c, b # c PROVE Distinct(<<a, b, c>>)
  <2>1. DOMAIN <<a, b, c>> = {1, 2, 3}
    OBVIOUS
  <2> QED
    BY <1>3, <2>1 DEF Distinct
<1> QED
  BY <1>1, <1>2, <1>3

(* The list of a node, by its kind.                                        *)
LEMMA InputList ==
    ASSUME NEW s, NEW n \in ModelNodes
    PROVE  LET k == Kind(n)
               l == n[2]
               x == Operand(s, k, l)
           IN  /\ k \in {"weight", "token", "mask", "tableq", "tablek"} => ModelInputs(s, n) = << >>
               /\ k = "embed" => ModelInputs(s, n) = <<<<"weight", "embed", 0>>, <<"token", 0>>>>
               /\ k \in MulKinds \union MatmulKinds => ModelInputs(s, n) = <<x, <<"weight", k, l>>>>
               /\ k = "pq" => ModelInputs(s, n) = IF l = 0 THEN <<<<"tableq", 0>>, x>> ELSE <<x>>
               /\ k = "pk" => ModelInputs(s, n) = IF l = 0 THEN <<<<"tablek", 0>>, x>> ELSE <<x>>
               /\ k = "att" =>
                      /\ MI(s, n) = {<<"pq", l>>, <<"pk", l>>, <<"gv", l>>} \union
                                     (IF l = 0 /\ ~ s.decode THEN {<<"mask", 0>>} ELSE {})
                      /\ Distinct(ModelInputs(s, n))
               /\ k = "inp" => ModelInputs(s, n) = <<<<"mo", l>>, x>>
               /\ k = "act" => ModelInputs(s, n) = <<<<"gate", l>>, <<"up", l>>>>
               /\ k = "res" => ModelInputs(s, n) = <<<<"inp", l>>, <<"down", l>>>>
               /\ k \in (PlainKinds \union TailKinds) \ (MulKinds \union MatmulKinds \union
                            {"pq", "pk", "att", "inp", "act", "res"}) => ModelInputs(s, n) = <<x>>
<1> USE Kinds DEF MulKinds, MatmulKinds
<1> DEFINE k == Kind(n)
           l == n[2]
           x == Operand(s, k, l)
<1> HIDE DEF k
<1>1. k \in {"weight", "token", "mask", "tableq", "tablek"} => ModelInputs(s, n) = << >>
  BY DEF ModelInputs, k
<1>2. k = "embed" => ModelInputs(s, n) = <<<<"weight", "embed", 0>>, <<"token", 0>>>>
  BY DEF ModelInputs, k
<1>3. k \in MulKinds \union MatmulKinds => ModelInputs(s, n) = <<x, <<"weight", k, l>>>>
  BY DEF ModelInputs, k
<1>4. k = "pq" => ModelInputs(s, n) = IF l = 0 THEN <<<<"tableq", 0>>, x>> ELSE <<x>>
  BY DEF ModelInputs, k
<1>5. k = "pk" => ModelInputs(s, n) = IF l = 0 THEN <<<<"tablek", 0>>, x>> ELSE <<x>>
  BY DEF ModelInputs, k
<1>6. ASSUME k = "att"
      PROVE  /\ MI(s, n) = {<<"pq", l>>, <<"pk", l>>, <<"gv", l>>} \union
                            (IF l = 0 /\ ~ s.decode THEN {<<"mask", 0>>} ELSE {})
             /\ Distinct(ModelInputs(s, n))
  <2> DEFINE p == IF l = 0 /\ ~ s.decode THEN <<<<"mask", 0>>>> ELSE << >>
             q == <<<<"pq", l>>, <<"pk", l>>, <<"gv", l>>>>
             A == {<<"mask", 0>>, <<"pq", l>>, <<"pk", l>>, <<"gv", l>>}
  <2>1. ModelInputs(s, n) = p \o q
    BY <1>6 DEF ModelInputs, k
  <2>2. p \in Seq(A) /\ q \in Seq(A)
    OBVIOUS
  <2>3. Members(q) = {<<"pq", l>>, <<"pk", l>>, <<"gv", l>>} /\ Distinct(q)
    BY MembersOf, DistinctOf
  <2>4. Members(p) = (IF l = 0 /\ ~ s.decode THEN {<<"mask", 0>>} ELSE {}) /\ Distinct(p)
    BY MembersOf, DistinctOf
  <2>5. Members(p) \cap Members(q) = {}
    BY <2>3, <2>4
  <2>6. Members(p \o q) = Members(p) \union Members(q) /\ Distinct(p \o q)
    <3> HIDE DEF p, q, A
    <3> QED
      BY <2>2, <2>3, <2>4, <2>5, ConcatMembers
  <2> HIDE DEF p, q
  <2> QED
    BY <2>1, <2>3, <2>4, <2>6 DEF MI
<1>7. k = "inp" => ModelInputs(s, n) = <<<<"mo", l>>, x>>
  BY DEF ModelInputs, k
<1>8. k = "act" => ModelInputs(s, n) = <<<<"gate", l>>, <<"up", l>>>>
  BY DEF ModelInputs, k
<1>9. k = "res" => ModelInputs(s, n) = <<<<"inp", l>>, <<"down", l>>>>
  BY DEF ModelInputs, k
<1>10. k \in (PlainKinds \union TailKinds) \ (MulKinds \union MatmulKinds \union
           {"pq", "pk", "att", "inp", "act", "res"}) => ModelInputs(s, n) = <<x>>
  BY DEF ModelInputs, k, PlainKinds, TailKinds
<1> QED
  BY <1>1, <1>2, <1>3, <1>4, <1>5, <1>6, <1>7, <1>8, <1>9, <1>10 DEF k

LEMMA InputFormOf ==
    ASSUME NEW s, NEW n \in ModelNodes, NEW i \in MI(s, n)
    PROVE  InputForm(s, n, i) /\ i \in ModelNodes /\ Kind(n) # "weight"
<1> DEFINE k == Kind(n)
           l == n[2]
<1>1. i \in ModelNodes
  BY InputsIn DEF MI, Members
<1>2. k # "weight"
  BY InputList, MembersOf DEF MI
<1>3. k \in PlainKinds \/ (k \in HeadKinds \union TailKinds /\ l = 0)
  BY <1>2, PlainForm
<1> HIDE DEF k, l
<1>4. CASE k \in {"token", "mask", "tableq", "tablek"}
  BY <1>4, InputList, MembersOf DEF MI, k
<1>5. CASE k = "embed"
  <2>1. i \in {<<"weight", "embed", 0>>, <<"token", 0>>} /\ l = 0
    BY <1>3, <1>5, InputList, MembersOf DEF MI, k, PlainKinds
  <2> QED
    BY <1>1, <1>2, <1>5, <2>1 DEF InputForm, k, l
<1>6. CASE k \in MulKinds \union MatmulKinds
  <2>1. i \in {Operand(s, k, l), <<"weight", k, l>>}
    BY <1>6, InputList, MembersOf DEF MI, k, l
  <2>2. k \in PlainKinds \union TailKinds /\ k \notin {"att", "act", "res"}
    BY <1>6 DEF MulKinds, MatmulKinds, PlainKinds, TailKinds
  <2> QED
    BY <1>1, <1>2, <1>6, <2>1, <2>2 DEF InputForm, k, l
<1>7. CASE k \in {"pq", "pk", "inp"}
  <2>1. \/ i = Operand(s, k, l)
        \/ k = "pq" /\ l = 0 /\ i = <<"tableq", 0>>
        \/ k = "pk" /\ l = 0 /\ i = <<"tablek", 0>>
        \/ k = "inp" /\ i = <<"mo", l>>
    BY <1>7, InputList, MembersOf DEF MI, k, l
  <2>2. k \in PlainKinds /\ k \notin {"att", "act", "res"}
    BY <1>7 DEF PlainKinds
  <2> QED
    BY <1>1, <1>2, <2>1, <2>2 DEF InputForm, k, l
<1>8. CASE k = "att"
  <2>1. (l = 0 /\ ~ s.decode /\ i = <<"mask", 0>>) \/ i \in {<<"pq", l>>, <<"pk", l>>, <<"gv", l>>}
    BY <1>8, InputList, MembersOf DEF MI, k, l
  <2> QED
    BY <1>1, <1>2, <1>8, <2>1 DEF InputForm, k, l
<1>9. CASE k \in {"act", "res"}
  <2>1. \/ k = "act" /\ i \in {<<"gate", l>>, <<"up", l>>}
        \/ k = "res" /\ i \in {<<"inp", l>>, <<"down", l>>}
    BY <1>9, InputList, MembersOf DEF MI, k, l
  <2> QED
    BY <1>1, <1>2, <2>1 DEF InputForm, k, l
<1>10. CASE k \in (PlainKinds \union TailKinds) \ (MulKinds \union MatmulKinds \union
                     {"pq", "pk", "att", "inp", "act", "res"})
  <2>1. i = Operand(s, k, l)
    BY <1>10, InputList, MembersOf DEF MI, k, l
  <2> QED
    BY <1>1, <1>2, <1>10, <2>1 DEF InputForm, k, l
<1> QED
  BY <1>3, <1>4, <1>5, <1>6, <1>7, <1>8, <1>9, <1>10 DEF HeadKinds

(* The operand of a node, by the node's kind.                              *)
LEMMA OperandList ==
    ASSUME NEW s, NEW l
    PROVE  /\ Operand(s, "norm1", l) = Before(l) /\ Operand(s, "inp", l) = Before(l)
           /\ Operand(s, "norm2", l) = <<"inp", l>> /\ Operand(s, "norm3", l) = <<"res", NLayers - 1>>
           /\ Operand(s, "mul1", l) = <<"norm1", l>> /\ Operand(s, "mul2", l) = <<"norm2", l>>
           /\ Operand(s, "mul3", l) = <<"norm3", l>>
           /\ Operand(s, "uq", l) = <<"nq", l>> /\ Operand(s, "uk", l) = <<"nk", l>>
           /\ Operand(s, "nq", l) = <<"rq", l>> /\ Operand(s, "nk", l) = <<"rk", l>>
           /\ \A k \in {"qq", "qk", "qv"} : Operand(s, k, l) = <<"mul1", l>>
           /\ \A k \in {"qu", "qg"} : Operand(s, k, l) = <<"mul2", l>>
           /\ Operand(s, "qo", l) = <<"ra", l>> /\ Operand(s, "qd", l) = <<"act", l>>
           /\ Operand(s, "qout", l) = <<"mul3", l>>
           /\ Operand(s, "rq", l) = <<"mq", l>> /\ Operand(s, "rk", l) = <<"mk", l>>
           /\ Operand(s, "rv", l) = <<"mv", l>> /\ Operand(s, "ra", l) = <<"att", l>>
           /\ Operand(s, "sk", l) = <<"uk", l>> /\ Operand(s, "sv", l) = <<"rv", l>>
           /\ Operand(s, "gk", l) = <<"sk", l>> /\ Operand(s, "gv", l) = <<"sv", l>>
           /\ Operand(s, "cq", l) = <<"uq", l>> /\ Operand(s, "pq", l) = Turned(s, l)
           /\ Operand(s, "pk", l) = <<"gk", l>> /\ Operand(s, "logits", l) = <<"out", l>>
           /\ Operand(s, "mq", l) = IF s.quant THEN <<"qq", l>> ELSE <<"mul1", l>>
           /\ Operand(s, "mk", l) = IF s.quant THEN <<"qk", l>> ELSE <<"mul1", l>>
           /\ Operand(s, "mv", l) = IF s.quant THEN <<"qv", l>> ELSE <<"mul1", l>>
           /\ Operand(s, "mo", l) = IF s.quant THEN <<"qo", l>> ELSE <<"ra", l>>
           /\ Operand(s, "up", l) = IF s.quant THEN <<"qu", l>> ELSE <<"mul2", l>>
           /\ Operand(s, "gate", l) = IF s.quant THEN <<"qg", l>> ELSE <<"mul2", l>>
           /\ Operand(s, "down", l) = IF s.quant THEN <<"qd", l>> ELSE <<"act", l>>
           /\ Operand(s, "out", l) = IF s.quant THEN <<"qout", l>> ELSE <<"mul3", l>>
  BY DEF Operand, Before, Turned

(* Which product a norm is for, by the names of their kinds.               *)
MulOf(n) ==
    LET mul == [norm1 |-> "mul1", nq |-> "uq", nk |-> "uk", norm2 |-> "mul2", norm3 |-> "mul3"]
    IN  <<mul[Kind(n)], n[2]>>

(* Norms are read by their products, quantizations by matrix products.     *)
LEMMA OperandKind ==
    ASSUME NEW s, NEW k, NEW l \in Layers,
           k \in (PlainKinds \ {"att", "act", "res"}) \/ (k \in TailKinds /\ l = 0)
    PROVE  /\ k \in MulKinds => /\ Kind(Operand(s, k, l)) \in NormKinds
                                /\ MulOf(Operand(s, k, l)) = <<k, l>>
           /\ k \notin MulKinds => Kind(Operand(s, k, l)) \notin NormKinds
           /\ k \notin MatmulKinds => Kind(Operand(s, k, l)) \notin QuantKinds
           /\ k # "sv" /\ k \notin {"nq", "nk", "qo", "mo"} =>
                  Kind(Operand(s, k, l)) \notin {"rq", "rk", "rv", "ra"}
           /\ Kind(Operand(s, k, l)) \notin {"tableq", "tablek", "mask"}
<1>0. Kind(Before(l)) \in {"embed", "res"} /\ Kind(Turned(s, l)) \in {"cq", "uq"}
  BY DEF Before, Turned, Kind
<1>1. \A j, m : Kind(<<j, m>>) = j /\ <<j, m>>[2] = m
  BY DEF Kind
<1>2. CASE k \in MulKinds
  <2>1. Operand(s, k, l) \in {<<"norm1", l>>, <<"nq", l>>, <<"nk", l>>, <<"norm2", l>>, <<"norm3", l>>}
    BY <1>2, OperandList DEF MulKinds
  <2>2. MulOf(Operand(s, k, l)) = <<k, l>>
    BY <1>1, <1>2, OperandList DEF MulKinds, MulOf
  <2> QED
    BY <1>1, <1>2, <2>1, <2>2 DEF NormKinds, QuantKinds, MulKinds, MatmulKinds
<1>3. CASE k \in MatmulKinds
  BY <1>1, <1>3, OperandList DEF MatmulKinds, MulKinds, NormKinds
<1>4. CASE k \in QuantKinds \union {"rq", "rk", "rv", "ra", "sk", "sv", "gk", "gv", "cq", "logits"}
  BY <1>1, <1>4, OperandList DEF QuantKinds, MatmulKinds, MulKinds, NormKinds
<1>5. CASE k \in NormKinds \union {"inp", "pq", "pk"}
  BY <1>0, <1>1, <1>5, OperandList DEF QuantKinds, MatmulKinds, MulKinds, NormKinds
<1> QED
  BY <1>2, <1>3, <1>4, <1>5
     DEF PlainKinds, TailKinds, MulKinds, MatmulKinds, NormKinds, QuantKinds

(* The parameters of a node, by its kind.                                  *)
LEMMA ParamList ==
    ASSUME NEW s, NEW n \in ModelNodes
    PROVE  LET k == Kind(n)
               l == n[2]
               x == TensorOf(s, Operand(s, k, l))
               Of(j) == TensorOf(s, <<j, l>>)
           IN  /\ k \in {"weight", "token", "mask", "tableq", "tablek"} => DOMAIN ModelParams(s, n) = {}
               /\ k = "embed" => ModelParams(s, n) =
                      [weight |-> <<"weight", "embed", 0>>, token |-> <<"token", 0>>]
               /\ k \in MulKinds \union MatmulKinds =>
                      ModelParams(s, n) = [x |-> x, weight |-> <<"weight", k, l>>]
               /\ k \in {"pq", "pk"} => ModelParams(s, n) = [in |-> x, table |-> Table]
               /\ k = "att" => ModelParams(s, n) =
                      [q |-> Of("pq"), k |-> Of("pk"), v |-> Of("gv"), mask |-> <<"mask", 0>>]
               /\ k = "inp" => ModelParams(s, n) = [x1 |-> Of("mo"), x2 |-> x]
               /\ k = "act" => ModelParams(s, n) = [x1 |-> Of("gate"), x2 |-> Of("up")]
               /\ k = "res" => ModelParams(s, n) = [x1 |-> Of("inp"), x2 |-> Of("down")]
               /\ k \in (PlainKinds \union TailKinds) \ (MulKinds \union MatmulKinds \union
                            {"pq", "pk", "att", "inp", "act", "res"}) => ModelParams(s, n) = [in |-> x]
<1> USE Kinds DEF MulKinds, MatmulKinds
<1> DEFINE k == Kind(n)
           l == n[2]
           x == TensorOf(s, Operand(s, k, l))
           Of(j) == TensorOf(s, <<j, l>>)
<1>0. Op(n) = "ROPE" <=> k \in {"pq", "pk"}
  BY NodeShape, OpsOf
<1> HIDE DEF k
<1>1. k \in {"weight", "token", "mask", "tableq", "tablek"} => DOMAIN ModelParams(s, n) = {}
  BY <1>0 DEF ModelParams, k
<1>2. k = "embed" => ModelParams(s, n) =
          [weight |-> <<"weight", "embed", 0>>, token |-> <<"token", 0>>]
  BY <1>0 DEF ModelParams, k
<1>3. k \in MulKinds \union MatmulKinds =>
          ModelParams(s, n) = [x |-> x, weight |-> <<"weight", k, l>>]
  BY <1>0 DEF ModelParams, k
<1>4. k \in {"pq", "pk"} => ModelParams(s, n) = [in |-> x, table |-> Table]
  BY <1>0 DEF ModelParams, k
<1>5. k = "att" => ModelParams(s, n) =
          [q |-> Of("pq"), k |-> Of("pk"), v |-> Of("gv"), mask |-> <<"mask", 0>>]
  BY <1>0 DEF ModelParams, k
<1>6. k = "inp" => ModelParams(s, n) = [x1 |-> Of("mo"), x2 |-> x]
  BY <1>0 DEF ModelParams, k
<1>7. k = "act" => ModelParams(s, n) = [x1 |-> Of("gate"), x2 |-> Of("up")]
  BY <1>0 DEF ModelParams, k
<1>8. k = "res" => ModelParams(s, n) = [x1 |-> Of("inp"), x2 |-> Of("down")]
  BY <1>0 DEF ModelParams, k
<1>9. k \in (PlainKinds \union TailKinds) \ (MulKinds \union MatmulKinds \union
          {"pq", "pk", "att", "inp", "act", "res"}) => ModelParams(s, n) = [in |-> x]
  BY <1>0 DEF ModelParams, k, PlainKinds, TailKinds
<1> QED
  BY <1>1, <1>2, <1>3, <1>4, <1>5, <1>6, <1>7, <1>8, <1>9 DEF k

(* No node has an input twice, or one of its own kind.                     *)
LEMMA InputsOnce ==
    ASSUME NEW s, NEW n \in ModelNodes
    PROVE  Distinct(ModelInputs(s, n)) /\ \A i \in MI(s, n) : Kind(i) # Kind(n)
<1> DEFINE k == Kind(n)
           l == n[2]
           x == Operand(s, k, l)
<1>1. \A a, b : Kind(<<a, b>>) = a
  BY DEF Kind
<1>2. \A a, b, c : Kind(<<a, b, c>>) = a
  BY DEF Kind
<1>3. Kind(Before(l)) \in {"embed", "res"} /\ Kind(Turned(s, l)) \in {"cq", "uq"}
  BY <1>1 DEF Before, Turned
<1> HIDE DEF k, l
<1>4. k \in {"weight"} \union PlainKinds \union HeadKinds \union TailKinds
  BY NodeShape, Kinds DEF k
<1>5. k \in (PlainKinds \union TailKinds) \ {"att", "act", "res"} => Kind(x) \in (PlainKinds \union {"embed"}) \union TailKinds /\ Kind(x) # k /\ Kind(x) # "weight"
  BY <1>1, <1>3, OperandList DEF PlainKinds, TailKinds
<1>6. CASE k \in {"weight", "token", "mask", "tableq", "tablek"}
  BY <1>6, InputList, MembersOf, DistinctOf DEF MI, k
<1>7. CASE k = "embed"
  <2>1. ModelInputs(s, n) = <<<<"weight", "embed", 0>>, <<"token", 0>>>>
    BY <1>7, InputList DEF k
  <2>2. <<"weight", "embed", 0>> # <<"token", 0>>
    BY <1>1, <1>2
  <2> QED
    BY <1>1, <1>2, <1>7, <2>1, <2>2, MembersOf, DistinctOf DEF MI, k
<1>8. CASE k \in MulKinds \union MatmulKinds
  <2>1. ModelInputs(s, n) = <<x, <<"weight", k, l>>>>
    BY <1>8, InputList DEF k, l
  <2>2. Kind(x) # k /\ Kind(x) # "weight" /\ k # "weight"
    BY <1>5, <1>8 DEF MulKinds, MatmulKinds, PlainKinds, TailKinds
  <2>3. x # <<"weight", k, l>> /\ Kind(<<"weight", k, l>>) = "weight"
    BY <1>2, <2>2
  <2> QED
    BY <2>1, <2>2, <2>3, MembersOf, DistinctOf DEF MI, k
<1>9. CASE k \in {"pq", "pk"}
  <2>1. ModelInputs(s, n) \in {<<<<"tableq", 0>>, x>>, <<<<"tablek", 0>>, x>>, <<x>>}
    BY <1>9, InputList DEF k, l
  <2>2. Kind(x) \in {"uq", "cq", "gk"}
    BY <1>1, <1>3, <1>9, OperandList
  <2>3. x # <<"tableq", 0>> /\ x # <<"tablek", 0>>
    BY <1>1, <2>2
  <2>4. MI(s, n) \subseteq {<<"tableq", 0>>, <<"tablek", 0>>, x} /\ Distinct(ModelInputs(s, n))
    BY <2>1, <2>3, MembersOf, DistinctOf DEF MI
  <2> QED
    BY <1>1, <1>9, <2>2, <2>4 DEF k
<1>10. CASE k = "att"
  <2>1. MI(s, n) \subseteq {<<"pq", l>>, <<"pk", l>>, <<"gv", l>>, <<"mask", 0>>}
        /\ Distinct(ModelInputs(s, n))
    BY <1>10, InputList DEF k, l
  <2> QED
    BY <1>1, <1>10, <2>1 DEF k
<1>11. CASE k = "inp"
  <2>1. ModelInputs(s, n) = <<<<"mo", l>>, x>> /\ x = Before(l)
    BY <1>11, InputList, OperandList DEF k, l
  <2>2. x # <<"mo", l>> /\ Kind(x) # "inp"
    BY <1>1, <1>3, <2>1
  <2> QED
    BY <1>1, <1>11, <2>1, <2>2, MembersOf, DistinctOf DEF MI, k
<1>12. CASE k \in {"act", "res"}
  <2>1. \/ ModelInputs(s, n) = <<<<"gate", l>>, <<"up", l>>>>
        \/ ModelInputs(s, n) = <<<<"inp", l>>, <<"down", l>>>>
    BY <1>12, InputList DEF k, l
  <2>2. <<"gate", l>> # <<"up", l>> /\ <<"inp", l>> # <<"down", l>>
    OBVIOUS
  <2> QED
    BY <1>1, <1>12, <2>1, <2>2, MembersOf, DistinctOf DEF MI, k
<1>13. CASE k \in (PlainKinds \union TailKinds) \ (MulKinds \union MatmulKinds \union
                     {"pq", "pk", "att", "inp", "act", "res"})
  <2>1. ModelInputs(s, n) = <<x>>
    BY <1>13, InputList DEF k, l
  <2> QED
    BY <1>5, <1>13, <2>1, MembersOf, DistinctOf DEF MI, k
<1> QED
  BY <1>4, <1>6, <1>7, <1>8, <1>9, <1>10, <1>11, <1>12, <1>13 DEF HeadKinds

-----------------------------------------------------------------------------
(* The values in tensors *)

IsQuant(t) == Kind(t) \in QuantKinds

(* The tensor of the model that a copy is of.                              *)
Plainly(s, t) == IF IsCopy(t) THEN TensorOf(s, t[3]) ELSE t
Val(s, t) == LET u == Plainly(s, t)
             IN  IF IsQuant(u) THEN <<"QUANTIZE", ModelParams(s, u).in>> ELSE u

LEMMA TensorList ==
    ASSUME NEW s, NEW n \in ModelNodes
    PROVE  LET k == Kind(n)
               l == n[2]
           IN  /\ k = "rq" => TensorOf(s, n) = <<"mq", l>>
               /\ k = "rk" => TensorOf(s, n) = <<"mk", l>>
               /\ k = "rv" => TensorOf(s, n) = <<"mv", l>>
               /\ k = "ra" => TensorOf(s, n) = <<"att", l>>
               /\ k \in {"tableq", "tablek"} => TensorOf(s, n) = Table
               /\ k \notin {"rq", "rk", "rv", "ra", "tableq", "tablek"} => TensorOf(s, n) = n
<1> DEFINE k == Kind(n)
           l == n[2]
<1>1. Op(n) = "RESHAPE" <=> k \in {"rq", "rk", "rv", "ra"}
  BY NodeShape, OpsOf
<1>2. Op(n) = "PRE_ROPE_TABLE" <=> k \in {"tableq", "tablek"}
  BY NodeShape, OpsOf
<1> HIDE DEF k
<1> QED
  BY <1>1, <1>2, OperandList DEF TensorOf, k

(* The kind of the tensor of a node.                                       *)
LEMMA TensorKind ==
    ASSUME NEW s, NEW n \in ModelNodes
    PROVE  /\ TensorOf(s, n) = n \/ Kind(TensorOf(s, n)) \in {"mq", "mk", "mv", "att", "table"}
           /\ TensorOf(s, n) \in ModelTensors
           /\ IsQuant(TensorOf(s, n)) => TensorOf(s, n) = n
<1>1. \A j, m : Kind(<<j, m>>) = j
  BY DEF Kind
<1>2. TensorOf(s, n) = n \/ Kind(TensorOf(s, n)) \in {"mq", "mk", "mv", "att", "table"}
  BY <1>1, TensorList DEF Table
<1> QED
  BY <1>2, TensorIn DEF IsQuant, QuantKinds

LEMMA ModelKind ==
    ASSUME NEW t \in ModelTensors
    PROVE  Kind(t) \in DOMAIN OpOf \union {"table"} /\ Kind(t) # "QUANTIZE" /\ ~ IsCopy(t)
<1>1. Kind(t) \in DOMAIN OpOf \union {"table"}
  BY NodeShape DEF ModelTensors, Kind, Table
<1> QED
  BY <1>1, NoCopy, Kinds DEF PlainKinds, HeadKinds, TailKinds

(* Only a quantization does not have the value of its own name.            *)
LEMMA ValOf ==
    ASSUME NEW s, NEW t \in ModelTensors
    PROVE  /\ Val(s, t) = IF IsQuant(t) THEN <<"QUANTIZE", ModelParams(s, t).in>> ELSE t
           /\ \A u \in ModelTensors : ~ IsQuant(t) /\ Val(s, u) = Val(s, t) => u = t
           /\ ~ IsQuant(t) => Val(s, t) # <<"QUANTIZE">> /\ \A x : Val(s, t) # <<"QUANTIZE", x>>
<1>1. \A u \in ModelTensors : Val(s, u) = IF IsQuant(u) THEN <<"QUANTIZE", ModelParams(s, u).in>> ELSE u
  BY ModelKind DEF Val, Plainly
<1>2. ASSUME NEW x, NEW u \in ModelTensors PROVE u # <<"QUANTIZE", x>> /\ u # <<"QUANTIZE">>
  <2>1. Kind(<<"QUANTIZE", x>>) = "QUANTIZE" /\ Kind(<<"QUANTIZE">>) = "QUANTIZE"
    BY DEF Kind
  <2> QED
    BY <2>1, ModelKind
<1> QED
  BY <1>1, <1>2

(* The values that a node of the model reads.                              *)
ReadVals(s, n) == {Val(s, TensorOf(s, i)) : i \in MI(s, n)}

LEMMA Weights ==
    ASSUME NEW s, NEW k, NEW l, <<"weight", k, l>> \in ModelNodes
    PROVE  /\ TensorOf(s, <<"weight", k, l>>) = <<"weight", k, l>>
           /\ Val(s, <<"weight", k, l>>) = <<"weight", k, l>>
           /\ \A t \in ModelTensors : Kind(t) # "weight" => Val(s, t) # <<"weight", k, l>>
<1> DEFINE w == <<"weight", k, l>>
<1>1. Kind(w) = "weight" /\ w \in ModelNodes
  BY DEF Kind
<1>2. TensorOf(s, w) = w
  <2> HIDE DEF w
  <2> QED
    BY <1>1, TensorList
<1>3. w \in ModelTensors /\ ~ IsQuant(w)
  BY <1>1 DEF ModelTensors, IsQuant, QuantKinds
<1> HIDE DEF w
<1>4. Val(s, w) = w
  BY <1>3, ValOf
<1>5. \A t \in ModelTensors : Val(s, t) = Val(s, w) => t = w
  BY <1>3, ValOf
<1> QED
  BY <1>1, <1>2, <1>4, <1>5 DEF w

(* No node reads a value twice.                                            *)
LEMMA InputsApart ==
    ASSUME NEW s, NEW n \in ModelNodes, NEW i \in MI(s, n), NEW j \in MI(s, n),
           Val(s, TensorOf(s, i)) = Val(s, TensorOf(s, j))
    PROVE  i = j
<1> DEFINE k == Kind(n)
           l == n[2]
           x == Operand(s, k, l)
           T(m) == TensorOf(s, m)
<1>0. k # "weight" /\ i \in ModelNodes /\ j \in ModelNodes
  BY InputFormOf
<1>1. l \in Layers /\ (k \in PlainKinds \/ (k \in HeadKinds \union TailKinds /\ l = 0))
  BY <1>0, PlainForm
<1>2. \A a, b : Kind(<<a, b>>) = a
  BY DEF Kind
<1>3. Kind(Before(l)) \in {"embed", "res"} /\ Kind(Turned(s, l)) \in {"cq", "uq"}
  BY <1>2 DEF Before, Turned
<1>4. ASSUME NEW a \in ModelNodes, NEW b \in ModelNodes,
             Kind(a) \notin {"rq", "rk", "rv", "ra", "tableq", "tablek"} \union QuantKinds,
             T(a) # T(b)
      PROVE  Val(s, T(a)) # Val(s, T(b))
  <2>1. T(a) = a /\ T(b) \in ModelTensors /\ a \in ModelTensors
    BY <1>4, TensorList, TensorIn DEF ModelTensors
  <2>2. ~ IsQuant(T(a))
    BY <1>4, <2>1 DEF IsQuant
  <2> HIDE DEF T
  <2> QED
    BY <1>4, <2>1, <2>2, ValOf
<1> HIDE DEF k, l, T
<1>5. CASE k \in MulKinds \union MatmulKinds
  <2>1. MI(s, n) = {x, <<"weight", k, l>>} /\ <<"weight", k, l>> \in MI(s, n) /\ x \in MI(s, n)
    BY <1>5, InputList, MembersOf DEF MI, k, l
  <2>2. x \in ModelNodes /\ Kind(x) # "weight"
    <3>1. k \in PlainKinds \ {"att", "act", "res"} \/ (k \in TailKinds /\ l = 0)
      BY <1>1, <1>5 DEF MulKinds, MatmulKinds, PlainKinds, TailKinds, HeadKinds
    <3>2. x \in ModelNodes /\ IsPlain(x)
      BY <1>1, <3>1, OperandIn
    <3>3. ~ IsWeight(x)
      BY <3>2 DEF IsPlain, IsWeight, PlainKinds, HeadKinds, TailKinds
    <3> QED
      BY <3>2, <3>3, NodeShape
  <2>3. <<"weight", k, l>> \in ModelNodes
    BY <2>1, InputFormOf
  <2>4. T(<<"weight", k, l>>) = <<"weight", k, l>> /\ Val(s, <<"weight", k, l>>) = <<"weight", k, l>>
    BY <2>3, Weights DEF T
  <2>5. Val(s, T(x)) # <<"weight", k, l>>
    <3>1. T(x) \in ModelTensors /\ Kind(T(x)) # "weight"
      BY <2>2, TensorKind DEF T
    <3> QED
      BY <2>3, <3>1, Weights
  <2> QED
    BY <2>1, <2>4, <2>5 DEF T
<1>6. CASE k \in {"pq", "pk"}
  <2>1. MI(s, n) \subseteq {<<"tableq", 0>>, <<"tablek", 0>>, x} /\ Kind(x) \in {"cq", "uq", "gk"}
        /\ (k = "pq" => MI(s, n) \subseteq {<<"tableq", 0>>, x})
        /\ (k = "pk" => MI(s, n) \subseteq {<<"tablek", 0>>, x})
    BY <1>2, <1>3, <1>6, InputList, MembersOf, OperandList DEF MI, k, l
  <2>2. T(<<"tableq", 0>>) = Table /\ T(<<"tablek", 0>>) = Table
    BY <1>2, TensorList, PlainNode DEF T, HeadKinds
  <2>3. x \in ModelNodes /\ T(x) = x /\ x # Table
    <3>1. x \in ModelNodes
      BY <1>1, <1>6, OperandIn DEF PlainKinds
    <3> QED
      BY <1>2, <2>1, <3>1, TensorList DEF T, Table
  <2>4. x \in MI(s, n) => Val(s, T(x)) # Val(s, Table)
    BY <2>1, <2>3, ValOf DEF ModelTensors, IsQuant, QuantKinds
  <2> QED
    BY <1>6, <2>1, <2>2, <2>4 DEF T
<1>7. CASE k \in {"att", "act", "res", "inp", "embed"}
  <2>1. Kind(i) \notin {"rq", "rk", "rv", "ra", "tableq", "tablek"} \union QuantKinds
    <3>1. i \in {<<"pq", l>>, <<"pk", l>>, <<"gv", l>>, <<"mask", 0>>, <<"gate", l>>, <<"up", l>>,
                 <<"inp", l>>, <<"down", l>>, <<"mo", l>>, Before(l), <<"weight", "embed", 0>>,
                 <<"token", 0>>}
      BY <1>7, InputList, MembersOf, OperandList DEF MI, k, l
    <3>2. Kind(<<"weight", "embed", 0>>) = "weight"
      BY DEF Kind
    <3> QED
      BY <1>2, <1>3, <3>1, <3>2 DEF QuantKinds
  <2>2. Kind(j) \notin {"rq", "rk", "rv", "ra", "tableq", "tablek"} \union QuantKinds
    <3>1. j \in {<<"pq", l>>, <<"pk", l>>, <<"gv", l>>, <<"mask", 0>>, <<"gate", l>>, <<"up", l>>,
                 <<"inp", l>>, <<"down", l>>, <<"mo", l>>, Before(l), <<"weight", "embed", 0>>,
                 <<"token", 0>>}
      BY <1>7, InputList, MembersOf, OperandList DEF MI, k, l
    <3>2. Kind(<<"weight", "embed", 0>>) = "weight"
      BY DEF Kind
    <3> QED
      BY <1>2, <1>3, <3>1, <3>2 DEF QuantKinds
  <2>3. T(i) = i /\ T(j) = j
    BY <1>0, <2>1, <2>2, TensorList DEF T
  <2> QED
    BY <1>0, <1>4, <2>1, <2>3 DEF T
<1>8. CASE k \in {"token", "mask", "tableq", "tablek"}
  BY <1>8, InputList, MembersOf DEF MI, k
<1>9. CASE k \in (PlainKinds \union TailKinds) \ (MulKinds \union MatmulKinds \union
                     {"pq", "pk", "att", "inp", "act", "res"})
  <2>1. MI(s, n) = {x}
    BY <1>9, InputList, MembersOf DEF MI, k, l
  <2> QED
    BY <2>1
<1> QED
  BY <1>1, <1>5, <1>6, <1>7, <1>8, <1>9 DEF HeadKinds

-----------------------------------------------------------------------------
(* Edits of nets *)

LEMMA ParamsForm ==
    ASSUME NEW X, NEW f \in ParamsIn(X)
    PROVE  DOMAIN f \subseteq Names /\ \A p \in DOMAIN f : f[p] \in X
<1>1. PICK P \in SUBSET Names : f \in [P -> X]
  BY DEF ParamsIn
<1> QED
  BY <1>1

LEMMA ParamsFrom ==
    ASSUME NEW X, NEW f, f = [p \in DOMAIN f |-> f[p]], DOMAIN f \subseteq Names,
           \A p \in DOMAIN f : f[p] \in X
    PROVE  f \in ParamsIn(X)
<1>1. f \in [DOMAIN f -> X]
  OBVIOUS
<1> QED
  BY <1>1 DEF ParamsIn

(* The parts of a net that an edit leaves alone.                           *)
SameBut(g, h, P) ==
    /\ "ins" \notin P => h.ins = g.ins
    /\ "outs" \notin P => h.outs = g.outs
    /\ "layer" \notin P => h.layer = g.layer
    /\ "params" \notin P => h.params = g.params
    /\ "known" \notin P => h.known = g.known
    /\ "tensor" \notin P => h.tensor = g.tensor
    /\ "fused" \notin P => h.fused = g.fused
    /\ "dev" \notin P => h.dev = g.dev

InputAdded(D, g, h, n, m) ==
    /\ h \in NetsOn(D) /\ SameBut(g, h, {"ins", "layer"})
    /\ \A x \in D \ {n} : h.ins[x] = g.ins[x] /\ h.layer[x] = g.layer[x]
    /\ h.ins[n] = IF \E i \in Members(g.ins[n]) : Name(i) = Name(m)
                  THEN g.ins[n] ELSE Append(g.ins[n], m)

LEMMA AddInputIs ==
    ASSUME NEW D, NEW g \in NetsOn(D), NEW n \in D, NEW m \in D
    PROVE  InputAdded(D, g, AddInput(g, n, m), n, m)
<1> USE NetParts DEF InputAdded
<1>1. CASE \E i \in Members(g.ins[n]) : Name(i) = Name(m)
  <2>1. AddInput(g, n, m) = g
    BY <1>1 DEF AddInput
  <2> QED
    BY <1>1, <2>1 DEF SameBut
<1>2. CASE ~ \E i \in Members(g.ins[n]) : Name(i) = Name(m)
  <2> DEFINE h == [g EXCEPT !.ins[n] = Append(@, m), !.layer[n] = g.layer[m]]
  <2>1. AddInput(g, n, m) = h
    BY <1>2 DEF AddInput
  <2>2. h.ins \in [D -> Seq(D)] /\ h.layer \in [D -> Int]
    <3>1. Append(g.ins[n], m) \in Seq(D) /\ g.layer[m] \in Int
      OBVIOUS
    <3> QED
      BY <3>1
  <2>3. h \in NetsOn(D)
    BY <2>2 DEF NetsOn
  <2>4. SameBut(g, h, {"ins", "layer"})
    BY DEF SameBut, NetsOn
  <2> QED
    BY <1>2, <2>1, <2>3, <2>4
<1> QED
  BY <1>1, <1>2

InputRemoved(D, g, h, n, m) ==
    /\ h \in NetsOn(D) /\ SameBut(g, h, {"ins"})
    /\ \A x \in D \ {n} : h.ins[x] = g.ins[x]
    /\ h.ins[n] = Only(g.ins[n], Nodes \ {m}) /\ h.ins[n] \in Seq(D)

LEMMA RemoveInputIs ==
    ASSUME NEW D \in Domains, NEW g \in NetsOn(D), NEW n \in D, NEW m
    PROVE  InputRemoved(D, g, RemoveInput(g, n, m), n, m)
<1> USE NetParts DEF InputRemoved
<1> DEFINE h == [g EXCEPT !.ins[n] = Only(@, Nodes \ {m})]
<1>1. RemoveInput(g, n, m) = h
  BY DEF RemoveInput
<1>2. g.ins[n] \in Seq(D)
  OBVIOUS
<1>3. Only(g.ins[n], Nodes \ {m}) \in Seq(D \cap (Nodes \ {m}))
  BY <1>2, OnlyIs
<1>4. Only(g.ins[n], Nodes \ {m}) \in Seq(D)
  BY <1>3
<1>5. h.ins \in [D -> Seq(D)]
  BY <1>4
<1>6. h \in NetsOn(D) /\ SameBut(g, h, {"ins"})
  BY <1>5 DEF NetsOn, SameBut
<1> QED
  BY <1>1, <1>4, <1>6

OutputAdded(D, g, h, n, m) ==
    /\ h \in NetsOn(D) /\ SameBut(g, h, {"outs"})
    /\ \A x \in D \ {n} : h.outs[x] = g.outs[x]
    /\ h.outs[n] = Append(g.outs[n], m)

LEMMA AddOutputIs ==
    ASSUME NEW D, NEW g \in NetsOn(D), NEW n \in D, NEW m \in D
    PROVE  OutputAdded(D, g, AddOutput(g, n, m), n, m)
<1> USE NetParts DEF OutputAdded
<1> DEFINE h == [g EXCEPT !.outs[n] = Append(@, m)]
<1>1. AddOutput(g, n, m) = h
  BY DEF AddOutput
<1>2. Append(g.outs[n], m) \in Seq(D)
  OBVIOUS
<1>3. h.outs \in [D -> Seq(D)]
  BY <1>2
<1>4. h \in NetsOn(D) /\ SameBut(g, h, {"outs"})
  BY <1>3 DEF NetsOn, SameBut
<1> QED
  BY <1>1, <1>4

OutputRemoved(D, g, h, n, m) ==
    /\ h \in NetsOn(D) /\ SameBut(g, h, {"outs"})
    /\ \A x \in D \ {n} : h.outs[x] = g.outs[x]
    /\ h.outs[n] = RemoveFirst(g.outs[n], m)

LEMMA RemoveOutputIs ==
    ASSUME NEW D, NEW g \in NetsOn(D), NEW n \in D, NEW m
    PROVE  OutputRemoved(D, g, RemoveOutput(g, n, m), n, m)
<1> USE NetParts DEF OutputRemoved
<1> DEFINE h == [g EXCEPT !.outs[n] = RemoveFirst(@, m)]
<1>1. RemoveOutput(g, n, m) = h
  BY DEF RemoveOutput
<1>2. g.outs[n] \in Seq(D)
  OBVIOUS
<1>3. RemoveFirst(g.outs[n], m) \in Seq(D)
  BY <1>2, RemoveFirstIs
<1>4. h.outs \in [D -> Seq(D)]
  BY <1>3
<1>5. h \in NetsOn(D) /\ SameBut(g, h, {"outs"})
  BY <1>4 DEF NetsOn, SameBut
<1> QED
  BY <1>1, <1>5

ParamsSet(D, g, h, n, names, t) ==
    /\ h \in NetsOn(D) /\ SameBut(g, h, {"params"})
    /\ \A x \in D \ {n} : h.params[x] = g.params[x]
    /\ h.params[n] = [p \in DOMAIN g.params[n] |-> IF p \in names THEN t ELSE g.params[n][p]]

LEMMA SetParamsIs ==
    ASSUME NEW D, NEW g \in NetsOn(D), NEW n \in D, NEW names, NEW t \in TensorsOf(D)
    PROVE  ParamsSet(D, g, SetParams(g, n, names, t), n, names, t)
<1> USE NetParts DEF ParamsSet
<1> DEFINE f == [p \in DOMAIN g.params[n] |-> IF p \in names THEN t ELSE g.params[n][p]]
           h == [g EXCEPT !.params[n] = f]
<1>1. SetParams(g, n, names, t) = h
  BY DEF SetParams
<1>2. f \in ParamsIn(TensorsOf(D))
  <2>1. g.params[n] \in ParamsIn(TensorsOf(D))
    OBVIOUS
  <2>2. DOMAIN g.params[n] \subseteq Names /\ \A p \in DOMAIN g.params[n] : g.params[n][p] \in TensorsOf(D)
    BY <2>1, ParamsForm
  <2>3. f = [p \in DOMAIN f |-> f[p]] /\ DOMAIN f \subseteq Names /\ \A p \in DOMAIN f : f[p] \in TensorsOf(D)
    BY <2>2
  <2> HIDE DEF f
  <2> QED
    BY <2>3, ParamsFrom
<1> HIDE DEF f
<1>3. h.params \in [D -> ParamsIn(TensorsOf(D))]
  BY <1>2
<1>4. h \in NetsOn(D) /\ SameBut(g, h, {"params"})
  BY <1>3 DEF NetsOn, SameBut
<1> QED
  BY <1>1, <1>4 DEF f

(* A node is added; its tensor is one of X.                                *)
NodeAdded(D, g, h, c, t, own) ==
    LET E == D \union {c}
        X == TensorsOf(E)
    IN  /\ h.ins \in [E -> Seq(E)] /\ h.ins[c] = << >> /\ \A x \in D \ {c} : h.ins[x] = g.ins[x]
        /\ h.outs \in [E -> Seq(E)] /\ h.outs[c] = << >> /\ \A x \in D \ {c} : h.outs[x] = g.outs[x]
        /\ h.layer \in [E -> Int] /\ h.layer[c] = 0 /\ \A x \in D \ {c} : h.layer[x] = g.layer[x]
        /\ h.params \in [E -> ParamsIn(X)] /\ h.params[c] = [in |-> t]
        /\ \A x \in D \ {c} : h.params[x] = g.params[x]
        /\ h.known \in [E -> ParamsIn(X)] /\ h.known[c] = [in |-> t]
        /\ \A x \in D \ {c} : h.known[x] = g.known[x]
        /\ h.tensor \in [E -> X] /\ h.tensor[c] = own /\ \A x \in D \ {c} : h.tensor[x] = g.tensor[x]
        /\ h.fused = g.fused /\ h.dev = g.dev
        /\ h = [ins |-> h.ins, outs |-> h.outs, layer |-> h.layer, params |-> h.params,
                known |-> h.known, tensor |-> h.tensor, fused |-> h.fused, dev |-> h.dev]

LEMMA NewNodeIs ==
    ASSUME NEW D, NEW g \in NetsOn(D), NEW c, NEW t \in TensorsOf(D), NEW own \in TensorsOf(D \union {c})
    PROVE  NodeAdded(D, g, NewNode(g, c, t, own), c, t, own)
<1> USE DEF NodeAdded
<1> DEFINE h == NewNode(g, c, t, own)
           E == D \union {c}
           X == TensorsOf(E)
<1>1. /\ h.ins = With(g.ins, c, << >>) /\ h.outs = With(g.outs, c, << >>) /\ h.layer = With(g.layer, c, 0)
      /\ h.params = With(g.params, c, [in |-> t]) /\ h.known = With(g.known, c, [in |-> t])
      /\ h.tensor = With(g.tensor, c, own) /\ h.fused = g.fused /\ h.dev = g.dev
      /\ h = [ins |-> h.ins, outs |-> h.outs, layer |-> h.layer, params |-> h.params,
              known |-> h.known, tensor |-> h.tensor, fused |-> h.fused, dev |-> h.dev]
  <2> DEFINE i == With(g.ins, c, << >>)
             o == With(g.outs, c, << >>)
             l == With(g.layer, c, 0)
             p == With(g.params, c, [in |-> t])
             k == With(g.known, c, [in |-> t])
             y == With(g.tensor, c, own)
  <2>1. h = [g EXCEPT !.ins = i, !.outs = o, !.layer = l, !.params = p, !.known = k, !.tensor = y]
    BY DEF NewNode
  <2> HIDE DEF h, i, o, l, p, k, y
  <2>2. h.ins = i /\ h.outs = o /\ h.layer = l /\ h.params = p /\ h.known = k /\ h.tensor = y
    BY <2>1 DEF NetsOn
  <2>3. h.fused = g.fused /\ h.dev = g.dev
    BY <2>1 DEF NetsOn
  <2>4. h = [ins |-> h.ins, outs |-> h.outs, layer |-> h.layer, params |-> h.params,
             known |-> h.known, tensor |-> h.tensor, fused |-> h.fused, dev |-> h.dev]
    BY <2>1 DEF NetsOn
  <2> QED
    BY <2>2, <2>3, <2>4 DEF i, o, l, p, k, y
<1>2. TensorsOf(D) \subseteq X
  BY DEF TensorsOf
<1>3. ParamsIn(TensorsOf(D)) \subseteq ParamsIn(X)
  <2> SUFFICES ASSUME NEW f \in ParamsIn(TensorsOf(D)) PROVE f \in ParamsIn(X)
    OBVIOUS
  <2>1. PICK P \in SUBSET Names : f \in [P -> TensorsOf(D)]
    BY DEF ParamsIn
  <2>2. f \in [P -> X]
    BY <1>2, <2>1
  <2> QED
    BY <2>2 DEF ParamsIn
<1>4. [in |-> t] \in ParamsIn(X)
  <2>1. [in |-> t] \in [{"in"} -> X] /\ {"in"} \in SUBSET Names
    BY <1>2 DEF Names
  <2> QED
    BY <2>1 DEF ParamsIn
<1>5. g.ins \in [D -> Seq(E)] /\ g.outs \in [D -> Seq(E)] /\ << >> \in Seq(E)
  <2>1. Seq(D) \subseteq Seq(E)
    OBVIOUS
  <2>2. g.ins \in [D -> Seq(D)] /\ g.outs \in [D -> Seq(D)] /\ << >> \in Seq(E)
    BY NetParts
  <2> HIDE DEF E
  <2> QED
    BY <2>1, <2>2
<1>6. g.params \in [D -> ParamsIn(X)] /\ g.known \in [D -> ParamsIn(X)] /\ g.tensor \in [D -> X]
      /\ g.layer \in [D -> Int] /\ 0 \in Int
  <2>1. /\ g.params \in [D -> ParamsIn(TensorsOf(D))] /\ g.known \in [D -> ParamsIn(TensorsOf(D))]
        /\ g.tensor \in [D -> TensorsOf(D)] /\ g.layer \in [D -> Int]
    BY NetParts
  <2> HIDE DEF X
  <2> QED
    BY <1>2, <1>3, <2>1
<1>7. own \in X
  OBVIOUS
<1> DEFINE Set(f, v, Y) == /\ With(f, c, v) \in [E -> Y] /\ With(f, c, v)[c] = v
                           /\ \A x \in D \ {c} : With(f, c, v)[x] = f[x]
<1>8. ASSUME NEW Y, NEW f \in [D -> Y], NEW v \in Y
      PROVE  Set(f, v, Y)
  BY DEF With
<1> HIDE DEF h, E, X, Set
<1>9. Set(g.ins, << >>, Seq(E))
  BY <1>5, <1>8
<1>10. Set(g.outs, << >>, Seq(E))
  BY <1>5, <1>8
<1>11. Set(g.layer, 0, Int)
  BY <1>6, <1>8
<1>12. Set(g.params, [in |-> t], ParamsIn(X))
  BY <1>4, <1>6, <1>8
<1>13. Set(g.known, [in |-> t], ParamsIn(X))
  BY <1>4, <1>6, <1>8
<1>14. Set(g.tensor, own, X)
  BY <1>6, <1>7, <1>8
<1> USE DEF Set
<1>15. h.ins \in [E -> Seq(E)] /\ h.ins[c] = << >> /\ \A x \in D \ {c} : h.ins[x] = g.ins[x]
  BY <1>1, <1>9
<1>16. h.outs \in [E -> Seq(E)] /\ h.outs[c] = << >> /\ \A x \in D \ {c} : h.outs[x] = g.outs[x]
  BY <1>1, <1>10
<1>17. h.layer \in [E -> Int] /\ h.layer[c] = 0 /\ \A x \in D \ {c} : h.layer[x] = g.layer[x]
  BY <1>1, <1>11
<1>18. h.params \in [E -> ParamsIn(X)] /\ h.params[c] = [in |-> t]
       /\ \A x \in D \ {c} : h.params[x] = g.params[x]
  BY <1>1, <1>12
<1>19. h.known \in [E -> ParamsIn(X)] /\ h.known[c] = [in |-> t]
       /\ \A x \in D \ {c} : h.known[x] = g.known[x]
  BY <1>1, <1>13
<1>20. h.tensor \in [E -> X] /\ h.tensor[c] = own /\ \A x \in D \ {c} : h.tensor[x] = g.tensor[x]
  BY <1>1, <1>14
<1> QED
  BY <1>1, <1>15, <1>16, <1>17, <1>18, <1>19, <1>20 DEF h, E, X

(* CopyInput of an input that is on another device: a copy of it is made   *)
(* and stands for it, among the inputs and the parameters of the node.     *)
Copied(D, g, h, n, i, c) ==
    LET rest == Only(g.ins[n], Nodes \ {i})
    IN  /\ D \union {c} \in Domains /\ h \in NetsOn(D \union {c}) /\ h.fused = g.fused
        /\ h.tensor[c] = c /\ \A x \in D : h.tensor[x] = g.tensor[x]
        /\ h.dev[c] = Device(g, n) /\ \A t \in TensorsOf(D) : h.dev[t] = g.dev[t]
        /\ h.ins[c] = <<i>> /\ h.outs[c] = <<n>>
        /\ h.params[c] = [in |-> g.tensor[i]] /\ h.known[c] = [in |-> g.tensor[i]]
        /\ \A x \in D \ {n} : /\ h.ins[x] = g.ins[x] /\ h.layer[x] = g.layer[x]
                              /\ h.params[x] = g.params[x] /\ h.known[x] = g.known[x]
        /\ h.ins[n] = IF \E j \in Members(rest) : Name(j) = Name(c) THEN rest ELSE Append(rest, c)
        /\ h.params[n] = [p \in DOMAIN g.params[n] |->
                            IF p \in ParaNames(g, n, g.tensor[i]) THEN c ELSE g.params[n][p]]
        /\ h.known[n] = h.params[n]
        /\ \A x \in D \ {i} : h.outs[x] = g.outs[x]
        /\ h.outs[i] = Append(RemoveFirst(g.outs[i], n), c)

LEMMA CopyInputIs ==
    ASSUME NEW D \in Domains, NEW g \in NetsOn(D), NEW n \in ModelNodes, NEW i \in ModelNodes, n # i,
           <<"copy", n, i>> \notin D, Device(g, n) # Device(g, i), Op(i) # "MEM_REF"
    PROVE  Copied(D, g, CopyInput(g, n, i), n, i, <<"copy", n, i>>)
<1> DEFINE c == <<"copy", n, i>>
           E == D \union {c}
           t == g.tensor[i]
           d == Device(g, n)
           y0 == NewNode(g, c, t, c)
           y1 == [y0 EXCEPT !.dev = With(@, c, d)]
           y2 == RemoveOutput(y1, i, n)
           y3 == RemoveInput(y2, n, i)
           y4 == AddInput(y3, n, c)
           y5 == AddOutput(y4, c, n)
           y6 == AddInput(y5, c, i)
           y7 == AddOutput(y6, i, c)
           names == ParaNames(y7, n, y2.tensor[i])
           y8 == SetParams(y7, n, names, y2.tensor[c])
           y9 == [y8 EXCEPT !.known[n] = y8.params[n]]
<1>1. CopyInput(g, n, i) = y9
  BY DEF CopyInput, InsertInput
<1>2. /\ IsCopy(c) /\ E \in Domains /\ D \subseteq E /\ c \in E /\ n \in D /\ i \in D /\ n \in E /\ i \in E
      /\ n # c /\ i # c /\ c \notin D
      /\ c \in TensorsOf(E) /\ TensorsOf(E) = TensorsOf(D) \union {c} /\ c \notin TensorsOf(D)
  <2>1. IsCopy(c)
    BY DEF IsCopy, Kind
  <2>2. c \notin ModelTensors /\ c \in AllNodes
    BY <2>1, NoCopy DEF AllNodes
  <2> QED
    BY <2>1, <2>2 DEF Domains, TensorsOf, ModelTensors
<1>a. E \in Domains /\ n \in E /\ i \in E /\ c \in E
  BY <1>2
<1>3. t \in TensorsOf(D) /\ d \in Int
  BY <1>2, NetParts DEF Device
<1> HIDE DEF c, E, t, d, y0, y1, y2, y3, y4, y5, y6, y7, y8, y9, names
<1>4. NodeAdded(D, g, y0, c, t, c) /\ D \ {c} = D
  <2>1. c \in TensorsOf(D \union {c})
    BY <1>2 DEF E
  <2> QED
    BY <1>2, <1>3, <2>1, NewNodeIs DEF y0
<1>b. /\ y0.ins \in [E -> Seq(E)] /\ y0.outs \in [E -> Seq(E)] /\ y0.layer \in [E -> Int]
      /\ y0.params \in [E -> ParamsIn(TensorsOf(E))] /\ y0.known \in [E -> ParamsIn(TensorsOf(E))]
      /\ y0.tensor \in [E -> TensorsOf(E)] /\ y0.fused = g.fused /\ y0.dev = g.dev
      /\ y0 = [ins |-> y0.ins, outs |-> y0.outs, layer |-> y0.layer, params |-> y0.params,
               known |-> y0.known, tensor |-> y0.tensor, fused |-> y0.fused, dev |-> y0.dev]
  BY <1>4 DEF NodeAdded, E
<1>c. /\ y0.ins[c] = << >> /\ \A x \in D : y0.ins[x] = g.ins[x]
      /\ y0.outs[c] = << >> /\ \A x \in D : y0.outs[x] = g.outs[x]
      /\ \A x \in D : y0.layer[x] = g.layer[x]
  BY <1>4 DEF NodeAdded
<1>d. /\ y0.params[c] = [in |-> t] /\ \A x \in D : y0.params[x] = g.params[x]
      /\ y0.known[c] = [in |-> t] /\ \A x \in D : y0.known[x] = g.known[x]
      /\ y0.tensor[c] = c /\ \A x \in D : y0.tensor[x] = g.tensor[x]
  BY <1>4 DEF NodeAdded
<1>5. /\ y1 \in NetsOn(E) /\ SameBut(y0, y1, {"dev"}) /\ y1.dev[c] = d
      /\ \A x \in TensorsOf(D) : y1.dev[x] = g.dev[x]
  <2>1. g.dev \in [TensorsOf(D) -> Int] /\ g.fused \in SUBSET E
    BY <1>2, NetParts
  <2> DEFINE dev == With(g.dev, c, d)
  <2>2. dev \in [TensorsOf(E) -> Int] /\ dev[c] = d /\ \A x \in TensorsOf(D) : dev[x] = g.dev[x]
    BY <1>2, <1>3, <2>1 DEF With
  <2>3. y1 = [y0 EXCEPT !.dev = dev]
    BY <1>b DEF y1
  <2> HIDE DEF dev
  <2>4. SameBut(y0, y1, {"dev"}) /\ y1.dev = dev
    BY <1>b, <2>3 DEF SameBut
  <2>5. y1 \in NetsOn(E)
    BY <1>b, <2>1, <2>2, <2>3 DEF NetsOn
  <2> QED
    BY <2>2, <2>4, <2>5
<1>6. OutputRemoved(E, y1, y2, i, n)
  <2>1. y1 \in NetsOn(E)
    BY <1>5
  <2> QED
    BY <1>a, <2>1, RemoveOutputIs DEF y2
<1>7. InputRemoved(E, y2, y3, n, i)
  <2>1. y2 \in NetsOn(E)
    BY <1>6 DEF OutputRemoved
  <2> QED
    BY <1>a, <2>1, RemoveInputIs DEF y3
<1>8. InputAdded(E, y3, y4, n, c)
  <2>1. y3 \in NetsOn(E)
    BY <1>7 DEF InputRemoved
  <2> QED
    BY <1>a, <2>1, AddInputIs DEF y4
<1>9. OutputAdded(E, y4, y5, c, n)
  <2>1. y4 \in NetsOn(E)
    BY <1>8 DEF InputAdded
  <2> QED
    BY <1>a, <2>1, AddOutputIs DEF y5
<1>10. InputAdded(E, y5, y6, c, i)
  <2>1. y5 \in NetsOn(E)
    BY <1>9 DEF OutputAdded
  <2> QED
    BY <1>a, <2>1, AddInputIs DEF y6
<1>11. OutputAdded(E, y6, y7, i, c)
  <2>1. y6 \in NetsOn(E)
    BY <1>10 DEF InputAdded
  <2> QED
    BY <1>a, <2>1, AddOutputIs DEF y7
<1>e. /\ SameBut(y0, y1, {"dev"}) /\ SameBut(y1, y2, {"outs"}) /\ SameBut(y2, y3, {"ins"})
      /\ SameBut(y3, y4, {"ins", "layer"}) /\ SameBut(y4, y5, {"outs"})
      /\ SameBut(y5, y6, {"ins", "layer"}) /\ SameBut(y6, y7, {"outs"})
  <2>1. SameBut(y1, y2, {"outs"}) /\ SameBut(y4, y5, {"outs"}) /\ SameBut(y6, y7, {"outs"})
    BY <1>6, <1>9, <1>11 DEF OutputRemoved, OutputAdded
  <2>2. SameBut(y2, y3, {"ins"}) /\ SameBut(y3, y4, {"ins", "layer"}) /\ SameBut(y5, y6, {"ins", "layer"})
    BY <1>7, <1>8, <1>10 DEF InputRemoved, InputAdded
  <2> QED
    BY <1>5, <2>1, <2>2
<1>f. /\ y2.tensor = y0.tensor /\ y7.known = y0.known /\ y7.params = y0.params /\ y7.tensor = y0.tensor
      /\ y7.dev = y1.dev /\ y7.fused = y0.fused
      /\ y3.outs = y2.outs /\ y4.outs = y2.outs /\ y6.outs = y5.outs /\ y2.ins = y0.ins /\ y5.ins = y4.ins
      /\ y7.ins = y6.ins /\ y3.layer = y0.layer /\ y5.layer = y4.layer /\ y7.layer = y6.layer
      /\ y1.outs = y0.outs
  BY <1>e DEF SameBut
<1>12. y2.tensor[c] = c /\ y2.tensor[i] = t
  BY <1>2, <1>d, <1>f DEF t
<1>13. ParamsSet(E, y7, y8, n, names, c)
  <2>1. y7 \in NetsOn(E) /\ c \in TensorsOf(E) /\ y2.tensor[c] = c
    BY <1>2, <1>11, <1>12 DEF OutputAdded
  <2> QED
    BY <1>a, <2>1, SetParamsIs DEF y8
<1>g. /\ y8 \in NetsOn(E) /\ SameBut(y7, y8, {"params"})
      /\ \A x \in E \ {n} : y8.params[x] = y7.params[x]
      /\ y8.params[n] = [p \in DOMAIN y7.params[n] |-> IF p \in names THEN c ELSE y7.params[n][p]]
  BY <1>13 DEF ParamsSet
<1>14. /\ y9 \in NetsOn(E) /\ SameBut(y8, y9, {"known"}) /\ \A x \in E \ {n} : y9.known[x] = y8.known[x]
       /\ y9.known[n] = y8.params[n]
  <2> DEFINE q == y8.params[n]
  <2>0. y8 \in NetsOn(E)
    BY <1>g
  <2>1. q \in ParamsIn(TensorsOf(E))
    BY <1>a, <2>0, NetParts
  <2>2. y9 = [y8 EXCEPT !.known[n] = q]
    BY DEF y9
  <2> HIDE DEF q
  <2>3. y9.known \in [E -> ParamsIn(TensorsOf(E))] /\ y9.known[n] = q
        /\ \A x \in E \ {n} : y9.known[x] = y8.known[x]
    BY <1>a, <2>0, <2>1, <2>2 DEF NetsOn
  <2>4. y9 \in NetsOn(E)
    BY <1>a, <2>0, <2>2, <2>3 DEF NetsOn
  <2>5. SameBut(y8, y9, {"known"})
    BY <2>0, <2>2 DEF NetsOn, SameBut
  <2> QED
    BY <2>3, <2>4, <2>5 DEF q
<1>h. /\ y8.known = y7.known /\ y9.params = y8.params /\ y9.tensor = y7.tensor /\ y9.dev = y7.dev
      /\ y9.fused = y7.fused /\ y9.ins = y7.ins /\ y9.outs = y7.outs /\ y9.layer = y7.layer
  <2>1. SameBut(y7, y8, {"params"}) /\ SameBut(y8, y9, {"known"})
    BY <1>g, <1>14
  <2> QED
    BY <2>1 DEF SameBut
<1>15. names = ParaNames(g, n, t)
  <2>1. y7.known[n] = g.known[n]
    BY <1>2, <1>d, <1>f
  <2> QED
    BY <1>12, <2>1 DEF names, ParaNames
<1>16. y9.params[n] = [p \in DOMAIN g.params[n] |->
                         IF p \in ParaNames(g, n, t) THEN c ELSE g.params[n][p]]
  <2>1. y7.params[n] = g.params[n]
    BY <1>2, <1>d, <1>f
  <2> QED
    BY <1>15, <1>g, <1>h, <2>1
<1>i. /\ \A x \in E \ {n} : y3.ins[x] = y2.ins[x]
      /\ y3.ins[n] = Only(y2.ins[n], Nodes \ {i})
  BY <1>7 DEF InputRemoved
<1>j. /\ \A x \in E \ {n} : y4.ins[x] = y3.ins[x] /\ y4.layer[x] = y3.layer[x]
      /\ y4.ins[n] = IF \E j \in Members(y3.ins[n]) : Name(j) = Name(c)
                     THEN y3.ins[n] ELSE Append(y3.ins[n], c)
  BY <1>8 DEF InputAdded
<1>k. /\ \A x \in E \ {c} : y6.ins[x] = y5.ins[x] /\ y6.layer[x] = y5.layer[x]
      /\ y6.ins[c] = IF \E j \in Members(y5.ins[c]) : Name(j) = Name(i)
                     THEN y5.ins[c] ELSE Append(y5.ins[c], i)
  BY <1>10 DEF InputAdded
<1>l. /\ \A x \in E \ {i} : y2.outs[x] = y1.outs[x] /\ y7.outs[x] = y6.outs[x]
      /\ y2.outs[i] = RemoveFirst(y1.outs[i], n) /\ y7.outs[i] = Append(y6.outs[i], c)
      /\ \A x \in E \ {c} : y5.outs[x] = y4.outs[x]
      /\ y5.outs[c] = Append(y4.outs[c], n)
  BY <1>6, <1>9, <1>11 DEF OutputRemoved, OutputAdded
<1>17. y9.ins[c] = <<i>> /\ y9.outs[c] = <<n>>
  <2>1. y5.ins[c] = << >> /\ y4.outs[c] = << >>
    BY <1>2, <1>c, <1>f, <1>i, <1>j, <1>l
  <2>2. Append(<< >>, i) = <<i>> /\ Append(<< >>, n) = <<n>> /\ Members(<< >>) = {}
    BY MembersOf
  <2>3. y6.ins[c] = <<i>> /\ y5.outs[c] = <<n>>
    BY <1>k, <1>l, <2>1, <2>2
  <2>4. y7.outs[c] = y6.outs[c]
    BY <1>2, <1>l
  <2> QED
    BY <1>f, <1>h, <2>3, <2>4
<1>18. /\ y9.ins[n] = IF \E j \in Members(Only(g.ins[n], Nodes \ {i})) : Name(j) = Name(c)
                      THEN Only(g.ins[n], Nodes \ {i}) ELSE Append(Only(g.ins[n], Nodes \ {i}), c)
       /\ \A x \in D \ {n} : y9.ins[x] = g.ins[x] /\ y9.layer[x] = g.layer[x]
  <2>1. y3.ins[n] = Only(g.ins[n], Nodes \ {i})
    BY <1>2, <1>c, <1>f, <1>i
  <2>2. \A x \in D \ {n} : y3.ins[x] = g.ins[x] /\ y3.layer[x] = g.layer[x]
    BY <1>2, <1>c, <1>f, <1>i
  <2>3. \A x \in D : y9.ins[x] = y4.ins[x] /\ y9.layer[x] = y4.layer[x]
    BY <1>2, <1>f, <1>h, <1>k
  <2>4. y9.ins[n] = y4.ins[n]
    BY <1>2, <2>3
  <2>5. \A x \in D \ {n} : y4.ins[x] = y3.ins[x] /\ y4.layer[x] = y3.layer[x]
    BY <1>2, <1>j
  <2> QED
    BY <1>j, <2>1, <2>2, <2>3, <2>4, <2>5
<1>19. \A x \in D \ {n} : y9.params[x] = g.params[x] /\ y9.known[x] = g.known[x]
  BY <1>2, <1>d, <1>f, <1>g, <1>14, <1>h
<1>20. /\ y9.outs[i] = Append(RemoveFirst(g.outs[i], n), c)
       /\ \A x \in D \ {i} : y9.outs[x] = g.outs[x]
  <2>1. y4.outs[i] = RemoveFirst(g.outs[i], n)
    BY <1>2, <1>c, <1>f, <1>l
  <2>2. y6.outs[i] = y4.outs[i]
    BY <1>2, <1>f, <1>l
  <2>3. \A x \in D \ {i} : y9.outs[x] = g.outs[x]
    BY <1>2, <1>c, <1>f, <1>h, <1>l
  <2> QED
    BY <1>h, <1>l, <2>1, <2>2, <2>3
<1>21. /\ y9.params[c] = [in |-> t] /\ y9.known[c] = [in |-> t] /\ y9.known[n] = y9.params[n]
       /\ y9.tensor = y0.tensor /\ y9.dev = y1.dev /\ y9.fused = g.fused
  <2>1. c \in E \ {n}
    BY <1>2
  <2>2. y8.params[c] = y7.params[c] /\ y9.known[c] = y8.known[c] /\ y9.known[n] = y8.params[n]
    BY <1>g, <1>14, <2>1
  <2> QED
    BY <1>b, <1>d, <1>f, <1>h, <2>2
<1>22. /\ y9.tensor[c] = c /\ \A x \in D : y9.tensor[x] = g.tensor[x]
       /\ y9.dev[c] = d /\ \A x \in TensorsOf(D) : y9.dev[x] = g.dev[x]
  BY <1>5, <1>d, <1>21
<1>23. E = D \union {c} /\ E \in Domains /\ y9 \in NetsOn(E)
  BY <1>2, <1>14 DEF E
<1>24. Copied(D, g, y9, n, i, c)
  BY <1>16, <1>17, <1>18, <1>19, <1>20, <1>21, <1>22, <1>23 DEF t, d, Copied
<1> QED
  BY <1>1, <1>24 DEF c

-----------------------------------------------------------------------------
(* The pass that copies *)

AnyNet == UNION {NetsOn(D) : D \in Domains}

(* What the copies for n leave as it was.                                  *)
Kept(D, g, E, h, n) ==
    /\ D \subseteq E /\ h \in NetsOn(E) /\ h.fused = g.fused
    /\ \A x \in D : h.tensor[x] = g.tensor[x]
    /\ \A t \in TensorsOf(D) : h.dev[t] = g.dev[t]
    /\ \A x \in D \ {n} : /\ h.ins[x] = g.ins[x] /\ h.layer[x] = g.layer[x]
                          /\ h.params[x] = g.params[x] /\ h.known[x] = g.known[x]

(* CopyInputs as a loop: Q has what is known after each turn.              *)
LEMMA CopyLoop ==
    ASSUME NEW g \in AnyNet, NEW n \in ModelNodes, NEW list \in Seq(ModelNodes), g.ins[n] = list,
           NEW Q, <<0, g>> \in Q,
           \A k \in 1 .. Len(list), y \in AnyNet :
               <<k - 1, y>> \in Q => /\ CopyInput(y, n, list[k]) \in AnyNet
                                     /\ <<k, CopyInput(y, n, list[k])>> \in Q
    PROVE  <<Len(list), CopyInputs(g, n)>> \in Q /\ CopyInputs(g, n) \in AnyNet
<1> DEFINE m == Len(list)
           turn == [k \in 1 .. m |-> [y \in AnyNet |-> CopyInput(y, n, list[k])]]
           f == CHOOSE h : h = [k \in 0 .. m |->
                                 IF k = 0 THEN g ELSE CopyInput(h[k - 1], n, list[k])]
<1>0. m \in Nat
  OBVIOUS
<1>1. CopyInputs(g, n) = f[m]
  BY Zenon DEF CopyInputs
<1>2. \A k \in 1 .. m, y \in AnyNet : turn[k][y] = CopyInput(y, n, list[k])
  OBVIOUS
<1> HIDE DEF turn, m, f
<1>a. PICK h : Led(h, turn, m, g, AnyNet, Q)
  <2>1. Leads(turn, m, AnyNet, Q)
    BY <1>2 DEF m, Leads
  <2> QED
    BY <1>0, <2>1, Folding
<1>3. h \in [0 .. m -> AnyNet] /\ Follows(h, turn, m, g) /\ \A k \in 0 .. m : <<k, h[k]>> \in Q
  BY <1>a DEF Led
<1>4. h[0] = g /\ \A k \in 1 .. m : h[k] = CopyInput(h[k - 1], n, list[k])
  <2>1. \A k \in 1 .. m : k - 1 \in 0 .. m
    BY <1>0
  <2> QED
    BY <1>2, <1>3, <2>1 DEF Follows
<1>5. h = [k \in 0 .. m |-> IF k = 0 THEN g ELSE CopyInput(h[k - 1], n, list[k])]
  <2>1. \A k \in 0 .. m : h[k] = IF k = 0 THEN g ELSE CopyInput(h[k - 1], n, list[k])
    BY <1>0, <1>4
  <2> QED
    BY <1>3, <2>1
<1>6. f = [k \in 0 .. m |-> IF k = 0 THEN g ELSE CopyInput(f[k - 1], n, list[k])]
  BY <1>5 DEF f
<1>7. f[0] = g /\ \A k \in 1 .. m : f[k] = CopyInput(f[k - 1], n, list[k])
  <2>1. \A k \in 0 .. m : f[k] = IF k = 0 THEN g ELSE CopyInput(f[k - 1], n, list[k])
    BY <1>6
  <2> QED
    BY <1>0, <2>1
<1>8. f[m] = h[m]
  <2> DEFINE R == {k \in 0 .. m : f[k] = h[k]}
             id == [k \in 0 .. m |-> k]
  <2>1. id[0] \in R
    BY <1>0, <1>4, <1>7
  <2>2. ASSUME NEW k \in 1 .. m, id[k - 1] \in R
        PROVE  id[k] \in R
    <3>1. k - 1 \in 0 .. m /\ k \in 0 .. m /\ f[k - 1] = h[k - 1]
      BY <1>0, <2>2
    <3> QED
      BY <1>4, <1>7, <3>1
  <2>3. \A k \in 0 .. m : id[k] \in R
    <3> HIDE DEF R, id
    <3> QED
      BY <1>0, <2>1, <2>2, LoopInvariant
  <2>4. m \in 0 .. m
    BY <1>0
  <2> QED
    BY <2>3, <2>4
<1>9. m \in 0 .. m
  BY <1>0
<1> QED
  BY <1>1, <1>3, <1>8, <1>9 DEF m

(* The copies there may be of the inputs of n.                             *)
CopiesOf(s, n) == {<<"copy", n, i>> : i \in MI(s, n)}

LEMMA CopiesKept ==
    ASSUME NEW s, NEW D \in Domains, NEW g \in NetsOn(D), NEW n \in ModelNodes,
           g.ins[n] = ModelInputs(s, n), CopiesOf(s, n) \cap D = {}
    PROVE  \E E \in Domains : Kept(D, g, E, CopyInputs(g, n), n) /\ E \subseteq D \union CopiesOf(s, n)
<1> DEFINE list == ModelInputs(s, n)
           Copies(k) == {<<"copy", n, list[j]>> : j \in 1 .. k}
           Known(y, k) == \E E \in Domains : Kept(D, g, E, y, n) /\ E \subseteq D \union Copies(k)
           Q == {q \in Nat \X AnyNet : Known(q[2], q[1])}
<1>1. list \in Seq(ModelNodes) /\ Len(list) \in Nat /\ DOMAIN list = 1 .. Len(list) /\ Distinct(list)
  BY InputsIn, InputsOnce
<1>2. \A k \in 1 .. Len(list) : list[k] \in MI(s, n) /\ list[k] \in ModelNodes /\ list[k] # n
  BY <1>1, InputsOnce DEF MI, Members
<1>3. g \in AnyNet /\ n \in D
  BY DEF AnyNet, Domains
<1>4. Kept(D, g, D, g, n)
  BY DEF Kept
<1> HIDE DEF list
<1>5. <<0, g>> \in Q
  <2>1. Known(g, 0)
    BY <1>4
  <2> QED
    BY <1>3, <2>1
<1>6. ASSUME NEW k \in 1 .. Len(list), NEW y \in AnyNet, <<k - 1, y>> \in Q
      PROVE  CopyInput(y, n, list[k]) \in AnyNet /\ <<k, CopyInput(y, n, list[k])>> \in Q
  <2> DEFINE i == list[k]
             c == <<"copy", n, i>>
             h == CopyInput(y, n, i)
  <2>0. k \in Nat /\ k - 1 \in Nat /\ i \in ModelNodes /\ i # n /\ i \in MI(s, n)
    BY <1>1, <1>2
  <2>1. PICK E \in Domains : Kept(D, g, E, y, n) /\ E \subseteq D \union Copies(k - 1)
    BY <1>6
  <2>2. y \in NetsOn(E) /\ D \subseteq E
    BY <2>1 DEF Kept
  <2>3. Copies(k) = Copies(k - 1) \union {c}
    BY <2>0
  <2>4. CASE Device(y, n) = Device(y, i) \/ Op(i) = "MEM_REF"
    <3>1. h = y
      BY <2>4 DEF CopyInput
    <3>2. Known(y, k)
      BY <2>1, <2>3
    <3> QED
      BY <2>0, <3>1, <3>2
  <2>5. CASE ~ (Device(y, n) = Device(y, i) \/ Op(i) = "MEM_REF")
    <3>1. c \notin E
      <4>1. c \notin D
        BY <2>0 DEF CopiesOf
      <4>2. ASSUME NEW j \in 1 .. k - 1, c = <<"copy", n, list[j]>>
            PROVE  FALSE
        <5>1. list[j] = list[k] /\ j \in DOMAIN list /\ k \in DOMAIN list /\ j # k
          BY <1>1, <4>2
        <5> QED
          BY <1>1, <5>1 DEF Distinct
      <4> QED
        BY <2>1, <4>1, <4>2
    <3>2. Copied(E, y, h, n, i, c)
      BY <2>0, <2>2, <2>5, <3>1, CopyInputIs
    <3> HIDE DEF h, c, i
    <3>3. E \union {c} \in Domains /\ h \in NetsOn(E \union {c}) /\ h.fused = y.fused
          /\ (\A x \in E : h.tensor[x] = y.tensor[x]) /\ (\A t \in TensorsOf(E) : h.dev[t] = y.dev[t])
      BY <3>2 DEF Copied
    <3>4. \A x \in E \ {n} : /\ h.ins[x] = y.ins[x] /\ h.layer[x] = y.layer[x]
                             /\ h.params[x] = y.params[x] /\ h.known[x] = y.known[x]
      BY <3>2 DEF Copied
    <3>5. TensorsOf(D) \subseteq TensorsOf(E)
      BY <2>2 DEF TensorsOf
    <3>6. Kept(D, g, E \union {c}, h, n)
      BY <2>1, <3>3, <3>4, <3>5 DEF Kept
    <3>7. E \union {c} \subseteq D \union Copies(k)
      BY <2>1, <2>3
    <3>8. Known(h, k) /\ h \in AnyNet
      BY <3>3, <3>6, <3>7 DEF AnyNet
    <3> QED
      BY <2>0, <3>8 DEF h, i
  <2> QED
    BY <2>4, <2>5
<1>7. <<Len(list), CopyInputs(g, n)>> \in Q
  <2>1. g.ins[n] = list
    BY DEF list
  <2> HIDE DEF Q
  <2> QED
    BY <1>1, <1>3, <1>5, <1>6, <2>1, CopyLoop
<1>8. Copies(Len(list)) \subseteq CopiesOf(s, n)
  BY <1>2 DEF CopiesOf
<1>9. Known(CopyInputs(g, n), Len(list))
  BY <1>7
<1> QED
  BY <1>8, <1>9

-----------------------------------------------------------------------------
(* From the build to the copies *)

(* A tensor of the model that is meant for a GPU is there, and a node of   *)
(* the model computes the tensor that it is meant to.                      *)
Placed ==
    /\ \A t \in ModelTensors : ModelDevice(setting, t) # CPU => net.dev[t] = ModelDevice(setting, t)
    /\ \A n \in ModelNodes : net.tensor[n] = TensorOf(setting, n)

Untouched(n) ==
    /\ net.ins[n] = ModelInputs(setting, n) /\ net.layer[n] = ModelLayer(n)
    /\ net.params[n] = ModelParams(setting, n) /\ net.known[n] = ModelParams(setting, n)

(* Before the copies the net is the model's, but for output lists and the  *)
(* devices of tensors that are meant for none.                             *)
Early ==
    /\ Dom = ModelNodes /\ net \in NetsOn(Dom) /\ Lists3 /\ net.fused = {}
    /\ Placed /\ \A n \in ModelNodes : Untouched(n)

(* What has been built has the nodes that store values, and with a node    *)
(* its inputs, which list it.                                              *)
Whole ==
    /\ Distinct(order) /\ Logits \in Members(order)
    /\ \A n \in Members(order) : \A i \in Inputs(n) : i \in Members(order) /\ n \in Members(net.outs[i])
    /\ \A l \in Layers : <<"sv", l>> \in Members(order)

LEMMA StartEarly ==
    ASSUME NEW s \in Settings
    PROVE  LET g == ModelNet(s)
           IN  /\ DOMAIN g.ins = ModelNodes /\ g \in NetsOn(ModelNodes) /\ g.fused = {}
               /\ \A t \in ModelTensors : g.dev[t] = ModelDevice(s, t)
               /\ \A n \in ModelNodes : /\ g.tensor[n] = TensorOf(s, n)
                                        /\ g.ins[n] = ModelInputs(s, n) /\ g.layer[n] = ModelLayer(n)
                                        /\ g.params[n] = ModelParams(s, n)
                                        /\ g.known[n] = ModelParams(s, n)
<1>1. ModelNet(s) \in NetsOn(ModelNodes)
  BY ModelNetType
<1> QED
  BY <1>1 DEF ModelNet, ModelTensors

LEMMA WholeBuilt ==
    ASSUME Early, Calls, ListsBuilt, LogitsLast, stack = << >>
    PROVE  Whole
<1>1. /\ Logits \in Members(order) /\ Distinct(order)
      /\ \A n \in Members(order) : Inputs(n) \subseteq Members(order)
      /\ \A n \in Members(order) : \A i \in Inputs(n) : n \in Members(net.outs[i])
  BY BuiltClosed DEF Early, ListsBuilt
<1>2. \A n \in Members(order) : n \in ModelNodes
  BY DEF Early, Lists3, Members
<1>3. \A n \in Members(order) : Members(ModelInputs(setting, n)) \subseteq Members(order)
  BY <1>1, <1>2 DEF Early, Untouched, Inputs
<1>4. \A l \in Layers : <<"sv", l>> \in Members(order)
  BY <1>1, <1>3, Reached
<1> QED
  BY <1>1, <1>4 DEF Whole

(* Steps of build_graph keep all but the output lists.                     *)
LEMMA EarlyKept ==
    ASSUME Early, OnlyOuts, Lists3', setting' = setting
    PROVE  Early'
  BY DEF Early, OnlyOuts, Placed, Untouched

(* A tensor that is moved was on no GPU.                                   *)
LEMMA PlaceKeeps ==
    ASSUME Early, cur \in Int, walk # << >>, Place
    PROVE  Early' /\ cur' \in Int /\ net'.outs = net.outs /\ net'.ins = net.ins
<1> DEFINE n == Current
           t == net.tensor[n]
           h == [net EXCEPT !.dev[t] = cur]
<1>1. n \in Dom /\ walk' \in Seq(Dom)
  BY DEF Early, Lists3, Place, Current
<1>2. t \in TensorsOf(Dom) /\ net.dev \in [TensorsOf(Dom) -> Int]
  BY <1>1, NetParts DEF Early
<1>3. net' = net \/ (net' = h /\ net.dev[t] = CPU)
  BY DEF Place, PlaceNode, Device
<1>4. cur' \in Int
  BY <1>2 DEF Place, DeviceAfter, Device
<1> HIDE DEF n, t
<1>5. CASE net' = net
  BY <1>1, <1>4, <1>5 DEF Early, Lists3, Place, UnchangedLists, Dom, Placed, Untouched
<1>6. CASE net' = h /\ net.dev[t] = CPU
  <2>1. /\ h \in NetsOn(Dom) /\ h.ins = net.ins /\ h.outs = net.outs /\ h.layer = net.layer
        /\ h.params = net.params /\ h.known = net.known /\ h.tensor = net.tensor /\ h.fused = net.fused
        /\ h.dev = [net.dev EXCEPT ![t] = cur]
    BY <1>2 DEF Early, NetsOn
  <2>2. \A x \in TensorsOf(Dom) : net.dev[x] # CPU => h.dev[x] = net.dev[x]
    BY <1>2, <1>6, <2>1
  <2>3. ModelTensors \subseteq TensorsOf(Dom)
    BY DEF TensorsOf
  <2> HIDE DEF h
  <2>4. Dom' = Dom
    BY <1>6, <2>1 DEF Dom
  <2>5. Placed'
    BY <1>6, <2>1, <2>2, <2>3 DEF Placed, Early, Place, UnchangedLists
  <2>6. Lists3'
    BY <1>1, <2>4 DEF Lists3, Early, Place, UnchangedLists
  <2> QED
    BY <1>4, <1>6, <2>1, <2>4, <2>5, <2>6 DEF Early, Untouched, Place, UnchangedLists
<1> QED
  BY <1>3, <1>5, <1>6

-----------------------------------------------------------------------------
(* The devices of the layers *)

(* While copies are made: the nodes still to be visited are as the model   *)
(* has them, no copy was made for one of them, and the map is right where  *)
(* it is defined, which is where the node that stores values was visited.  *)
Copying ==
    /\ Dom \in Domains /\ net \in NetsOn(Dom) /\ Placed
    /\ walk \in Seq(ModelNodes) /\ Distinct(walk)
    /\ \A n \in Members(walk) : Untouched(n) /\ CopiesOf(setting, n) \cap Dom = {}
    /\ map = << >> \/ map = [l \in DOMAIN map |-> map[l]]
    /\ \A l \in DOMAIN map : l \in Layers /\ map[l] = BindDevice(setting.free, l)
    /\ \A l \in Layers : l \in DOMAIN map \/ <<"sv", l>> \in Members(walk)

LEMMA StoreNodes ==
    /\ \A n \in ModelNodes : Op(n) = "SET_ROWS" =>
           Kind(n) \in {"sk", "sv"} /\ n = <<Kind(n), n[2]>> /\ n[2] \in Layers /\ ModelLayer(n) = n[2]
    /\ \A l \in Layers : LET n == <<"sv", l>>
                         IN  n \in ModelNodes /\ Op(n) = "SET_ROWS" /\ n[2] = l
<1>1. ASSUME NEW n \in ModelNodes, Op(n) = "SET_ROWS"
      PROVE  Kind(n) \in {"sk", "sv"} /\ n = <<Kind(n), n[2]>> /\ n[2] \in Layers /\ ModelLayer(n) = n[2]
  <2>1. Kind(n) \in {"sk", "sv"}
    BY <1>1, OpsOf, NodeShape
  <2>2. n = <<Kind(n), n[2]>> /\ n[2] \in Layers
    BY <2>1, PlainForm
  <2>3. ModelLayer(n) = n[2]
    BY <2>1 DEF ModelLayer
  <2> QED
    BY <2>1, <2>2, <2>3
<1>2. ASSUME NEW l \in Layers
      PROVE  LET n == <<"sv", l>>
             IN  n \in ModelNodes /\ Op(n) = "SET_ROWS" /\ n[2] = l
  <2>1. <<"sv", l>> \in ModelNodes
    BY PlainNode DEF PlainKinds
  <2>2. Op(<<"sv", l>>) = "SET_ROWS"
    BY DEF Op, Kind, OpOf
  <2> QED
    BY <2>1, <2>2
<1> QED
  BY <1>1, <1>2

(* A node that stores keys or values is where its layer is bound to.       *)
LEMMA StoreDevice ==
    ASSUME Placed, setting \in Settings, NEW n \in ModelNodes, Op(n) = "SET_ROWS"
    PROVE  Device(net, n) = BindDevice(setting.free, n[2])
<1>1. Kind(n) \in {"sk", "sv"} /\ n = <<Kind(n), n[2]>> /\ n[2] \in Layers
  BY StoreNodes
<1>2. TensorOf(setting, n) = n
  BY <1>1, TensorList
<1>3. ModelDevice(setting, n) = BindDevice(setting.free, n[2]) /\ ModelDevice(setting, n) # CPU
  BY <1>1, ChainDevices DEF ChainKinds
<1>4. net.tensor[n] = n /\ net.dev[n] = ModelDevice(setting, n)
  BY <1>2, <1>3 DEF Placed, ModelTensors
<1> QED
  BY <1>3, <1>4 DEF Device

(* The list that is gone through loses its first node, which comes once.   *)
LEMMA WalkOn ==
    ASSUME NEW A, NEW w \in Seq(A), w # << >>
    PROVE  /\ Head(w) \in Members(w) /\ Head(w) \in A /\ Tail(w) \in Seq(A)
           /\ Members(w) = Members(Tail(w)) \union {Head(w)}
           /\ Distinct(w) => Distinct(Tail(w)) /\ Head(w) \notin Members(Tail(w))
<1>1. Len(w) \in Nat \ {0} /\ DOMAIN w = 1 .. Len(w) /\ Head(w) = w[1] /\ Head(w) \in A
  OBVIOUS
<1>2. /\ Tail(w) \in Seq(A) /\ Len(Tail(w)) = Len(w) - 1
      /\ DOMAIN Tail(w) = 1 .. Len(w) - 1
      /\ \A i \in 1 .. Len(w) - 1 : Tail(w)[i] = w[i + 1]
  OBVIOUS
<1> DEFINE t == Tail(w)
           m == Len(w)
<1> HIDE DEF t
<1>3. Members(w) = Members(t) \union {w[1]}
  <2>1. ASSUME NEW i \in 1 .. m
        PROVE  w[i] \in Members(t) \union {w[1]}
    <3>1. i = 1 \/ (i - 1 \in 1 .. m - 1 /\ (i - 1) + 1 = i)
      BY <1>1
    <3>2. i = 1 \/ t[i - 1] = w[i]
      BY <1>2, <3>1 DEF t
    <3> QED
      BY <1>2, <3>1, <3>2 DEF Members, t
  <2>2. ASSUME NEW i \in 1 .. m - 1
        PROVE  t[i] \in Members(w)
    <3>1. i + 1 \in 1 .. m /\ t[i] = w[i + 1]
      BY <1>1, <1>2 DEF t
    <3> QED
      BY <1>1, <3>1 DEF Members
  <2>3. w[1] \in Members(w)
    BY <1>1 DEF Members
  <2>4. DOMAIN t = 1 .. m - 1
    BY <1>2 DEF t
  <2> QED
    BY <1>1, <2>1, <2>2, <2>3, <2>4 DEF Members
<1>4. ASSUME Distinct(w)
      PROVE  Distinct(t) /\ w[1] \notin Members(t)
  <2>1. DOMAIN t = 1 .. m - 1 /\ \A i \in 1 .. m - 1 : t[i] = w[i + 1] /\ i + 1 \in DOMAIN w
    BY <1>1, <1>2 DEF t
  <2>2. \A i, j \in 1 .. m - 1 : i + 1 = j + 1 => i = j
    BY <1>1
  <2>3. Distinct(t)
    BY <1>4, <2>1, <2>2 DEF Distinct
  <2>4. \A i \in 1 .. m - 1 : i + 1 # 1
    BY <1>1
  <2>5. 1 \in DOMAIN w
    BY <1>1
  <2> QED
    BY <1>4, <2>1, <2>3, <2>4, <2>5 DEF Distinct, Members
<1> QED
  BY <1>1, <1>2, <1>3, <1>4 DEF t, Members

LEMMA CopyStep ==
    ASSUME Copying, setting \in Settings, Copy
    PROVE  Copying'
<1> DEFINE n == Current
<1>1. /\ n \in ModelNodes /\ n \in Members(walk) /\ walk' \in Seq(ModelNodes)
      /\ Members(walk) = Members(walk') \union {n} /\ Distinct(walk') /\ n \notin Members(walk')
  BY WalkOn DEF Copying, Copy, Current
<1>2. net' = CopyInputs(net, n) /\ setting' = setting
  BY DEF Copy, UnchangedLists
<1>3. map' = IF Op(n) = "SET_ROWS" THEN With(map, net.layer[n], Device(net, n)) ELSE map
  BY DEF Copy
<1> HIDE DEF n
<1>4. /\ net.ins[n] = ModelInputs(setting, n) /\ net.layer[n] = ModelLayer(n)
      /\ CopiesOf(setting, n) \cap Dom = {}
  BY <1>1 DEF Copying, Untouched
<1>5. PICK E \in Domains : Kept(Dom, net, E, net', n) /\ E \subseteq Dom \union CopiesOf(setting, n)
  <2>1. Dom \in Domains /\ net \in NetsOn(Dom)
    BY DEF Copying
  <2>2. \E E \in Domains : /\ Kept(Dom, net, E, CopyInputs(net, n), n)
                           /\ E \subseteq Dom \union CopiesOf(setting, n)
    BY <1>1, <1>4, <2>1, CopiesKept
  <2> QED
    BY <1>2, <2>2
<1>6. Dom' = E /\ net' \in NetsOn(E)
  BY <1>5 DEF Kept, Dom, NetsOn
<1>7. ModelNodes \subseteq Dom /\ ModelTensors \subseteq TensorsOf(Dom)
  BY DEF Copying, Domains, TensorsOf
<1>8. Placed'
  BY <1>2, <1>5, <1>7 DEF Kept, Placed, Copying
<1>9. ASSUME NEW m \in Members(walk')
      PROVE  Untouched(m)' /\ CopiesOf(setting', m) \cap Dom' = {}
  <2>1. m \in ModelNodes /\ m # n /\ m \in Members(walk)
    <3>1. \A q \in Seq(ModelNodes) : Members(q) \subseteq ModelNodes
      BY DEF Members
    <3> QED
      BY <1>1, <3>1
  <2>2. m \in Dom \ {n} /\ Untouched(m)
    BY <1>7, <2>1 DEF Copying
  <2>3. Untouched(m)'
    BY <1>2, <1>5, <2>2 DEF Kept, Untouched
  <2>4. CopiesOf(setting, m) \cap Dom = {}
    BY <2>1 DEF Copying
  <2>5. CopiesOf(setting, m) \cap CopiesOf(setting, n) = {}
    BY <2>1 DEF CopiesOf
  <2> QED
    BY <1>2, <1>5, <1>6, <2>3, <2>4, <2>5
<1>10. /\ map' = << >> \/ map' = [l \in DOMAIN map' |-> map'[l]]
       /\ \A l \in DOMAIN map' : l \in Layers /\ map'[l] = BindDevice(setting.free, l)
       /\ \A l \in Layers : l \in DOMAIN map' \/ <<"sv", l>> \in Members(walk')
  <2>1. CASE Op(n) = "SET_ROWS"
    <3>1. n = <<Kind(n), n[2]>> /\ n[2] \in Layers /\ ModelLayer(n) = n[2]
      BY <1>1, <2>1, StoreNodes
    <3>2. Device(net, n) = BindDevice(setting.free, n[2])
      BY <1>1, <2>1, StoreDevice DEF Copying
    <3>3. map' = With(map, n[2], BindDevice(setting.free, n[2]))
      BY <1>3, <1>4, <2>1, <3>1, <3>2
    <3>4. /\ DOMAIN map' = DOMAIN map \union {n[2]}
          /\ map' = [l \in DOMAIN map' |-> map'[l]]
          /\ \A l \in DOMAIN map' : map'[l] = IF l = n[2] THEN BindDevice(setting.free, n[2]) ELSE map[l]
      BY <3>3 DEF With
    <3>5. \A l \in Layers : <<"sv", l>> = n => l = n[2]
      OBVIOUS
    <3>6. \A l \in Layers : l \in DOMAIN map \/ <<"sv", l>> \in Members(walk)
      BY DEF Copying
    <3>7. \A l \in DOMAIN map : l \in Layers /\ map[l] = BindDevice(setting.free, l)
      BY DEF Copying
    <3> QED
      BY <1>1, <3>1, <3>4, <3>5, <3>6, <3>7
  <2>2. CASE Op(n) # "SET_ROWS"
    <3>1. \A l \in Layers : <<"sv", l>> # n
      BY <2>2, StoreNodes
    <3> QED
      BY <1>1, <1>3, <2>2, <3>1 DEF Copying
  <2> QED
    BY <2>1, <2>2
<1> QED
  BY <1>1, <1>2, <1>5, <1>6, <1>8, <1>9, <1>10 DEF Copying

(* The passes behind the copies change neither map nor setting.            *)
After == {"fuse", "recycle", "rebuild", "schedule", "done"}
Passes == {"create", "forward", "backward", "copy", "undefined"} \union After

GPUMap(s) == [l \in Layers |-> BindDevice(s.free, l)]

StoreInv ==
    /\ setting \in Settings /\ pass \in Passes
    /\ pass = "create" => Early /\ BuildOK
    /\ pass \in {"forward", "backward"} =>
           phase = "idle" /\ Early /\ Whole /\ map = << >> /\ cur \in Int
    /\ pass = "copy" => phase = "idle" /\ Copying
    /\ pass \in After => map = GPUMap(setting)

(* A graph that is made for a setting, before anything is built.           *)
LEMMA StoreStart ==
    ASSUME setting' \in Settings, net' = ModelNet(setting'), pass' = "create", phase' = "idle",
           order' = << >>, inner' = << >>, walk' = << >>
    PROVE  StoreInv'
<1>1. Dom' = ModelNodes /\ net' \in NetsOn(ModelNodes) /\ net'.fused = {}
  BY StartEarly DEF Dom
<1>2. Lists3'
  BY DEF Lists3
<1>3. Placed'
  BY StartEarly DEF Placed
<1>4. \A n \in ModelNodes : Untouched(n)'
  BY StartEarly DEF Untouched
<1>5. Early'
  BY <1>1, <1>2, <1>3, <1>4 DEF Early
<1>6. BuildOK'
  BY DEF BuildOK
<1> QED
  BY <1>5, <1>6 DEF StoreInv, Passes, After

LEMMA StoreInit ==
    ASSUME OptInit
    PROVE  StoreInv
<1>1. setting \in Settings /\ pass = "create" /\ phase = "idle"
  BY DEF OptInit
<1>2. Dom = ModelNodes /\ net \in NetsOn(ModelNodes) /\ net.fused = {}
  BY <1>1, StartEarly DEF Dom, OptInit
<1>3. Lists3
  BY DEF Lists3, OptInit
<1>4. Placed
  BY <1>1, StartEarly DEF Placed, OptInit
<1>5. \A n \in ModelNodes : Untouched(n)
  BY <1>1, StartEarly DEF Untouched, OptInit
<1>6. Early
  BY <1>2, <1>3, <1>4, <1>5 DEF Early
<1>7. BuildOK
  BY <1>1 DEF BuildOK
<1> QED
  BY <1>1, <1>6, <1>7 DEF StoreInv, Passes, After

(* A step of build_graph, of the first one or of the second.               *)
LEMMA StoreBuild ==
    ASSUME StoreInv, Build \/ Building
    PROVE  StoreInv'
<1>1. setting' = setting /\ pass' = pass /\ map' = map /\ walk' = walk /\ cur' = cur
  BY DEF Build, Building, optVars
<1>2. CASE pass = "create"
  <2>1. Early /\ BuildOK
    BY <1>2 DEF StoreInv
  <2>2. net \in NetsOn(Dom) /\ Dom \in Domains /\ walk \in Seq(Dom) /\ Lists3
    BY <2>1, NoCopy DEF Early, Lists3
  <2>3. CASE Build
    <3>1. OnlyOuts /\ Lists3' /\ BuildOK'
      BY <2>2, <2>3, StartStep
    <3> QED
      BY <1>1, <1>2, <2>1, <3>1, EarlyKept DEF StoreInv
  <2>4. CASE Visit
    <3>1. phase = "visit" /\ Calls /\ ListsBuilt /\ stack # << >> /\ UNCHANGED optVars
      BY <1>1, <1>2, <2>1, <2>4 DEF BuildOK, Visit, Descend, UseInput, Finish, Build, Building, BuildGraph
    <3>2. (OnlyOuts \/ UNCHANGED net) /\ Lists3' /\ BuildOK'
      BY <2>2, <2>4, <3>1, DescendStep, UseStep, FinishStep DEF Visit
    <3>3. OnlyOuts
      BY <2>2, <3>2 DEF OnlyOuts, Dom
    <3> QED
      BY <1>1, <1>2, <2>1, <3>2, <3>3, EarlyKept DEF StoreInv
  <2>5. CASE AnalyzeLifetimes
    <3>1. Early'
      BY <1>1, <2>1, <2>5 DEF AnalyzeLifetimes, Early, Dom, Lists3, Placed, Untouched
    <3>2. BuildOK'
      BY <1>1, <1>2, <2>1, <2>5 DEF AnalyzeLifetimes, BuildOK, Calls, ListsBuilt, LogitsLast, Dom,
                                    Open, Seen, Passed, Inputs
    <3> QED
      BY <1>1, <1>2, <3>1, <3>2 DEF StoreInv
  <2> QED
    BY <2>3, <2>4, <2>5 DEF Building
<1>3. CASE pass # "create"
  <2>1. pass \notin {"forward", "backward", "copy"}
    BY <1>3 DEF StoreInv, Build, Building, Visit, Descend, UseInput, Finish, AnalyzeLifetimes
  <2> QED
    BY <1>1, <1>3, <2>1 DEF StoreInv
<1> QED
  BY <1>2, <1>3

LEMMA StoreStartPlacing ==
    ASSUME StoreInv, StartPlacing
    PROVE  StoreInv'
<1>1. pass = "create" /\ phase = "built" /\ Early /\ BuildOK
  BY DEF StoreInv, StartPlacing
<1>2. Calls /\ ListsBuilt /\ LogitsLast /\ stack = << >>
  BY <1>1 DEF BuildOK
<1>3. Whole
  BY <1>1, <1>2, WholeBuilt
<1>4. /\ net' = net /\ order' = order /\ inner' = inner /\ walk' = order /\ setting' = setting
      /\ map' = << >> /\ pass' = "forward" /\ cur' = CPU /\ phase' = "idle"
  BY DEF StartPlacing
<1>5. Early'
  BY <1>1, <1>4 DEF Early, Lists3, Dom, Placed, Untouched
<1>6. Whole'
  BY <1>3, <1>4 DEF Whole, Inputs
<1> QED
  BY <1>4, <1>5, <1>6 DEF StoreInv, Passes, After, CPU

LEMMA StorePlace ==
    ASSUME StoreInv, Place
    PROVE  StoreInv'
<1>1. pass \in {"forward", "backward"} /\ walk # << >>
  BY DEF Place
<1>2. phase = "idle" /\ Early /\ Whole /\ map = << >> /\ cur \in Int
  BY <1>1 DEF StoreInv
<1>3. Early' /\ cur' \in Int /\ net'.outs = net.outs /\ net'.ins = net.ins
  BY <1>1, <1>2, PlaceKeeps
<1>4. order' = order /\ phase' = phase /\ pass' = pass /\ map' = map /\ setting' = setting
  BY DEF Place, UnchangedLists
<1>5. Whole'
  BY <1>2, <1>3, <1>4 DEF Whole, Inputs
<1> QED
  BY <1>1, <1>2, <1>3, <1>4, <1>5 DEF StoreInv

LEMMA StoreNextPass ==
    ASSUME StoreInv, NextPass
    PROVE  StoreInv'
<1>1. /\ walk = << >> /\ cur' = CPU /\ setting' = setting /\ map' = map /\ net' = net
      /\ order' = order /\ inner' = inner /\ phase' = phase
  BY DEF NextPass, vars
<1>2. CASE pass = "forward"
  <2>1. pass' = "backward" /\ walk' = Reverse(order)
    BY <1>2 DEF NextPass
  <2>2. phase = "idle" /\ Early /\ Whole /\ map = << >>
    BY <1>2 DEF StoreInv
  <2>3. \A A : order \in Seq(A) => Reverse(order) \in Seq(A)
    BY DEF Reverse
  <2>4. Early'
    BY <1>1, <2>1, <2>2, <2>3 DEF Early, Lists3, Dom, Placed, Untouched
  <2>5. Whole'
    BY <1>1, <2>2 DEF Whole, Inputs
  <2> QED
    BY <1>1, <2>1, <2>2, <2>4, <2>5 DEF StoreInv, Passes, After, CPU
<1>3. CASE pass = "backward"
  <2>1. pass' = "copy" /\ walk' = order
    BY <1>3 DEF NextPass
  <2>2. phase = "idle" /\ Early /\ Whole /\ map = << >>
    BY <1>3 DEF StoreInv
  <2>3. /\ Dom' = ModelNodes /\ Dom = ModelNodes /\ Dom' \in Domains
        /\ net' \in NetsOn(Dom') /\ walk' \in Seq(ModelNodes)
    BY <1>1, <2>1, <2>2, NoCopy DEF Early, Dom, Lists3
  <2>4. Placed' /\ \A n \in ModelNodes : Untouched(n)'
    BY <1>1, <2>2 DEF Early, Placed, Untouched
  <2>5. Distinct(walk') /\ Members(walk') \subseteq ModelNodes
    BY <2>1, <2>2, <2>3 DEF Whole, Members
  <2>6. \A n \in ModelNodes : CopiesOf(setting, n) \cap ModelNodes = {}
    BY NoCopy DEF CopiesOf, IsCopy, Kind
  <2>7. \A l \in Layers : <<"sv", l>> \in Members(walk')
    BY <2>1, <2>2 DEF Whole
  <2>8. \A l \in DOMAIN map' : FALSE
    BY <1>1, <2>2
  <2>9. Copying'
    BY <1>1, <2>2, <2>3, <2>4, <2>5, <2>6, <2>7, <2>8 DEF Copying
  <2> QED
    BY <1>1, <2>1, <2>2, <2>9 DEF StoreInv, Passes, After
<1>4. CASE pass = "copy"
  <2>1. pass' = "fuse" /\ Copying
    BY <1>4 DEF NextPass, StoreInv
  <2>2. Members(walk) = {}
    BY <1>1 DEF Members
  <2>3. DOMAIN map = Layers
    BY <2>1, <2>2 DEF Copying
  <2>4. 0 \in Layers
    BY LayersAssumption DEF Layers
  <2>5. map # << >>
    <3>1. DOMAIN << >> = {}
      OBVIOUS
    <3> QED
      BY <2>3, <2>4, <3>1
  <2>6. map = [l \in Layers |-> map[l]] /\ \A l \in Layers : map[l] = BindDevice(setting.free, l)
    BY <2>1, <2>3, <2>5 DEF Copying
  <2>7. map = GPUMap(setting)
    BY <2>6 DEF GPUMap
  <2> QED
    BY <1>1, <2>1, <2>7 DEF StoreInv, Passes, After
<1>5. CASE pass \in After
  <2>1. pass' \in After
    BY <1>5 DEF NextPass, After
  <2> QED
    BY <1>1, <1>5, <2>1 DEF StoreInv, Passes, After
<1> QED
  BY <1>2, <1>3, <1>4, <1>5 DEF NextPass, After

LEMMA StoreStep ==
    ASSUME StoreInv, [OptNext]_allVars
    PROVE  StoreInv'
<1>1. CASE Build \/ Building
  BY <1>1, StoreBuild
<1>2. CASE StartPlacing
  BY <1>2, StoreStartPlacing
<1>3. CASE Place
  BY <1>3, StorePlace
<1>4. CASE Copy
  <2>1. pass = "copy" /\ phase = "idle" /\ Copying /\ setting \in Settings
    BY <1>4 DEF Copy, StoreInv
  <2>2. Copying'
    BY <1>4, <2>1, CopyStep
  <2>3. pass' = pass /\ phase' = phase /\ setting' = setting
    BY <1>4 DEF Copy, UnchangedLists
  <2> QED
    BY <2>1, <2>2, <2>3 DEF StoreInv, Passes, After
<1>5. CASE Fuse \/ KeepNode \/ Recycle \/ Schedule
  <2>1. pass \in After /\ pass' \in After \union {"undefined"} /\ map' = map /\ setting' = setting
    BY <1>5 DEF Fuse, KeepNode, Recycle, Schedule, UnchangedLists, After
  <2> QED
    BY <2>1 DEF StoreInv, Passes, After
<1>6. CASE NextPass
  BY <1>6, StoreNextPass
<1>7. CASE NextToken
  <2>1. setting \in Settings /\ setting' = [setting EXCEPT !.decode = TRUE]
    BY <1>7 DEF NextToken, StoreInv
  <2>2. setting' \in Settings
    BY <2>1 DEF Settings
  <2> QED
    BY <1>7, <2>2, StoreStart DEF NextToken
<1>8. CASE UNCHANGED allVars
  <2>1. UNCHANGED vars /\ UNCHANGED optVars
    BY <1>8 DEF allVars
  <2>2. /\ net' = net /\ order' = order /\ inner' = inner /\ uses' = uses /\ stack' = stack
        /\ phase' = phase /\ setting' = setting /\ pass' = pass /\ walk' = walk /\ cur' = cur
        /\ map' = map
    BY <2>1 DEF vars, optVars
  <2>3. Dom' = Dom /\ Lists3' = Lists3 /\ Placed' = Placed
    BY <2>2 DEF Dom, Lists3, Placed
  <2>4. Early' = Early /\ Copying' = Copying
    BY <2>2, <2>3 DEF Early, Copying, Untouched
  <2>5. Whole' = Whole /\ LogitsLast' = LogitsLast
    BY <2>2 DEF Whole, LogitsLast, Inputs
  <2>6. Calls' = Calls
    BY <2>2, <2>3 DEF Calls, Open, Seen, Passed
  <2>7. ListsBuilt' = ListsBuilt
    BY <2>2 DEF ListsBuilt, Seen, Inputs
  <2>8. BuildOK' = BuildOK
    BY <2>2, <2>5, <2>6, <2>7 DEF BuildOK
  <2> QED
    BY <2>2, <2>4, <2>5, <2>8 DEF StoreInv
<1> QED
  BY <1>1, <1>2, <1>3, <1>4, <1>5, <1>6, <1>7, <1>8 DEF OptNext

(* Whatever the GPUs and their memory, a layer is bound to the device that *)
(* its keys and values are stored on when the pass that copies has ended.  *)
THEOREM StoreOnDevice == OptSpec => []StoreDevices
<1>1. OptInit => StoreInv
  BY StoreInit
<1>2. StoreInv /\ [OptNext]_allVars => StoreInv'
  BY StoreStep
<1>3. StoreInv => StoreDevices
  BY DEF StoreInv, StoreDevices, After, GPUMap
<1> QED
  BY <1>1, <1>2, <1>3, PTL DEF OptSpec

-----------------------------------------------------------------------------
(* Edits of links *)

Adding(q, m) == IF \E i \in Members(q) : Name(i) = Name(m) THEN q ELSE Append(q, m)
Dropping(q, m) == Only(q, Nodes \ {m})
Named(f, names, t) == [p \in DOMAIN f |-> IF p \in names THEN t ELSE f[p]]

(* The inputs of o become list and the outputs of all nodes outs.          *)
Relinked(D, f, h, o, list, outs) ==
    /\ h \in NetsOn(D) /\ SameBut(f, h, {"ins", "outs", "layer", "params"})
    /\ h.ins[o] = list /\ \A x \in D \ {o} : h.ins[x] = f.ins[x]
    /\ h.outs = outs

(* One turn of the loop in FuseMul, MergeInto and RecycleNode.             *)
MulTurn(f, n, o, mul) == RemoveInput(AddInput(AddOutput(f, n, o), o, n), o, mul)
MergeTurn(f, o, same, keep, t, u) ==
    AddOutput(RemoveOutput(
        AddInput(RemoveInput(SetParams(f, o, ParaNames(f, o, t), u), o, same), o, keep), same, o), keep, o)

OutMore(outs, n, m) == [outs EXCEPT ![n] = Append(@, m)]
OutLess(outs, n, m) == [outs EXCEPT ![n] = RemoveFirst(@, m)]

LEMMA OutsAfter ==
    ASSUME NEW D, NEW g \in NetsOn(D), NEW n \in D, NEW m
    PROVE  /\ AddOutput(g, n, m).outs = OutMore(g.outs, n, m)
           /\ RemoveOutput(g, n, m).outs = OutLess(g.outs, n, m)
  BY DEF AddOutput, RemoveOutput, NetsOn, OutMore, OutLess

LEMMA MulTurnIs ==
    ASSUME NEW D \in Domains, NEW f \in NetsOn(D), NEW n \in D, NEW o \in D, NEW mul
    PROVE  LET h == MulTurn(f, n, o, mul)
           IN  /\ Relinked(D, f, h, o, Dropping(Adding(f.ins[o], n), mul), OutMore(f.outs, n, o))
               /\ h.params = f.params
<1> DEFINE y1 == AddOutput(f, n, o)
           y2 == AddInput(y1, o, n)
           y3 == RemoveInput(y2, o, mul)
<1>1. OutputAdded(D, f, y1, n, o) /\ y1.outs = OutMore(f.outs, n, o)
  BY AddOutputIs, OutsAfter
<1> HIDE DEF y1
<1>2. y1 \in NetsOn(D) /\ SameBut(f, y1, {"outs"})
  BY <1>1 DEF OutputAdded
<1>3. InputAdded(D, y1, y2, o, n)
  BY <1>2, AddInputIs
<1> HIDE DEF y2
<1>4. /\ y2 \in NetsOn(D) /\ SameBut(y1, y2, {"ins", "layer"})
      /\ \A x \in D \ {o} : y2.ins[x] = y1.ins[x]
      /\ y2.ins[o] = Adding(y1.ins[o], n)
  BY <1>3 DEF InputAdded, Adding
<1>5. InputRemoved(D, y2, y3, o, mul)
  BY <1>4, RemoveInputIs
<1> HIDE DEF y3
<1>6. /\ y3 \in NetsOn(D) /\ SameBut(y2, y3, {"ins"}) /\ \A x \in D \ {o} : y3.ins[x] = y2.ins[x]
      /\ y3.ins[o] = Dropping(y2.ins[o], mul)
  BY <1>5 DEF InputRemoved, Dropping
<1>7. SameBut(f, y3, {"ins", "outs", "layer", "params"}) /\ y3.outs = y1.outs /\ y1.ins = f.ins
      /\ y3.params = f.params
  BY <1>2, <1>4, <1>6 DEF SameBut
<1>8. Relinked(D, f, y3, o, Dropping(Adding(f.ins[o], n), mul), OutMore(f.outs, n, o))
  BY <1>1, <1>4, <1>6, <1>7 DEF Relinked
<1> QED
  BY <1>7, <1>8 DEF y1, y2, y3, MulTurn

(* The parameters of n that ReplaceInput gives the tensor of the new input.*)
ReplacedNames(g, n, new, old) ==
    IF g.ins[new] = << >> THEN ParaNames(g, old, g.tensor[new]) ELSE ParaNames(g, n, g.tensor[old])

LEMMA ReplaceInputIs ==
    ASSUME NEW D \in Domains, NEW g \in NetsOn(D), NEW n \in D, NEW new \in D, NEW old \in D
    PROVE  LET h == ReplaceInput(g, n, new, old)
           IN  /\ Relinked(D, g, h, n, Adding(Dropping(g.ins[n], old), new),
                           OutMore(OutLess(g.outs, old, n), new, n))
               /\ \E names : h.params[n] = Named(g.params[n], names, g.tensor[new])
               /\ new # n => h.params[n] = Named(g.params[n], ReplacedNames(g, n, new, old), g.tensor[new])
               /\ \A x \in D \ {n} : h.params[x] = g.params[x]
<1> DEFINE y1 == RemoveInput(g, n, old)
           y2 == RemoveOutput(y1, old, n)
           y3 == AddInput(y2, n, new)
           y4 == AddOutput(y3, new, n)
           t == g.tensor[new]
           names == IF y4.ins[new] = << >> THEN ParaNames(y4, old, t) ELSE ParaNames(y4, n, g.tensor[old])
           y5 == SetParams(y4, n, names, t)
<1>0. ReplaceInput(g, n, new, old) = y5
  BY DEF ReplaceInput
<1>1. InputRemoved(D, g, y1, n, old)
  BY RemoveInputIs
<1> HIDE DEF y1
<1>2. /\ y1 \in NetsOn(D) /\ SameBut(g, y1, {"ins"}) /\ \A x \in D \ {n} : y1.ins[x] = g.ins[x]
      /\ y1.ins[n] = Dropping(g.ins[n], old)
  BY <1>1 DEF InputRemoved, Dropping
<1>3. OutputRemoved(D, y1, y2, old, n) /\ y2.outs = OutLess(y1.outs, old, n)
  BY <1>2, RemoveOutputIs, OutsAfter
<1> HIDE DEF y2
<1>4. y2 \in NetsOn(D) /\ SameBut(y1, y2, {"outs"})
  BY <1>3 DEF OutputRemoved
<1>5. InputAdded(D, y2, y3, n, new)
  BY <1>4, AddInputIs
<1> HIDE DEF y3
<1>6. /\ y3 \in NetsOn(D) /\ SameBut(y2, y3, {"ins", "layer"})
      /\ \A x \in D \ {n} : y3.ins[x] = y2.ins[x]
      /\ y3.ins[n] = Adding(y2.ins[n], new)
  BY <1>5 DEF InputAdded, Adding
<1>7. OutputAdded(D, y3, y4, new, n) /\ y4.outs = OutMore(y3.outs, new, n)
  BY <1>6, AddOutputIs, OutsAfter
<1> HIDE DEF y4
<1>8. y4 \in NetsOn(D) /\ SameBut(y3, y4, {"outs"})
  BY <1>7 DEF OutputAdded
<1>9. t \in TensorsOf(D)
  BY NetParts
<1> HIDE DEF t, names
<1>10. ParamsSet(D, y4, y5, n, names, t)
  BY <1>8, <1>9, SetParamsIs
<1> HIDE DEF y5
<1>11. /\ y5 \in NetsOn(D) /\ SameBut(y4, y5, {"params"})
       /\ \A x \in D \ {n} : y5.params[x] = y4.params[x]
       /\ y5.params[n] = Named(y4.params[n], names, t)
  BY <1>10 DEF ParamsSet, Named
<1>12. /\ SameBut(g, y5, {"ins", "outs", "layer", "params"}) /\ y5.outs = y4.outs /\ y3.outs = y2.outs
       /\ y1.outs = g.outs /\ y5.ins = y3.ins /\ y2.ins = y1.ins /\ y4.params = g.params
       /\ y4.ins = y3.ins
  BY <1>2, <1>4, <1>6, <1>8, <1>11 DEF SameBut
<1>13. y5.outs = OutMore(OutLess(g.outs, old, n), new, n)
  BY <1>3, <1>7, <1>12
<1>14. y5.ins[n] = Adding(Dropping(g.ins[n], old), new) /\ \A x \in D \ {n} : y5.ins[x] = g.ins[x]
  BY <1>2, <1>6, <1>12
<1>15. ASSUME new # n PROVE names = ReplacedNames(g, n, new, old)
  <2>1. y4.ins[new] = g.ins[new]
    BY <1>12, <1>14, <1>15
  <2>2. y4.known = g.known
    BY <1>2, <1>4, <1>6, <1>8 DEF SameBut
  <2>3. ParaNames(y4, old, t) = ParaNames(g, old, t)
        /\ ParaNames(y4, n, g.tensor[old]) = ParaNames(g, n, g.tensor[old])
    BY <2>2 DEF ParaNames
  <2> QED
    BY <2>1, <2>3 DEF ReplacedNames, names, t
<1>16. new # n => y5.params[n] = Named(g.params[n], ReplacedNames(g, n, new, old), t)
  BY <1>11, <1>12, <1>15
<1> QED
  BY <1>0, <1>11, <1>12, <1>13, <1>14, <1>16 DEF Relinked, t

LEMMA MergeTurnIs ==
    ASSUME NEW D \in Domains, NEW f \in NetsOn(D), NEW o \in D, NEW same \in D, NEW keep \in D,
           NEW t, NEW u \in TensorsOf(D)
    PROVE  LET h == MergeTurn(f, o, same, keep, t, u)
           IN  /\ Relinked(D, f, h, o, Adding(Dropping(f.ins[o], same), keep),
                           OutMore(OutLess(f.outs, same, o), keep, o))
               /\ h.params[o] = Named(f.params[o], ParaNames(f, o, t), u)
               /\ \A x \in D \ {o} : h.params[x] = f.params[x]
<1> DEFINE names == ParaNames(f, o, t)
           y1 == SetParams(f, o, names, u)
           y2 == RemoveInput(y1, o, same)
           y3 == AddInput(y2, o, keep)
           y4 == RemoveOutput(y3, same, o)
           y5 == AddOutput(y4, keep, o)
<1>0. MergeTurn(f, o, same, keep, t, u) = y5
  BY DEF MergeTurn
<1> HIDE DEF names
<1>1. ParamsSet(D, f, y1, o, names, u)
  BY SetParamsIs
<1> HIDE DEF y1
<1>2. /\ y1 \in NetsOn(D) /\ SameBut(f, y1, {"params"})
      /\ \A x \in D \ {o} : y1.params[x] = f.params[x]
      /\ y1.params[o] = Named(f.params[o], names, u)
  BY <1>1 DEF ParamsSet, Named
<1>3. InputRemoved(D, y1, y2, o, same)
  BY <1>2, RemoveInputIs
<1> HIDE DEF y2
<1>4. /\ y2 \in NetsOn(D) /\ SameBut(y1, y2, {"ins"}) /\ \A x \in D \ {o} : y2.ins[x] = y1.ins[x]
      /\ y2.ins[o] = Dropping(y1.ins[o], same)
  BY <1>3 DEF InputRemoved, Dropping
<1>5. InputAdded(D, y2, y3, o, keep)
  BY <1>4, AddInputIs
<1> HIDE DEF y3
<1>6. /\ y3 \in NetsOn(D) /\ SameBut(y2, y3, {"ins", "layer"})
      /\ \A x \in D \ {o} : y3.ins[x] = y2.ins[x]
      /\ y3.ins[o] = Adding(y2.ins[o], keep)
  BY <1>5 DEF InputAdded, Adding
<1>7. OutputRemoved(D, y3, y4, same, o) /\ y4.outs = OutLess(y3.outs, same, o)
  BY <1>6, RemoveOutputIs, OutsAfter
<1> HIDE DEF y4
<1>8. y4 \in NetsOn(D) /\ SameBut(y3, y4, {"outs"})
  BY <1>7 DEF OutputRemoved
<1>9. OutputAdded(D, y4, y5, keep, o) /\ y5.outs = OutMore(y4.outs, keep, o)
  BY <1>8, AddOutputIs, OutsAfter
<1> HIDE DEF y5
<1>10. y5 \in NetsOn(D) /\ SameBut(y4, y5, {"outs"})
  BY <1>9 DEF OutputAdded
<1>11. /\ SameBut(f, y5, {"ins", "outs", "layer", "params"}) /\ y5.params = y1.params
       /\ y3.outs = f.outs /\ y5.ins = y3.ins /\ y1.ins = f.ins
  BY <1>2, <1>4, <1>6, <1>8, <1>10 DEF SameBut
<1>12. y5.outs = OutMore(OutLess(f.outs, same, o), keep, o)
  BY <1>7, <1>9, <1>11
<1>13. y5.ins[o] = Adding(Dropping(f.ins[o], same), keep) /\ \A x \in D \ {o} : y5.ins[x] = f.ins[x]
  BY <1>4, <1>6, <1>11
<1> QED
  BY <1>0, <1>2, <1>10, <1>11, <1>12, <1>13 DEF Relinked, names

(* What Node::fuse does.                                                   *)
Taken(D, g, h, n, m) ==
    /\ h \in NetsOn(D) /\ SameBut(g, h, {"fused", "params"}) /\ h.fused = g.fused \union {m}
    /\ \A x \in D \ {n} : h.params[x] = g.params[x]
    /\ h.params[n] = [p \in DOMAIN g.params[m] \union DOMAIN g.params[n] |->
                        IF p \in DOMAIN g.params[m] THEN g.params[m][p] ELSE g.params[n][p]]

LEMMA TakeParamsIs ==
    ASSUME NEW D, NEW g \in NetsOn(D), NEW n \in D, NEW m \in D
    PROVE  Taken(D, g, TakeParams(g, n, m), n, m)
<1> DEFINE f == [p \in DOMAIN g.params[m] \union DOMAIN g.params[n] |->
                   IF p \in DOMAIN g.params[m] THEN g.params[m][p] ELSE g.params[n][p]]
           h == [g EXCEPT !.fused = @ \union {m}, !.params[n] = f]
<1>1. TakeParams(g, n, m) = h
  BY DEF TakeParams
<1>2. f \in ParamsIn(TensorsOf(D))
  <2>1. g.params[n] \in ParamsIn(TensorsOf(D)) /\ g.params[m] \in ParamsIn(TensorsOf(D))
    BY NetParts
  <2>2. /\ DOMAIN g.params[n] \subseteq Names /\ \A p \in DOMAIN g.params[n] : g.params[n][p] \in TensorsOf(D)
        /\ DOMAIN g.params[m] \subseteq Names /\ \A p \in DOMAIN g.params[m] : g.params[m][p] \in TensorsOf(D)
    BY <2>1, ParamsForm
  <2>3. f = [p \in DOMAIN f |-> f[p]] /\ DOMAIN f \subseteq Names /\ \A p \in DOMAIN f : f[p] \in TensorsOf(D)
    BY <2>2
  <2> HIDE DEF f
  <2> QED
    BY <2>3, ParamsFrom
<1> HIDE DEF f
<1>3. h.params \in [D -> ParamsIn(TensorsOf(D))] /\ h.fused \in SUBSET D
  BY <1>2 DEF NetsOn
<1>4. h \in NetsOn(D) /\ SameBut(g, h, {"fused", "params"}) /\ h.fused = g.fused \union {m}
  BY <1>3 DEF NetsOn, SameBut
<1>5. (\A x \in D \ {n} : h.params[x] = g.params[x]) /\ h.params[n] = f
  BY DEF NetsOn
<1> QED
  BY <1>1, <1>4, <1>5 DEF f, Taken

-----------------------------------------------------------------------------
(* The loops of the passes.  What holds of the state before the first turn *)
(* (in S), paired with 0 (in Q), and is kept by each turn, holds of the    *)
(* state after the last.                                                   *)

MulStart(g, n, mul) == RemoveOutput([TakeParams(g, n, mul) EXCEPT !.tensor[n] = g.tensor[mul]], n, mul)

LEMMA MulLoop ==
    ASSUME NEW S, NEW Q, NEW g, NEW n, NEW mul, NEW readers, readers = Unfused(g, g.outs[mul]),
           NEW m \in Nat, m = Len(readers),
           MulStart(g, n, mul) \in S, <<0, MulStart(g, n, mul)>> \in Q,
           \A k \in 1 .. m, y \in S :
               <<k - 1, y>> \in Q => /\ MulTurn(y, n, readers[k], mul) \in S
                                     /\ <<k, MulTurn(y, n, readers[k], mul)>> \in Q
    PROVE  FuseMul(g, n, mul) \in S /\ <<m, FuseMul(g, n, mul)>> \in Q
<1> DEFINE x == MulStart(g, n, mul)
           turn == [k \in 1 .. m |-> [y \in S |-> MulTurn(y, n, readers[k], mul)]]
           f == CHOOSE h : h = [k \in 0 .. m |-> IF k = 0 THEN x ELSE MulTurn(h[k - 1], n, readers[k], mul)]
<1>1. FuseMul(g, n, mul) = f[m]
  BY Zenon DEF FuseMul, MulStart, MulTurn
<1>2. \A k \in 1 .. m, y \in S : turn[k][y] = MulTurn(y, n, readers[k], mul)
  OBVIOUS
<1> HIDE DEF turn, f, x
<1>3. PICK h : Led(h, turn, m, x, S, Q)
  <2>1. Leads(turn, m, S, Q)
    BY <1>2 DEF Leads
  <2>2. x \in S /\ <<0, x>> \in Q
    BY DEF x
  <2> QED
    BY <2>1, <2>2, Folding
<1>4. h \in [0 .. m -> S] /\ Follows(h, turn, m, x) /\ \A k \in 0 .. m : <<k, h[k]>> \in Q
  BY <1>3 DEF Led
<1>5. h[0] = x /\ \A k \in 1 .. m : h[k] = MulTurn(h[k - 1], n, readers[k], mul)
  <2>1. \A k \in 1 .. m : k - 1 \in 0 .. m
    OBVIOUS
  <2> QED
    BY <1>2, <1>4, <2>1 DEF Follows
<1>6. h = [k \in 0 .. m |-> IF k = 0 THEN x ELSE MulTurn(h[k - 1], n, readers[k], mul)]
  <2>1. \A k \in 0 .. m : h[k] = IF k = 0 THEN x ELSE MulTurn(h[k - 1], n, readers[k], mul)
    BY <1>5
  <2> QED
    BY <1>4, <2>1
<1>7. f = [k \in 0 .. m |-> IF k = 0 THEN x ELSE MulTurn(f[k - 1], n, readers[k], mul)]
  BY <1>6 DEF f
<1>8. f[0] = x /\ \A k \in 1 .. m : f[k] = MulTurn(f[k - 1], n, readers[k], mul)
  <2>1. \A k \in 0 .. m : f[k] = IF k = 0 THEN x ELSE MulTurn(f[k - 1], n, readers[k], mul)
    BY <1>7
  <2>2. 0 \in 0 .. m /\ \A k \in 1 .. m : k \in 0 .. m /\ k # 0
    OBVIOUS
  <2> QED
    BY <2>1, <2>2
<1>9. f[m] = h[m]
  <2> DEFINE R == {k \in 0 .. m : f[k] = h[k]}
             id == [k \in 0 .. m |-> k]
  <2>1. id[0] \in R
    BY <1>5, <1>8
  <2>2. ASSUME NEW k \in 1 .. m, id[k - 1] \in R
        PROVE  id[k] \in R
    <3>1. k - 1 \in 0 .. m /\ k \in 0 .. m /\ f[k - 1] = h[k - 1]
      BY <2>2
    <3> QED
      BY <1>5, <1>8, <3>1
  <2>3. \A k \in 0 .. m : id[k] \in R
    <3> HIDE DEF R, id
    <3> QED
      BY <2>1, <2>2, LoopInvariant
  <2> QED
    BY <2>3
<1> QED
  BY <1>1, <1>4, <1>9

LEMMA RopeLoop ==
    ASSUME NEW S, NEW Q, NEW g, NEW n, NEW rope, NEW read, read = Unfused(g, g.ins[rope]),
           NEW m \in Nat, m = Len(read),
           TakeParams(g, n, rope) \in S, <<0, TakeParams(g, n, rope)>> \in Q,
           \A k \in 1 .. m, y \in S :
               <<k - 1, y>> \in Q => /\ ReplaceInput(y, n, read[k], rope) \in S
                                     /\ <<k, ReplaceInput(y, n, read[k], rope)>> \in Q
    PROVE  FuseRope(g, n, rope) \in S /\ <<m, FuseRope(g, n, rope)>> \in Q
<1> DEFINE x == TakeParams(g, n, rope)
           turn == [k \in 1 .. m |-> [y \in S |-> ReplaceInput(y, n, read[k], rope)]]
           f == CHOOSE h : h = [k \in 0 .. m |-> IF k = 0 THEN x ELSE ReplaceInput(h[k - 1], n, read[k], rope)]
<1>1. FuseRope(g, n, rope) = f[m]
  BY Zenon DEF FuseRope
<1>2. \A k \in 1 .. m, y \in S : turn[k][y] = ReplaceInput(y, n, read[k], rope)
  OBVIOUS
<1> HIDE DEF turn, f, x
<1>3. PICK h : Led(h, turn, m, x, S, Q)
  <2>1. Leads(turn, m, S, Q)
    BY <1>2 DEF Leads
  <2>2. x \in S /\ <<0, x>> \in Q
    BY DEF x
  <2> QED
    BY <2>1, <2>2, Folding
<1>4. h \in [0 .. m -> S] /\ Follows(h, turn, m, x) /\ \A k \in 0 .. m : <<k, h[k]>> \in Q
  BY <1>3 DEF Led
<1>5. h[0] = x /\ \A k \in 1 .. m : h[k] = ReplaceInput(h[k - 1], n, read[k], rope)
  <2>1. \A k \in 1 .. m : k - 1 \in 0 .. m
    OBVIOUS
  <2> QED
    BY <1>2, <1>4, <2>1 DEF Follows
<1>6. h = [k \in 0 .. m |-> IF k = 0 THEN x ELSE ReplaceInput(h[k - 1], n, read[k], rope)]
  <2>1. \A k \in 0 .. m : h[k] = IF k = 0 THEN x ELSE ReplaceInput(h[k - 1], n, read[k], rope)
    BY <1>5
  <2> QED
    BY <1>4, <2>1
<1>7. f = [k \in 0 .. m |-> IF k = 0 THEN x ELSE ReplaceInput(f[k - 1], n, read[k], rope)]
  BY <1>6 DEF f
<1>8. f[0] = x /\ \A k \in 1 .. m : f[k] = ReplaceInput(f[k - 1], n, read[k], rope)
  <2>1. \A k \in 0 .. m : f[k] = IF k = 0 THEN x ELSE ReplaceInput(f[k - 1], n, read[k], rope)
    BY <1>7
  <2>2. 0 \in 0 .. m /\ \A k \in 1 .. m : k \in 0 .. m /\ k # 0
    OBVIOUS
  <2> QED
    BY <2>1, <2>2
<1>9. f[m] = h[m]
  <2> DEFINE R == {k \in 0 .. m : f[k] = h[k]}
             id == [k \in 0 .. m |-> k]
  <2>1. id[0] \in R
    BY <1>5, <1>8
  <2>2. ASSUME NEW k \in 1 .. m, id[k - 1] \in R
        PROVE  id[k] \in R
    <3>1. k - 1 \in 0 .. m /\ k \in 0 .. m /\ f[k - 1] = h[k - 1]
      BY <2>2
    <3> QED
      BY <1>5, <1>8, <3>1
  <2>3. \A k \in 0 .. m : id[k] \in R
    <3> HIDE DEF R, id
    <3> QED
      BY <2>1, <2>2, LoopInvariant
  <2> QED
    BY <2>3
<1> QED
  BY <1>1, <1>4, <1>9

LEMMA RopesLoop ==
    ASSUME NEW S, NEW Q, NEW g, NEW n, NEW ropes, NEW m \in Nat, m = Len(ropes),
           g \in S, <<0, g>> \in Q,
           \A k \in 1 .. m, y \in S :
               <<k - 1, y>> \in Q => /\ FuseRope(y, n, ropes[k]) \in S
                                     /\ <<k, FuseRope(y, n, ropes[k])>> \in Q
    PROVE  FuseRopes(g, n, ropes) \in S /\ <<m, FuseRopes(g, n, ropes)>> \in Q
<1> DEFINE x == g
           turn == [k \in 1 .. m |-> [y \in S |-> FuseRope(y, n, ropes[k])]]
           f == CHOOSE h : h = [k \in 0 .. m |-> IF k = 0 THEN x ELSE FuseRope(h[k - 1], n, ropes[k])]
<1>1. FuseRopes(g, n, ropes) = f[m]
  BY Zenon DEF FuseRopes
<1>2. \A k \in 1 .. m, y \in S : turn[k][y] = FuseRope(y, n, ropes[k])
  OBVIOUS
<1> HIDE DEF turn, f, x
<1>3. PICK h : Led(h, turn, m, x, S, Q)
  <2>1. Leads(turn, m, S, Q)
    BY <1>2 DEF Leads
  <2>2. x \in S /\ <<0, x>> \in Q
    BY DEF x
  <2> QED
    BY <2>1, <2>2, Folding
<1>4. h \in [0 .. m -> S] /\ Follows(h, turn, m, x) /\ \A k \in 0 .. m : <<k, h[k]>> \in Q
  BY <1>3 DEF Led
<1>5. h[0] = x /\ \A k \in 1 .. m : h[k] = FuseRope(h[k - 1], n, ropes[k])
  <2>1. \A k \in 1 .. m : k - 1 \in 0 .. m
    OBVIOUS
  <2> QED
    BY <1>2, <1>4, <2>1 DEF Follows
<1>6. h = [k \in 0 .. m |-> IF k = 0 THEN x ELSE FuseRope(h[k - 1], n, ropes[k])]
  <2>1. \A k \in 0 .. m : h[k] = IF k = 0 THEN x ELSE FuseRope(h[k - 1], n, ropes[k])
    BY <1>5
  <2> QED
    BY <1>4, <2>1
<1>7. f = [k \in 0 .. m |-> IF k = 0 THEN x ELSE FuseRope(f[k - 1], n, ropes[k])]
  BY <1>6 DEF f
<1>8. f[0] = x /\ \A k \in 1 .. m : f[k] = FuseRope(f[k - 1], n, ropes[k])
  <2>1. \A k \in 0 .. m : f[k] = IF k = 0 THEN x ELSE FuseRope(f[k - 1], n, ropes[k])
    BY <1>7
  <2>2. 0 \in 0 .. m /\ \A k \in 1 .. m : k \in 0 .. m /\ k # 0
    OBVIOUS
  <2> QED
    BY <2>1, <2>2
<1>9. f[m] = h[m]
  <2> DEFINE R == {k \in 0 .. m : f[k] = h[k]}
             id == [k \in 0 .. m |-> k]
  <2>1. id[0] \in R
    BY <1>5, <1>8
  <2>2. ASSUME NEW k \in 1 .. m, id[k - 1] \in R
        PROVE  id[k] \in R
    <3>1. k - 1 \in 0 .. m /\ k \in 0 .. m /\ f[k - 1] = h[k - 1]
      BY <2>2
    <3> QED
      BY <1>5, <1>8, <3>1
  <2>3. \A k \in 0 .. m : id[k] \in R
    <3> HIDE DEF R, id
    <3> QED
      BY <2>1, <2>2, LoopInvariant
  <2> QED
    BY <2>3
<1> QED
  BY <1>1, <1>4, <1>9

Marked(g, same) == [g EXCEPT !.fused = @ \union {same}]
MergeStart(g, n, same) == RemoveOutput(RemoveInput(Marked(g, same), same, n), n, same)

LEMMA MergeLoop ==
    ASSUME NEW S, NEW g, NEW n, NEW keep, NEW same, NEW readers, 
           readers = Unfused(Marked(g, same), g.outs[same]),
           NEW m \in Nat, m = Len(readers), MergeStart(g, n, same) \in S,
           \A k \in 1 .. m, y \in S : MergeTurn(y, readers[k], same, keep, g.tensor[same], g.tensor[keep]) \in S
    PROVE  MergeInto(g, n, keep, same) \in S
<1> DEFINE x == MergeStart(g, n, same)
           turn == [k \in 1 .. m |-> [y \in S |-> MergeTurn(y, readers[k], same, keep, g.tensor[same], g.tensor[keep])]]
           f == CHOOSE h : h = [k \in 0 .. m |-> IF k = 0 THEN x ELSE MergeTurn(h[k - 1], readers[k], same, keep, g.tensor[same], g.tensor[keep])]
<1>1. MergeInto(g, n, keep, same) = f[m]
  BY Zenon DEF MergeInto, MergeStart, MergeTurn, Marked
<1>2. \A k \in 1 .. m, y \in S : turn[k][y] = MergeTurn(y, readers[k], same, keep, g.tensor[same], g.tensor[keep])
  OBVIOUS
<1> HIDE DEF turn, f, x
<1>3. Turns(turn, m, S)
  BY <1>2 DEF Turns
<1>4. PICK h : Runs(h, turn, m, x, S)
  BY <1>3, Loop DEF x
<1>5. h \in [0 .. m -> S] /\ h[0] = x /\ \A k \in 1 .. m : h[k] = turn[k][h[k - 1]]
  BY <1>4 DEF Runs
<1>6. h = [k \in 0 .. m |-> IF k = 0 THEN x ELSE MergeTurn(h[k - 1], readers[k], same, keep, g.tensor[same], g.tensor[keep])]
  <2>1. \A k \in 0 .. m : h[k] = IF k = 0 THEN x ELSE MergeTurn(h[k - 1], readers[k], same, keep, g.tensor[same], g.tensor[keep])
    <3> SUFFICES ASSUME NEW k \in 0 .. m, k # 0 PROVE h[k] = MergeTurn(h[k - 1], readers[k], same, keep, g.tensor[same], g.tensor[keep])
      BY <1>5
    <3>1. k \in 1 .. m /\ k - 1 \in 0 .. m
      OBVIOUS
    <3> QED
      BY <1>2, <1>5, <3>1
  <2> QED
    BY <1>5, <2>1
<1>7. f = [k \in 0 .. m |-> IF k = 0 THEN x ELSE MergeTurn(f[k - 1], readers[k], same, keep, g.tensor[same], g.tensor[keep])]
  BY <1>6 DEF f
<1>8. f[0] = x /\ \A k \in 1 .. m : f[k - 1] \in S => f[k] \in S
  <2>1. \A k \in 0 .. m : f[k] = IF k = 0 THEN x ELSE MergeTurn(f[k - 1], readers[k], same, keep, g.tensor[same], g.tensor[keep])
    BY <1>7
  <2>2. 0 \in 0 .. m /\ \A k \in 1 .. m : k \in 0 .. m /\ k # 0
    OBVIOUS
  <2> QED
    BY <2>1, <2>2
<1>9. m \in 0 .. m
  OBVIOUS
<1>10. x \in S
  BY DEF x
<1>11. \A k \in 0 .. m : f[k] \in S
  BY <1>8, <1>10, LoopInvariant
<1> QED
  BY <1>1, <1>9, <1>11

(* The first of the list os with the semantic key of the j-th.             *)
Alike(g, os, i, j) == i < j /\ SemanticKey(g, os[i]) = SemanticKey(g, os[j])
FirstAlike(g, os, j) ==
    CHOOSE i \in DOMAIN os : Alike(g, os, i, j) /\ \A k \in 1 .. i - 1 : ~ Alike(g, os, k, j)
SameTurn(g, y, n, os, j) ==
    IF \E i \in DOMAIN os : Alike(g, os, i, j) THEN MergeInto(y, n, os[FirstAlike(g, os, j)], os[j]) ELSE y

LEMMA FirstAlikeIs ==
    ASSUME NEW g, NEW os, Len(os) \in Nat, DOMAIN os = 1 .. Len(os), NEW j,
           \E i \in DOMAIN os : Alike(g, os, i, j)
    PROVE  FirstAlike(g, os, j) \in DOMAIN os /\ Alike(g, os, FirstAlike(g, os, j), j)
<1> DEFINE I == {i \in DOMAIN os : Alike(g, os, i, j)}
<1>1. I \subseteq Nat /\ I # {}
  OBVIOUS
<1>2. \E k \in I : \A z \in I : k <= z
  BY <1>1, Least
<1>3. \E k \in DOMAIN os : Alike(g, os, k, j) /\ \A z \in 1 .. k - 1 : ~ Alike(g, os, z, j)
  <2>1. PICK k \in I : \A z \in I : k <= z
    BY <1>2
  <2>2. k \in DOMAIN os /\ \A z \in 1 .. k - 1 : z \in DOMAIN os /\ ~ (k <= z)
    OBVIOUS
  <2> QED
    BY <2>1, <2>2
<1> QED
  BY <1>3 DEF FirstAlike

LEMMA SameLoop ==
    ASSUME NEW S, NEW g, NEW n, Len(g.outs[n]) \in Nat,
           g \in S,
           \A k \in 1 .. Len(g.outs[n]), y \in S :
               SameTurn(g, y, n, g.outs[n], k) \in S
    PROVE  FuseSame(g, n) \in S
<1> DEFINE m == Len(g.outs[n])
           x == g
           turn == [k \in 1 .. m |-> [y \in S |-> SameTurn(g, y, n, g.outs[n], k)]]
           f == CHOOSE h : h = [k \in 0 .. m |-> IF k = 0 THEN x ELSE SameTurn(g, h[k - 1], n, g.outs[n], k)]
<1>1. FuseSame(g, n) \in {g, f[m]}
  BY Zenon DEF FuseSame, SameTurn, FirstAlike, Alike
<1>2. \A k \in 1 .. m, y \in S : turn[k][y] = SameTurn(g, y, n, g.outs[n], k)
  OBVIOUS
<1> HIDE DEF turn, f, x
<1>3. Turns(turn, m, S)
  BY <1>2 DEF Turns
<1>4. PICK h : Runs(h, turn, m, x, S)
  BY <1>3, Loop DEF x
<1>5. h \in [0 .. m -> S] /\ h[0] = x /\ \A k \in 1 .. m : h[k] = turn[k][h[k - 1]]
  BY <1>4 DEF Runs
<1>6. h = [k \in 0 .. m |-> IF k = 0 THEN x ELSE SameTurn(g, h[k - 1], n, g.outs[n], k)]
  <2>1. \A k \in 0 .. m : h[k] = IF k = 0 THEN x ELSE SameTurn(g, h[k - 1], n, g.outs[n], k)
    <3> SUFFICES ASSUME NEW k \in 0 .. m, k # 0 PROVE h[k] = SameTurn(g, h[k - 1], n, g.outs[n], k)
      BY <1>5
    <3>1. k \in 1 .. m /\ k - 1 \in 0 .. m
      OBVIOUS
    <3> QED
      BY <1>2, <1>5, <3>1
  <2> QED
    BY <1>5, <2>1
<1>7. f = [k \in 0 .. m |-> IF k = 0 THEN x ELSE SameTurn(g, f[k - 1], n, g.outs[n], k)]
  BY <1>6 DEF f
<1>8. f[0] = x /\ \A k \in 1 .. m : f[k - 1] \in S => f[k] \in S
  <2>1. \A k \in 0 .. m : f[k] = IF k = 0 THEN x ELSE SameTurn(g, f[k - 1], n, g.outs[n], k)
    BY <1>7
  <2>2. 0 \in 0 .. m /\ \A k \in 1 .. m : k \in 0 .. m /\ k # 0
    OBVIOUS
  <2> QED
    BY <2>1, <2>2
<1>9. m \in 0 .. m
  OBVIOUS
<1>10. x \in S
  BY DEF x
<1>11. \A k \in 0 .. m : f[k] \in S
  BY <1>8, <1>10, LoopInvariant
<1> QED
  BY <1>1, <1>9, <1>11

RecycleStart(g, n, r) == AddInput(NewNode(g, r, g.tensor[n], g.tensor[n]), r, n)
RecycleTurn(f, n, r, c) == AddInput(RemoveInput([f EXCEPT !.layer[r] = f.layer[c]], c, n), c, r)

LEMMA RecycleLoop ==
    ASSUME NEW S, NEW g, NEW n, NEW r, r = <<"recycle", n>>,
           NEW m \in Nat, m = Len(g.outs[n]), RecycleStart(g, n, r) \in S,
           \A k \in 1 .. m, y \in S : RecycleTurn(y, n, r, g.outs[n][k]) \in S
    PROVE  RecycleNode(g, n) \in S
<1> DEFINE x == RecycleStart(g, n, r)
           turn == [k \in 1 .. m |-> [y \in S |-> RecycleTurn(y, n, r, g.outs[n][k])]]
           f == CHOOSE h : h = [k \in 0 .. m |-> IF k = 0 THEN x ELSE RecycleTurn(h[k - 1], n, r, g.outs[n][k])]
<1>1. RecycleNode(g, n) = f[m]
  BY Zenon DEF RecycleNode, RecycleStart, RecycleTurn
<1>2. \A k \in 1 .. m, y \in S : turn[k][y] = RecycleTurn(y, n, r, g.outs[n][k])
  OBVIOUS
<1> HIDE DEF turn, f, x
<1>3. Turns(turn, m, S)
  BY <1>2 DEF Turns
<1>4. PICK h : Runs(h, turn, m, x, S)
  BY <1>3, Loop DEF x
<1>5. h \in [0 .. m -> S] /\ h[0] = x /\ \A k \in 1 .. m : h[k] = turn[k][h[k - 1]]
  BY <1>4 DEF Runs
<1>6. h = [k \in 0 .. m |-> IF k = 0 THEN x ELSE RecycleTurn(h[k - 1], n, r, g.outs[n][k])]
  <2>1. \A k \in 0 .. m : h[k] = IF k = 0 THEN x ELSE RecycleTurn(h[k - 1], n, r, g.outs[n][k])
    <3> SUFFICES ASSUME NEW k \in 0 .. m, k # 0 PROVE h[k] = RecycleTurn(h[k - 1], n, r, g.outs[n][k])
      BY <1>5
    <3>1. k \in 1 .. m /\ k - 1 \in 0 .. m
      OBVIOUS
    <3> QED
      BY <1>2, <1>5, <3>1
  <2> QED
    BY <1>5, <2>1
<1>7. f = [k \in 0 .. m |-> IF k = 0 THEN x ELSE RecycleTurn(f[k - 1], n, r, g.outs[n][k])]
  BY <1>6 DEF f
<1>8. f[0] = x /\ \A k \in 1 .. m : f[k - 1] \in S => f[k] \in S
  <2>1. \A k \in 0 .. m : f[k] = IF k = 0 THEN x ELSE RecycleTurn(f[k - 1], n, r, g.outs[n][k])
    BY <1>7
  <2>2. 0 \in 0 .. m /\ \A k \in 1 .. m : k \in 0 .. m /\ k # 0
    OBVIOUS
  <2> QED
    BY <2>1, <2>2
<1>9. m \in 0 .. m
  OBVIOUS
<1>10. x \in S
  BY DEF x
<1>11. \A k \in 0 .. m : f[k] \in S
  BY <1>8, <1>10, LoopInvariant
<1> QED
  BY <1>1, <1>9, <1>11

-----------------------------------------------------------------------------
(* Operands at hand *)

(* What the model is given, and the node that reads it.                    *)
Given(i) == Kind(i) \in {"weight", "token"}
Owner(i) == IF Kind(i) = "token" THEN <<"embed", 0>> ELSE <<i[2], i[3]>>

(* Node m may read node i, or be given the tensor t, where it is.          *)
Fits(g, i, m) ==
    /\ ~ Given(m)
    /\ IF Given(i) THEN m = Owner(i) /\ Op(m) \in {"MUL", "MATMUL", "EMBEDDING"}
       ELSE Op(m) = "MEM_CPY" \/ Device(g, m) = Device(g, i)
Suits(g, t, m) == Op(m) = "MEM_CPY" \/ g.dev[t] = Device(g, m)

InsFit(g, L, m, list) == \A i \in Members(list) : i \in L /\ Fits(g, i, m)
OutsFit(g, L, i, list) == \A m \in Members(list) : m \in L /\ Fits(g, i, m)
ParamsFit(g, m, f) == \A p \in DOMAIN f : Suits(g, f[p], m)

(* The nodes in L read each other, where they are; with one GPU that holds *)
(* for all tensors they are given.                                         *)
AtHand(D, g, L, one) ==
    /\ g \in NetsOn(D) /\ L \subseteq D
    /\ \A m \in L : InsFit(g, L, m, g.ins[m])
    /\ \A m \in L : OutsFit(g, L, m, g.outs[m])
    /\ one => \A m \in L : ParamsFit(g, m, g.params[m])

SameDevices(D, g, h) == h.dev = g.dev /\ \A x \in D : Device(h, x) = Device(g, x)

LEMMA FitsKept ==
    ASSUME NEW D, NEW g, NEW h, SameDevices(D, g, h), NEW L, L \subseteq D, NEW m \in D
    PROVE  /\ \A i \in D : Fits(g, i, m) => Fits(h, i, m)
           /\ \A t : Suits(g, t, m) => Suits(h, t, m)
           /\ \A list : InsFit(g, L, m, list) => InsFit(h, L, m, list)
           /\ \A list : OutsFit(g, L, m, list) => OutsFit(h, L, m, list)
           /\ \A f : ParamsFit(g, m, f) => ParamsFit(h, m, f)
<1>1. \A i \in D, k \in D : Fits(g, i, k) => Fits(h, i, k)
  BY DEF SameDevices, Fits
<1>2. \A t : Suits(g, t, m) => Suits(h, t, m)
  BY DEF SameDevices, Suits
<1> QED
  BY <1>1, <1>2 DEF InsFit, OutsFit, ParamsFit

LEMMA Refit ==
    ASSUME NEW D, NEW g, NEW h \in NetsOn(D), NEW L, NEW one, AtHand(D, g, L, one), SameDevices(D, g, h),
           \A m \in L : InsFit(g, L, m, h.ins[m]),
           \A m \in L : OutsFit(g, L, m, h.outs[m]),
           one => \A m \in L : ParamsFit(g, m, h.params[m])
    PROVE  AtHand(D, h, L, one)
<1>1. L \subseteq D
  BY DEF AtHand
<1>2. ASSUME NEW m \in L
      PROVE  /\ InsFit(h, L, m, h.ins[m]) /\ OutsFit(h, L, m, h.outs[m])
             /\ one => ParamsFit(h, m, h.params[m])
  <2>1. m \in D
    BY <1>1
  <2> QED
    BY <1>1, <2>1, FitsKept
<1> QED
  BY <1>1, <1>2 DEF AtHand

LEMMA RelinkFits ==
    ASSUME NEW D, NEW f, NEW h, NEW L, NEW one, AtHand(D, f, L, one), NEW o \in L, NEW list, NEW outs,
           Relinked(D, f, h, o, list, outs), InsFit(f, L, o, list),
           \A m \in L : OutsFit(f, L, m, outs[m]), one => ParamsFit(f, o, h.params[o]),
           \A x \in D \ {o} : h.params[x] = f.params[x]
    PROVE  AtHand(D, h, L, one) /\ SameDevices(D, f, h) /\ h.tensor = f.tensor
<1>1. /\ h \in NetsOn(D) /\ h.tensor = f.tensor /\ h.dev = f.dev /\ h.outs = outs
      /\ h.ins[o] = list /\ \A x \in D \ {o} : h.ins[x] = f.ins[x]
  BY DEF Relinked, SameBut
<1>2. SameDevices(D, f, h)
  BY <1>1 DEF SameDevices, Device
<1>3. L \subseteq D
  BY DEF AtHand
<1>4. \A m \in L : InsFit(f, L, m, h.ins[m])
  BY <1>1, <1>3 DEF AtHand
<1>5. \A m \in L : OutsFit(f, L, m, h.outs[m])
  BY <1>1
<1>6. one => \A m \in L : ParamsFit(f, m, h.params[m])
  BY <1>3 DEF AtHand
<1> QED
  BY <1>1, <1>2, <1>4, <1>5, <1>6, Refit

(* The members of lists that nodes are added to, or taken from.            *)
LEMMA AddingIs ==
    ASSUME NEW D, NEW q \in Seq(D), NEW m \in D
    PROVE  Adding(q, m) \in Seq(D) /\ Members(Adding(q, m)) \subseteq Members(q) \union {m}
  BY AppendIs DEF Adding

LEMMA DroppingIs ==
    ASSUME NEW D, NEW q \in Seq(D), NEW m
    PROVE  Dropping(q, m) \in Seq(D) /\ Members(Dropping(q, m)) \subseteq Members(q) \ {m}
<1>1. /\ Only(q, Nodes \ {m}) \in Seq(D \cap (Nodes \ {m}))
      /\ Members(Only(q, Nodes \ {m})) = Members(q) \cap (Nodes \ {m})
  BY OnlyIs
<1>2. \A p : p \in Seq(D \cap (Nodes \ {m})) => p \in Seq(D)
  OBVIOUS
<1> QED
  BY <1>1, <1>2 DEF Dropping

LEMMA OutLessIs ==
    ASSUME NEW D, NEW outs \in [D -> Seq(D)], NEW n \in D, NEW m
    PROVE  /\ OutLess(outs, n, m) \in [D -> Seq(D)]
           /\ \A x \in D : Members(OutLess(outs, n, m)[x]) \subseteq Members(outs[x])
<1>1. /\ RemoveFirst(outs[n], m) \in Seq(D) /\ Members(RemoveFirst(outs[n], m)) \subseteq Members(outs[n])
  BY RemoveFirstIs
<1>2. /\ OutLess(outs, n, m) \in [D -> Seq(D)]
      /\ \A x \in D : OutLess(outs, n, m)[x] = IF x = n THEN RemoveFirst(outs[n], m) ELSE outs[x]
  BY <1>1 DEF OutLess
<1> QED
  BY <1>1, <1>2

OneMore(D, outs, more, n, m) ==
    more \in [D -> Seq(D)] /\ \A x \in D : Members(more[x]) =
                                  IF x = n THEN Members(outs[x]) \union {m} ELSE Members(outs[x])
LEMMA OutMoreIs ==
    ASSUME NEW D, NEW outs \in [D -> Seq(D)], NEW n \in D, NEW m \in D
    PROVE  OneMore(D, outs, OutMore(outs, n, m), n, m)
<1>1. Append(outs[n], m) \in Seq(D) /\ Members(Append(outs[n], m)) = Members(outs[n]) \union {m}
  BY AppendIs
<1>2. /\ OutMore(outs, n, m) \in [D -> Seq(D)]
      /\ \A x \in D : OutMore(outs, n, m)[x] = IF x = n THEN Append(outs[n], m) ELSE outs[x]
  BY <1>1 DEF OutMore
<1> QED
  BY <1>1, <1>2 DEF OneMore

(* o reads b instead of a.                                                 *)
LEMMA Moved ==
    ASSUME NEW D, NEW f, NEW L, NEW one, AtHand(D, f, L, one), NEW o \in L, NEW a \in L, NEW b \in L,
           Fits(f, b, o)
    PROVE  /\ InsFit(f, L, o, Adding(Dropping(f.ins[o], a), b))
           /\ InsFit(f, L, o, Dropping(Adding(f.ins[o], b), a))
           /\ \A m \in L : OutsFit(f, L, m, OutMore(OutLess(f.outs, a, o), b, o)[m])
           /\ \A m \in L : OutsFit(f, L, m, OutMore(f.outs, b, o)[m])
           /\ \A m \in L : OutsFit(f, L, m, OutLess(f.outs, a, o)[m])
<1>1. L \subseteq D /\ f \in NetsOn(D)
  BY DEF AtHand
<1>2. f.ins[o] \in Seq(D) /\ f.outs \in [D -> Seq(D)] /\ o \in D /\ a \in D /\ b \in D
  BY <1>1, NetParts
<1>3. InsFit(f, L, o, f.ins[o]) /\ \A m \in L : OutsFit(f, L, m, f.outs[m])
  BY DEF AtHand
<1>4. Members(Adding(Dropping(f.ins[o], a), b)) \subseteq Members(f.ins[o]) \union {b}
  <2> DEFINE q == Dropping(f.ins[o], a)
  <2>1. q \in Seq(D) /\ Members(q) \subseteq Members(f.ins[o])
    BY <1>2, DroppingIs
  <2> HIDE DEF q
  <2>2. Members(Adding(q, b)) \subseteq Members(q) \union {b}
    BY <1>2, <2>1, AddingIs
  <2> QED
    BY <2>1, <2>2 DEF q
<1>5. Members(Dropping(Adding(f.ins[o], b), a)) \subseteq Members(f.ins[o]) \union {b}
  <2> DEFINE q == Adding(f.ins[o], b)
  <2>1. q \in Seq(D) /\ Members(q) \subseteq Members(f.ins[o]) \union {b}
    BY <1>2, AddingIs
  <2> HIDE DEF q
  <2>2. Members(Dropping(q, a)) \subseteq Members(q)
    BY <2>1, DroppingIs
  <2> QED
    BY <2>1, <2>2 DEF q
<1>6. /\ OutLess(f.outs, a, o) \in [D -> Seq(D)]
      /\ \A x \in D : Members(OutLess(f.outs, a, o)[x]) \subseteq Members(f.outs[x])
  BY <1>2, OutLessIs
<1>7. ASSUME NEW outs \in [D -> Seq(D)], \A x \in D : Members(outs[x]) \subseteq Members(f.outs[x])
      PROVE  \A m \in L : OutsFit(f, L, m, OutMore(outs, b, o)[m])
  <2>1. OneMore(D, outs, OutMore(outs, b, o), b, o)
    BY <1>2, OutMoreIs
  <2> SUFFICES ASSUME NEW m \in L, NEW x \in Members(OutMore(outs, b, o)[m])
               PROVE  x \in L /\ Fits(f, m, x)
    BY DEF OutsFit
  <2>2. x \in Members(f.outs[m]) \/ (x = o /\ m = b)
    BY <1>1, <1>7, <2>1 DEF OneMore
  <2> QED
    BY <1>3, <2>2 DEF OutsFit
<1>8. \A m \in L : OutsFit(f, L, m, OutMore(OutLess(f.outs, a, o), b, o)[m])
  BY <1>6, <1>7
<1>9. \A m \in L : OutsFit(f, L, m, OutMore(f.outs, b, o)[m])
  BY <1>2, <1>7
<1>10. \A m \in L : OutsFit(f, L, m, OutLess(f.outs, a, o)[m])
  BY <1>1, <1>3, <1>6 DEF OutsFit
<1>11. \A list : Members(list) \subseteq Members(f.ins[o]) \union {b} => InsFit(f, L, o, list)
  BY <1>3 DEF InsFit
<1> QED
  BY <1>4, <1>5, <1>8, <1>9, <1>10, <1>11

(* The nets in which no node has moved, as seen from x.                    *)
Handy(D, x, L, one) ==
    {h \in NetsOn(D) : AtHand(D, h, L, one) /\ h.dev = x.dev /\ h.tensor = x.tensor}

LEMMA HandyIs ==
    ASSUME NEW D, NEW x, NEW L, NEW one, NEW y \in Handy(D, x, L, one)
    PROVE  /\ y \in NetsOn(D) /\ AtHand(D, y, L, one) /\ L \subseteq D /\ y.dev = x.dev
           /\ y.tensor = x.tensor /\ SameDevices(D, x, y)
  BY DEF Handy, SameDevices, Device, AtHand

LEMMA NamedFit ==
    ASSUME NEW g, NEW m, NEW f, ParamsFit(g, m, f), NEW names, NEW t, Suits(g, t, m)
    PROVE  ParamsFit(g, m, Named(f, names, t))
  BY DEF ParamsFit, Named

LEMMA MulTurnFits ==
    ASSUME NEW D \in Domains, NEW x, NEW L, NEW one, NEW y \in Handy(D, x, L, one),
           NEW n \in L, NEW mul \in L, NEW o \in L, Fits(x, n, o)
    PROVE  MulTurn(y, n, o, mul) \in Handy(D, x, L, one)
<1> DEFINE h == MulTurn(y, n, o, mul)
           list == Dropping(Adding(y.ins[o], n), mul)
           outs == OutMore(y.outs, n, o)
<1>1. /\ y \in NetsOn(D) /\ AtHand(D, y, L, one) /\ L \subseteq D /\ y.dev = x.dev
      /\ y.tensor = x.tensor /\ SameDevices(D, x, y)
  BY HandyIs
<1>2. n \in D /\ mul \in D /\ o \in D
  BY <1>1
<1>3. Relinked(D, y, h, o, list, outs) /\ h.params = y.params
  BY <1>1, <1>2, MulTurnIs
<1>4. Fits(y, n, o)
  BY <1>1, <1>2, FitsKept
<1>5. InsFit(y, L, o, list) /\ \A m \in L : OutsFit(y, L, m, outs[m])
  BY <1>1, <1>4, Moved
<1> HIDE DEF h, list, outs
<1>6. one => ParamsFit(y, o, h.params[o])
  BY <1>1, <1>3 DEF AtHand
<1>7. AtHand(D, h, L, one) /\ SameDevices(D, y, h) /\ h.tensor = y.tensor
  BY <1>1, <1>3, <1>5, <1>6, RelinkFits
<1> QED
  BY <1>1, <1>7 DEF Handy, h, SameDevices, AtHand

LEMMA MergeTurnFits ==
    ASSUME NEW D \in Domains, NEW x, NEW L, NEW one, NEW y \in Handy(D, x, L, one),
           NEW same \in L, NEW keep \in L, NEW o \in L, Fits(x, keep, o),
           NEW t, NEW u \in TensorsOf(D), one => Suits(x, u, o)
    PROVE  MergeTurn(y, o, same, keep, t, u) \in Handy(D, x, L, one)
<1> DEFINE h == MergeTurn(y, o, same, keep, t, u)
           list == Adding(Dropping(y.ins[o], same), keep)
           outs == OutMore(OutLess(y.outs, same, o), keep, o)
<1>1. /\ y \in NetsOn(D) /\ AtHand(D, y, L, one) /\ L \subseteq D /\ y.dev = x.dev
      /\ y.tensor = x.tensor /\ SameDevices(D, x, y)
  BY HandyIs
<1>2. same \in D /\ keep \in D /\ o \in D
  BY <1>1
<1>3. /\ Relinked(D, y, h, o, list, outs)
      /\ h.params[o] = Named(y.params[o], ParaNames(y, o, t), u)
      /\ \A z \in D \ {o} : h.params[z] = y.params[z]
  BY <1>1, <1>2, MergeTurnIs
<1>4. Fits(y, keep, o) /\ (one => Suits(y, u, o))
  BY <1>1, <1>2, FitsKept
<1>5. InsFit(y, L, o, list) /\ \A m \in L : OutsFit(y, L, m, outs[m])
  BY <1>1, <1>4, Moved
<1> HIDE DEF h, list, outs
<1>6. one => ParamsFit(y, o, h.params[o])
  BY <1>1, <1>3, <1>4, NamedFit DEF AtHand
<1>7. AtHand(D, h, L, one) /\ SameDevices(D, y, h) /\ h.tensor = y.tensor
  BY <1>1, <1>3, <1>5, <1>6, RelinkFits
<1> QED
  BY <1>1, <1>7 DEF Handy, h, SameDevices, AtHand

LEMMA ReplaceFits ==
    ASSUME NEW D \in Domains, NEW x, NEW L, NEW one, NEW y \in Handy(D, x, L, one),
           NEW n \in L, NEW new \in L, NEW old \in L, Fits(x, new, n),
           one => Suits(x, x.tensor[new], n)
    PROVE  ReplaceInput(y, n, new, old) \in Handy(D, x, L, one)
<1> DEFINE h == ReplaceInput(y, n, new, old)
           list == Adding(Dropping(y.ins[n], old), new)
           outs == OutMore(OutLess(y.outs, old, n), new, n)
<1>1. /\ y \in NetsOn(D) /\ AtHand(D, y, L, one) /\ L \subseteq D /\ y.dev = x.dev
      /\ y.tensor = x.tensor /\ SameDevices(D, x, y)
  BY HandyIs
<1>2. n \in D /\ new \in D /\ old \in D
  BY <1>1
<1>3. /\ Relinked(D, y, h, n, list, outs)
      /\ \E names : h.params[n] = Named(y.params[n], names, y.tensor[new])
      /\ \A z \in D \ {n} : h.params[z] = y.params[z]
  BY <1>1, <1>2, ReplaceInputIs
<1>4. Fits(y, new, n) /\ (one => Suits(y, y.tensor[new], n))
  BY <1>1, <1>2, FitsKept
<1>5. InsFit(y, L, n, list) /\ \A m \in L : OutsFit(y, L, m, outs[m])
  BY <1>1, <1>4, Moved
<1> HIDE DEF h, list, outs
<1>6. one => ParamsFit(y, n, h.params[n])
  BY <1>1, <1>3, <1>4, NamedFit DEF AtHand
<1>7. AtHand(D, h, L, one) /\ SameDevices(D, y, h) /\ h.tensor = y.tensor
  BY <1>1, <1>3, <1>5, <1>6, RelinkFits
<1> QED
  BY <1>1, <1>7 DEF Handy, h, SameDevices, AtHand

(* A node that takes over the parameters of one on its device.             *)
LEMMA TakeFits ==
    ASSUME NEW D, NEW g, NEW L, NEW one, AtHand(D, g, L, one), NEW n \in L, NEW m \in L,
           Device(g, m) = Device(g, n), Op(m) # "MEM_CPY"
    PROVE  TakeParams(g, n, m) \in Handy(D, g, L, one)
<1> DEFINE h == TakeParams(g, n, m)
<1>1. g \in NetsOn(D) /\ L \subseteq D /\ n \in D /\ m \in D
  BY DEF AtHand
<1>2. Taken(D, g, h, n, m)
  BY <1>1, TakeParamsIs
<1> HIDE DEF h
<1>3. /\ h \in NetsOn(D) /\ h.ins = g.ins /\ h.outs = g.outs /\ h.dev = g.dev /\ h.tensor = g.tensor
      /\ \A x \in D \ {n} : h.params[x] = g.params[x]
  BY <1>2 DEF Taken, SameBut
<1>4. ASSUME one PROVE ParamsFit(g, n, h.params[n])
  <2>1. ParamsFit(g, n, g.params[n]) /\ ParamsFit(g, m, g.params[m])
    BY <1>4 DEF AtHand
  <2>2. \A p \in DOMAIN g.params[m] : Suits(g, g.params[m][p], n)
    BY <2>1 DEF ParamsFit, Suits
  <2> QED
    BY <1>2, <2>1, <2>2 DEF Taken, ParamsFit
<1>5. SameDevices(D, g, h)
  BY <1>3 DEF SameDevices, Device
<1>6. /\ \A x \in L : InsFit(g, L, x, h.ins[x]) /\ OutsFit(g, L, x, h.outs[x])
      /\ one => \A x \in L : ParamsFit(g, x, h.params[x])
  BY <1>1, <1>3, <1>4 DEF AtHand
<1>7. AtHand(D, h, L, one)
  BY <1>3, <1>5, <1>6, Refit
<1> QED
  BY <1>3, <1>7 DEF Handy, h

(* The readers that were not fused away are among the readers.             *)
LEMMA UnfusedIs ==
    ASSUME NEW D, NEW g, NEW list \in Seq(D)
    PROVE  /\ Unfused(g, list) \in Seq(D) /\ Len(Unfused(g, list)) \in Nat
           /\ \A k \in 1 .. Len(Unfused(g, list)) : Unfused(g, list)[k] \in Members(list)
<1> DEFINE q == Only(list, Nodes \ g.fused)
<1>1. q \in Seq(D \cap (Nodes \ g.fused)) /\ Members(q) = Members(list) \cap (Nodes \ g.fused)
  BY OnlyIs
<1> HIDE DEF q
<1>2. q \in Seq(D) /\ Len(q) \in Nat /\ DOMAIN q = 1 .. Len(q)
  BY <1>1
<1>3. \A k \in 1 .. Len(q) : q[k] \in Members(q)
  BY <1>2 DEF Members
<1> QED
  BY <1>1, <1>2, <1>3 DEF Unfused, q

LEMMA GivenIs ==
    /\ \A i : Given(i) => Op(i) = "MEM_REF"
    /\ \A g, i, m : Fits(g, i, m) /\ Given(i) => Op(m) \in {"MUL", "MATMUL", "EMBEDDING"}
    /\ \A g, i, m : Fits(g, i, m) /\ ~ Given(i) => Op(m) = "MEM_CPY" \/ Device(g, m) = Device(g, i)
    /\ \A g, i, m : Fits(g, i, m) => ~ Given(m)
    /\ \A g, i, m : ~ Given(m) /\ ~ Given(i) /\ (Op(m) = "MEM_CPY" \/ Device(g, m) = Device(g, i))
                        => Fits(g, i, m)
  BY DEF Given, Op, OpOf, Fits

LEMMA HandySame ==
    ASSUME NEW D, NEW x, NEW L, NEW one, NEW y \in Handy(D, x, L, one)
    PROVE  Handy(D, y, L, one) = Handy(D, x, L, one)
  BY DEF Handy

(* n goes on with the tensor of mul, which is where its own was.           *)
LEMMA MulStartFits ==
    ASSUME NEW D \in Domains, NEW g, NEW L, NEW one, AtHand(D, g, L, one), NEW n \in L, NEW mul \in L,
           Device(g, mul) = Device(g, n), Op(mul) # "MEM_CPY"
    PROVE  LET x == MulStart(g, n, mul)
           IN  x \in Handy(D, x, L, one) /\ SameDevices(D, g, x)
<1> DEFINE f == TakeParams(g, n, mul)
           e == [f EXCEPT !.tensor[n] = g.tensor[mul]]
           x == RemoveOutput(e, n, mul)
<1>1. g \in NetsOn(D) /\ L \subseteq D /\ n \in D /\ mul \in D
  BY DEF AtHand
<1>2. f \in Handy(D, g, L, one)
  BY TakeFits
<1> HIDE DEF f
<1>3. /\ f \in NetsOn(D) /\ AtHand(D, f, L, one) /\ f.dev = g.dev /\ f.tensor = g.tensor
      /\ SameDevices(D, g, f)
  BY <1>2, HandyIs
<1>4. f.tensor \in [D -> TensorsOf(D)]
  BY <1>3, NetParts
<1>5. e.tensor = [f.tensor EXCEPT ![n] = g.tensor[mul]] /\ e.tensor \in [D -> TensorsOf(D)]
  <2>1. g.tensor[mul] \in TensorsOf(D)
    BY <1>1, NetParts
  <2> QED
    BY <1>1, <1>3, <1>4, <2>1 DEF NetsOn
<1>6. e \in NetsOn(D) /\ SameBut(f, e, {"tensor"})
  BY <1>3, <1>5 DEF NetsOn, SameBut
<1>7. SameDevices(D, f, e)
  <2>1. e.dev = f.dev
    BY <1>6 DEF SameBut
  <2>2. \A z \in D : e.tensor[z] = IF z = n THEN g.tensor[mul] ELSE f.tensor[z]
    BY <1>4, <1>5
  <2>3. f.dev[g.tensor[mul]] = f.dev[f.tensor[n]]
    BY <1>3 DEF Device
  <2>4. \A z \in D : Device(e, z) = Device(f, z)
    BY <2>1, <2>2, <2>3 DEF Device
  <2> QED
    BY <2>1, <2>4 DEF SameDevices
<1> HIDE DEF e
<1>8. OutputRemoved(D, e, x, n, mul) /\ x.outs = OutLess(e.outs, n, mul)
  BY <1>1, <1>6, RemoveOutputIs, OutsAfter
<1> HIDE DEF x
<1>9. /\ x \in NetsOn(D) /\ x.ins = f.ins /\ x.params = f.params /\ x.outs = OutLess(f.outs, n, mul)
      /\ x.dev = e.dev /\ x.tensor = e.tensor
  BY <1>6, <1>8 DEF OutputRemoved, SameBut
<1>10. SameDevices(D, f, x)
  BY <1>7, <1>9 DEF SameDevices, Device
<1>11. \A m \in L : OutsFit(f, L, m, OutLess(f.outs, n, mul)[m])
  <2>1. f.outs \in [D -> Seq(D)]
    BY <1>3, NetParts
  <2>2. \A m \in D : Members(OutLess(f.outs, n, mul)[m]) \subseteq Members(f.outs[m])
    BY <1>1, <2>1, OutLessIs
  <2>3. \A m \in L : OutsFit(f, L, m, f.outs[m])
    BY <1>3 DEF AtHand
  <2> QED
    BY <1>1, <2>2, <2>3 DEF OutsFit
<1>12. AtHand(D, x, L, one)
  <2>1. (\A m \in L : InsFit(f, L, m, x.ins[m])) /\ (one => \A m \in L : ParamsFit(f, m, x.params[m]))
    BY <1>3, <1>9 DEF AtHand
  <2> QED
    BY <1>3, <1>9, <1>10, <1>11, <2>1, Refit
<1>13. SameDevices(D, g, x)
  BY <1>3, <1>10 DEF SameDevices
<1>14. x \in Handy(D, x, L, one)
  BY <1>9, <1>12 DEF Handy
<1>15. x = MulStart(g, n, mul)
  BY DEF x, e, f, MulStart
<1> QED
  BY <1>13, <1>14, <1>15

LEMMA MulFits ==
    ASSUME NEW D \in Domains, NEW g, NEW L, NEW one, AtHand(D, g, L, one), NEW n \in L,
           NEW mul \in Members(g.outs[n]), Op(mul) = "MUL", Op(n) = "RMS_NORM",
           Device(g, mul) = Device(g, n)
    PROVE  AtHand(D, FuseMul(g, n, mul), L, one)
<1> DEFINE x == MulStart(g, n, mul)
           S == Handy(D, x, L, one)
           readers == Unfused(g, g.outs[mul])
<1>1. g \in NetsOn(D) /\ L \subseteq D /\ n \in D /\ mul \in L
  BY DEF AtHand, OutsFit
<1>2. x \in S /\ SameDevices(D, g, x)
  BY <1>1, MulStartFits
<1>3. g.outs[mul] \in Seq(D)
  BY <1>1, NetParts
<1>4. /\ Len(readers) \in Nat
      /\ \A k \in 1 .. Len(readers) : readers[k] \in Members(g.outs[mul])
  BY <1>3, UnfusedIs
<1> HIDE DEF x, readers
<1>5. \A o \in Members(g.outs[mul]) : o \in L /\ Fits(g, mul, o)
  BY <1>1 DEF AtHand, OutsFit
<1>6. \A o \in Members(g.outs[mul]) : Fits(g, n, o)
  <2>1. ~ Given(mul) /\ ~ Given(n)
    BY GivenIs
  <2> QED
    BY <1>5, <2>1, GivenIs
<1>7. ASSUME NEW k \in 1 .. Len(readers), NEW y \in S PROVE MulTurn(y, n, readers[k], mul) \in S
  <2>1. readers[k] \in L /\ Fits(g, n, readers[k])
    BY <1>4, <1>5, <1>6
  <2>2. Fits(x, n, readers[k])
    BY <1>1, <1>2, <2>1, FitsKept
  <2> QED
    BY <1>1, <2>1, <2>2, MulTurnFits
<1> HIDE DEF S
<1>8. FuseMul(g, n, mul) \in S
  <2> DEFINE Q == Nat \X S
  <2>1. <<0, x>> \in Q
    BY <1>2
  <2>2. \A k \in 1 .. Len(readers), y \in S : <<k, MulTurn(y, n, readers[k], mul)>> \in Q
    BY <1>4, <1>7
  <2> HIDE DEF Q
  <2> QED
    BY <1>2, <1>4, <1>7, <2>1, <2>2, MulLoop DEF x, readers
<1> QED
  BY <1>8 DEF S, Handy

LEMMA RopeFits ==
    ASSUME NEW D \in Domains, NEW g, NEW L, NEW one, AtHand(D, g, L, one), NEW n \in L,
           NEW rope \in L, Op(rope) = "ROPE", Op(n) = "FLASH_ATTN", Device(g, rope) = Device(g, n)
    PROVE  FuseRope(g, n, rope) \in Handy(D, g, L, one)
<1> DEFINE S == Handy(D, g, L, one)
           read == Unfused(g, g.ins[rope])
<1>1. g \in NetsOn(D) /\ L \subseteq D /\ n \in D /\ rope \in D
  BY DEF AtHand
<1>2. TakeParams(g, n, rope) \in S
  BY TakeFits
<1>3. g.ins[rope] \in Seq(D)
  BY <1>1, NetParts
<1>4. Len(read) \in Nat /\ \A k \in 1 .. Len(read) : read[k] \in Members(g.ins[rope])
  BY <1>3, UnfusedIs
<1> HIDE DEF read
<1>5. ASSUME NEW i \in Members(g.ins[rope])
      PROVE  i \in L /\ Fits(g, i, n) /\ Suits(g, g.tensor[i], n)
  <2>1. i \in L /\ Fits(g, i, rope)
    BY DEF AtHand, InsFit
  <2>2. ~ Given(i) /\ Device(g, rope) = Device(g, i)
    BY <2>1, GivenIs
  <2>3. Fits(g, i, n)
    BY <2>2, GivenIs
  <2> QED
    BY <2>1, <2>2, <2>3 DEF Suits, Device
<1>6. ASSUME NEW k \in 1 .. Len(read), NEW y \in S PROVE ReplaceInput(y, n, read[k], rope) \in S
  BY <1>4, <1>5, ReplaceFits
<1> HIDE DEF S
<1>7. FuseRope(g, n, rope) \in S
  <2> DEFINE Q == Nat \X S
  <2>1. <<0, TakeParams(g, n, rope)>> \in Q
    BY <1>2
  <2>2. \A k \in 1 .. Len(read), y \in S : <<k, ReplaceInput(y, n, read[k], rope)>> \in Q
    BY <1>4, <1>6
  <2> HIDE DEF Q
  <2> QED
    BY <1>2, <1>4, <1>6, <2>1, <2>2, RopeLoop DEF read
<1> QED
  BY <1>7 DEF S

LEMMA RopesFits ==
    ASSUME NEW D \in Domains, NEW g, NEW L, NEW one, AtHand(D, g, L, one), NEW n \in L, NEW ropes,
           Len(ropes) \in Nat, Op(n) = "FLASH_ATTN",
           \A k \in 1 .. Len(ropes) : /\ ropes[k] \in L /\ Op(ropes[k]) = "ROPE"
                                      /\ Device(g, ropes[k]) = Device(g, n)
    PROVE  AtHand(D, FuseRopes(g, n, ropes), L, one)
<1> DEFINE S == Handy(D, g, L, one)
<1>1. g \in S
  BY DEF Handy, AtHand
<1>2. ASSUME NEW k \in 1 .. Len(ropes), NEW y \in S PROVE FuseRope(y, n, ropes[k]) \in S
  <2>1. AtHand(D, y, L, one) /\ L \subseteq D /\ SameDevices(D, g, y)
    BY HandyIs
  <2>2. Device(y, ropes[k]) = Device(y, n)
    BY <2>1 DEF SameDevices
  <2>3. FuseRope(y, n, ropes[k]) \in Handy(D, y, L, one)
    BY <2>1, <2>2, RopeFits
  <2> QED
    BY <2>3, HandySame
<1> HIDE DEF S
<1>3. FuseRopes(g, n, ropes) \in S
  <2> DEFINE Q == Nat \X S
  <2>1. <<0, g>> \in Q
    BY <1>1
  <2>2. \A k \in 1 .. Len(ropes), y \in S : <<k, FuseRope(y, n, ropes[k])>> \in Q
    BY <1>2
  <2> HIDE DEF Q
  <2> QED
    BY <1>1, <1>2, <2>1, <2>2, RopesLoop
<1> QED
  BY <1>3 DEF S, Handy

LEMMA MergeStartIs ==
    ASSUME NEW D \in Domains, NEW g \in NetsOn(D), NEW n \in D, NEW same \in D
    PROVE  LET x == MergeStart(g, n, same)
           IN  /\ x \in NetsOn(D) /\ SameBut(g, x, {"ins", "outs", "fused"}) /\ x.fused = g.fused \union {same}
               /\ x.outs = OutLess(g.outs, n, same) /\ x.ins[same] = Dropping(g.ins[same], n)
               /\ \A z \in D \ {same} : x.ins[z] = g.ins[z]
<1> DEFINE e == Marked(g, same)
           f == RemoveInput(e, same, n)
           x == RemoveOutput(f, n, same)
<1>1. e \in NetsOn(D) /\ SameBut(g, e, {"fused"}) /\ e.fused = g.fused \union {same}
  BY DEF Marked, NetsOn, SameBut
<1> HIDE DEF e
<1>2. InputRemoved(D, e, f, same, n)
  BY <1>1, RemoveInputIs
<1> HIDE DEF f
<1>3. f \in NetsOn(D)
  BY <1>2 DEF InputRemoved
<1>4. OutputRemoved(D, f, x, n, same) /\ x.outs = OutLess(f.outs, n, same)
  BY <1>3, RemoveOutputIs, OutsAfter
<1> HIDE DEF x
<1>5. x \in NetsOn(D) /\ SameBut(g, x, {"ins", "outs", "fused"}) /\ x.fused = g.fused \union {same}
  BY <1>1, <1>2, <1>4 DEF InputRemoved, OutputRemoved, SameBut
<1>6. /\ x.outs = OutLess(g.outs, n, same) /\ x.ins[same] = Dropping(g.ins[same], n)
      /\ \A z \in D \ {same} : x.ins[z] = g.ins[z]
  BY <1>1, <1>2, <1>4 DEF InputRemoved, OutputRemoved, SameBut, Dropping
<1> QED
  BY <1>5, <1>6 DEF MergeStart, x, f, e

LEMMA MergeStartFits ==
    ASSUME NEW D \in Domains, NEW g, NEW L, NEW one, AtHand(D, g, L, one), NEW n \in L, NEW same \in L
    PROVE  MergeStart(g, n, same) \in Handy(D, g, L, one)
<1> DEFINE x == MergeStart(g, n, same)
<1>1. g \in NetsOn(D) /\ L \subseteq D /\ n \in D /\ same \in D
  BY DEF AtHand
<1>5. /\ x \in NetsOn(D) /\ SameBut(g, x, {"ins", "outs", "fused"})
      /\ x.outs = OutLess(g.outs, n, same) /\ x.ins[same] = Dropping(g.ins[same], n)
      /\ \A z \in D \ {same} : x.ins[z] = g.ins[z]
  BY <1>1, MergeStartIs
<1> HIDE DEF x
<1>6. x.dev = g.dev /\ x.tensor = g.tensor /\ x.params = g.params
  BY <1>5 DEF SameBut
<1>7. SameDevices(D, g, x)
  BY <1>5, <1>6 DEF SameDevices, Device
<1>8. g.outs \in [D -> Seq(D)] /\ g.ins[same] \in Seq(D)
  BY <1>1, NetParts
<1>9. \A m \in L : OutsFit(g, L, m, x.outs[m])
  <2>1. \A m \in D : Members(OutLess(g.outs, n, same)[m]) \subseteq Members(g.outs[m])
    BY <1>1, <1>8, OutLessIs
  <2> QED
    BY <1>1, <1>5, <2>1 DEF OutsFit, AtHand
<1>10. \A m \in L : InsFit(g, L, m, x.ins[m])
  <2>1. Members(Dropping(g.ins[same], n)) \subseteq Members(g.ins[same])
    BY <1>8, DroppingIs
  <2>2. \A m \in L : InsFit(g, L, m, g.ins[m])
    BY DEF AtHand
  <2>3. InsFit(g, L, same, Dropping(g.ins[same], n))
    BY <2>1, <2>2 DEF InsFit
  <2> QED
    BY <1>1, <1>5, <2>2, <2>3
<1>11. one => \A m \in L : ParamsFit(g, m, x.params[m])
  BY <1>6 DEF AtHand
<1>12. AtHand(D, x, L, one)
  BY <1>5, <1>7, <1>9, <1>10, <1>11, Refit
<1> QED
  BY <1>5, <1>6, <1>12 DEF Handy, x

LEMMA MergeFits ==
    ASSUME NEW D \in Domains, NEW g, NEW L, NEW one, AtHand(D, g, L, one), NEW n \in L,
           NEW keep \in L, NEW same \in L, ~ Given(keep), ~ Given(same),
           Device(g, keep) = Device(g, same)
    PROVE  MergeInto(g, n, keep, same) \in Handy(D, g, L, one)
<1> DEFINE S == Handy(D, g, L, one)
           readers == Unfused(Marked(g, same), g.outs[same])
<1>1. g \in NetsOn(D) /\ L \subseteq D /\ keep \in D /\ same \in D
  BY DEF AtHand
<1>2. MergeStart(g, n, same) \in S
  BY MergeStartFits
<1>3. g.outs[same] \in Seq(D)
  BY <1>1, NetParts
<1>4. Len(readers) \in Nat /\ \A k \in 1 .. Len(readers) : readers[k] \in Members(g.outs[same])
  BY <1>3, UnfusedIs
<1> HIDE DEF readers
<1>5. ASSUME NEW o \in Members(g.outs[same])
      PROVE  o \in L /\ Fits(g, keep, o) /\ Suits(g, g.tensor[keep], o)
  <2>1. o \in L /\ Fits(g, same, o)
    BY DEF AtHand, OutsFit
  <2>2. ~ Given(o) /\ (Op(o) = "MEM_CPY" \/ Device(g, o) = Device(g, keep))
    BY <2>1, GivenIs
  <2>3. Fits(g, keep, o)
    BY <2>2, GivenIs
  <2> QED
    BY <2>1, <2>2, <2>3 DEF Suits, Device
<1>6. g.tensor[keep] \in TensorsOf(D)
  BY <1>1, NetParts
<1>7. ASSUME NEW k \in 1 .. Len(readers), NEW y \in S
      PROVE MergeTurn(y, readers[k], same, keep, g.tensor[same], g.tensor[keep]) \in S
  BY <1>4, <1>5, <1>6, MergeTurnFits
<1> HIDE DEF S
<1>8. MergeInto(g, n, keep, same) \in S
  BY <1>2, <1>4, <1>7, MergeLoop DEF readers
<1> QED
  BY <1>8 DEF S

(* Nodes with the same semantic key that read one node are on one device.  *)
LEMMA AlikeFits ==
    ASSUME NEW g, NEW n, NEW a, NEW b, Fits(g, n, a), Fits(g, n, b),
           SemanticKey(g, a) = SemanticKey(g, b)
    PROVE  ~ Given(a) /\ ~ Given(b) /\ Device(g, a) = Device(g, b)
<1>1. ~ Given(a) /\ ~ Given(b)
  BY GivenIs
<1>2. CASE Given(n)
  <2>1. a = Owner(n) /\ b = Owner(n)
    BY <1>2 DEF Fits
  <2> QED
    BY <1>1, <2>1
<1>3. CASE ~ Given(n) /\ Op(a) # "MEM_CPY"
  <2>1. Op(b) # "MEM_CPY"
    BY <1>3 DEF SemanticKey
  <2> QED
    BY <1>1, <1>3, <2>1, GivenIs
<1>4. CASE Op(a) = "MEM_CPY"
  <2>1. Op(b) = "MEM_CPY"
    BY <1>4 DEF SemanticKey
  <2>2. SemanticKey(g, a)[3] = Device(g, a) /\ SemanticKey(g, b)[3] = Device(g, b)
    BY <1>4, <2>1 DEF SemanticKey
  <2> QED
    BY <1>1, <2>2
<1> QED
  BY <1>2, <1>3, <1>4

LEMMA SameFits ==
    ASSUME NEW D \in Domains, NEW g, NEW L, NEW one, AtHand(D, g, L, one), NEW n \in L
    PROVE  AtHand(D, FuseSame(g, n), L, one)
<1> DEFINE S == Handy(D, g, L, one)
           os == g.outs[n]
<1>1. g \in NetsOn(D) /\ L \subseteq D /\ n \in D /\ g \in S
  BY DEF AtHand, Handy
<1>2. os \in Seq(D)
  BY <1>1, NetParts
<1>3. Len(os) \in Nat /\ DOMAIN os = 1 .. Len(os) /\ \A i \in DOMAIN os : os[i] \in Members(os)
  BY <1>2 DEF Members
<1>4. \A i \in DOMAIN os : os[i] \in L /\ Fits(g, n, os[i])
  BY <1>3 DEF AtHand, OutsFit
<1> HIDE DEF os
<1>5. ASSUME NEW j \in 1 .. Len(os), NEW y \in S PROVE SameTurn(g, y, n, os, j) \in S
  <2>1. CASE ~ \E i \in DOMAIN os : Alike(g, os, i, j)
    BY <2>1 DEF SameTurn
  <2>2. CASE \E i \in DOMAIN os : Alike(g, os, i, j)
    <3> DEFINE a == FirstAlike(g, os, j)
    <3>1. a \in DOMAIN os /\ Alike(g, os, a, j)
      BY <1>3, <2>2, FirstAlikeIs
    <3> HIDE DEF a
    <3>2. SameTurn(g, y, n, os, j) = MergeInto(y, n, os[a], os[j])
      BY <2>2 DEF SameTurn, a
    <3>3. SemanticKey(g, os[a]) = SemanticKey(g, os[j]) /\ j \in DOMAIN os
      BY <1>3, <3>1 DEF Alike
    <3>4. ~ Given(os[a]) /\ ~ Given(os[j]) /\ Device(g, os[a]) = Device(g, os[j])
      BY <1>4, <3>1, <3>3, AlikeFits
    <3>5. AtHand(D, y, L, one) /\ SameDevices(D, g, y)
      BY HandyIs
    <3>6. Device(y, os[a]) = Device(y, os[j])
      BY <1>1, <1>4, <3>1, <3>3, <3>4, <3>5 DEF SameDevices
    <3>7. MergeInto(y, n, os[a], os[j]) \in Handy(D, y, L, one)
      BY <1>4, <3>1, <3>3, <3>4, <3>5, <3>6, MergeFits
    <3> QED
      BY <3>2, <3>7, HandySame
  <2> QED
    BY <2>1, <2>2
<1> HIDE DEF S
<1>6. FuseSame(g, n) \in S
  BY <1>1, <1>3, <1>5, SameLoop DEF os
<1> QED
  BY <1>6 DEF S, Handy

(* Fusing keeps the operands at hand.                                      *)
LEMMA FuseNodeKeeps ==
    ASSUME NEW D \in Domains, NEW g, NEW L, NEW one, AtHand(D, g, L, one), NEW n \in L
    PROVE  AtHand(D, FuseNode(g, n), L, one)
<1> DEFINE muls == CanFuse(g, n, "MUL", g.outs[n])
           ropes == CanFuse(g, n, "ROPE", g.ins[n])
           onemul == IF Len(muls) = 1 THEN FuseMul(g, n, muls[1]) ELSE g
<1>1. g \in NetsOn(D) /\ L \subseteq D /\ n \in D
  BY DEF AtHand
<1>2. g.outs[n] \in Seq(D) /\ g.ins[n] \in Seq(D)
  BY <1>1, NetParts
<1>3. /\ Members(g.outs[n]) \subseteq L
      /\ \A i \in Members(g.ins[n]) : i \in L
  BY DEF AtHand, OutsFit, InsFit
<1>4. ASSUME NEW op, NEW list \in Seq(D)
      PROVE  /\ Len(CanFuse(g, n, op, list)) \in Nat
             /\ \A k \in 1 .. Len(CanFuse(g, n, op, list)) :
                    LET m == CanFuse(g, n, op, list)[k]
                    IN  m \in Members(list) /\ Op(m) = op /\ Device(g, m) = Device(g, n)
  <2> DEFINE T == {m \in Members(list) : Op(m) = op /\ Device(g, m) = Device(g, n)}
             q == Only(list, T)
  <2>1. q \in Seq(D \cap T)
    BY OnlyIs
  <2>2. CanFuse(g, n, op, list) = q
    BY DEF CanFuse
  <2> HIDE DEF q
  <2>3. Len(q) \in Nat /\ \A k \in 1 .. Len(q) : q[k] \in T
    BY <2>1
  <2> QED
    BY <2>2, <2>3
<1>5. AtHand(D, onemul, L, one) \/ Op(n) # "RMS_NORM"
  <2>1. CASE Op(n) = "RMS_NORM" /\ Len(muls) = 1
    <3>1. muls[1] \in Members(g.outs[n]) /\ Op(muls[1]) = "MUL" /\ Device(g, muls[1]) = Device(g, n)
      BY <1>2, <1>4, <2>1
    <3> HIDE DEF muls
    <3>2. AtHand(D, FuseMul(g, n, muls[1]), L, one)
      BY <2>1, <3>1, MulFits
    <3> QED
      BY <2>1, <3>2
  <2> QED
    BY <2>1
<1>6. AtHand(D, FuseRopes(g, n, ropes), L, one) \/ Op(n) # "FLASH_ATTN"
  <2>1. /\ Len(ropes) \in Nat
        /\ \A k \in 1 .. Len(ropes) : /\ ropes[k] \in L /\ Op(ropes[k]) = "ROPE"
                                      /\ Device(g, ropes[k]) = Device(g, n)
    BY <1>2, <1>3, <1>4
  <2> HIDE DEF ropes
  <2> QED
    BY <2>1, RopesFits
<1>7. AtHand(D, FuseSame(g, n), L, one)
  BY SameFits
<1>8. \A h : AtHand(D, h, L, one) => AtHand(D, FuseSame(h, n), L, one)
  BY SameFits
<1>9. FuseNode(g, n) \in
         {g, FuseSame(g, n)} \union (IF Op(n) = "RMS_NORM" THEN {FuseSame(onemul, n)} ELSE {})
           \union (IF Op(n) = "FLASH_ATTN" THEN {FuseSame(FuseRopes(g, n, ropes), n)} ELSE {})
  <2> HIDE DEF muls, ropes
  <2>1. CASE n \in g.fused
    BY <2>1 DEF FuseNode
  <2>2. CASE n \notin g.fused /\ Op(n) = "RMS_NORM"
    BY <2>2 DEF FuseNode, muls
  <2>3. CASE n \notin g.fused /\ Op(n) = "FLASH_ATTN"
    BY <2>3 DEF FuseNode, ropes
  <2>4. CASE n \notin g.fused /\ Op(n) \notin {"RMS_NORM", "FLASH_ATTN"}
    BY <2>4 DEF FuseNode
  <2> QED
    BY <2>1, <2>2, <2>3, <2>4
<1> HIDE DEF onemul, ropes
<1> QED
  BY <1>5, <1>6, <1>7, <1>8, <1>9

(* A recycling node is added behind n, with the tensor of n.               *)
LEMMA RecycleStartFits ==
    ASSUME NEW D \in Domains, NEW g, NEW L, NEW one, AtHand(D, g, L, one), NEW n \in L,
           n \in ModelNodes, ~ Given(n), <<"recycle", n>> \notin D
    PROVE  LET r == <<"recycle", n>>
               E == D \union {r}
               M == L \union {r}
               x == RecycleStart(g, n, r)
           IN  /\ E \in Domains /\ AtHand(E, x, M, one)
               /\ \A i, m \in D : Fits(g, i, m) => Fits(x, i, m)
               /\ ~ Given(r) /\ Device(x, r) = Device(x, n)
<1> DEFINE r == <<"recycle", n>>
           E == D \union {r}
           M == L \union {r}
           t == g.tensor[n]
           e == NewNode(g, r, t, t)
           x == AddInput(e, r, n)
<1>1. g \in NetsOn(D) /\ L \subseteq D /\ n \in D
  BY DEF AtHand
<1>2. E \in Domains
  <2>1. r \in AllNodes
    BY DEF AllNodes
  <2> HIDE DEF r
  <2> QED
    BY <2>1 DEF Domains
<1>3. ~ IsCopy(r) /\ Op(r) = "MEM_RECYCLE" /\ ~ Given(r)
  BY DEF IsCopy, Kind, Op, Given
<1>4. r \notin D
  OBVIOUS
<1> HIDE DEF r
<1>5. TensorsOf(E) = TensorsOf(D)
  BY <1>3 DEF TensorsOf
<1>6. t \in TensorsOf(D)
  BY <1>1, NetParts
<1>7. NodeAdded(D, g, e, r, t, t)
  BY <1>1, <1>5, <1>6, NewNodeIs
<1> HIDE DEF e
<1>8. /\ e.ins[r] = << >> /\ \A y \in D : e.ins[y] = g.ins[y]
      /\ e.outs[r] = << >> /\ \A y \in D : e.outs[y] = g.outs[y]
      /\ e.params[r] = [in |-> t] /\ \A y \in D : e.params[y] = g.params[y]
      /\ e.tensor[r] = t /\ \A y \in D : e.tensor[y] = g.tensor[y]
      /\ e.dev = g.dev
  BY <1>4, <1>7 DEF NodeAdded
<1>9. e \in NetsOn(E)
  <2>1. /\ e.ins \in [E -> Seq(E)] /\ e.outs \in [E -> Seq(E)] /\ e.layer \in [E -> Int]
        /\ e.params \in [E -> ParamsIn(TensorsOf(E))] /\ e.known \in [E -> ParamsIn(TensorsOf(E))]
        /\ e.tensor \in [E -> TensorsOf(E)] /\ e.fused = g.fused /\ e.dev = g.dev
        /\ e = [ins |-> e.ins, outs |-> e.outs, layer |-> e.layer, params |-> e.params,
                known |-> e.known, tensor |-> e.tensor, fused |-> e.fused, dev |-> e.dev]
    BY <1>7 DEF NodeAdded
  <2>2. g.fused \in SUBSET D /\ g.dev \in [TensorsOf(D) -> Int]
    BY <1>1, NetParts
  <2>3. e.fused \in SUBSET E /\ e.dev \in [TensorsOf(E) -> Int]
    BY <1>5, <2>1, <2>2
  <2> QED
    BY <2>1, <2>3 DEF NetsOn
<1>10. InputAdded(E, e, x, r, n)
  BY <1>1, <1>9, AddInputIs
<1> HIDE DEF x
<1>11. Members(e.ins[r]) = {} /\ Members(e.outs[r]) = {}
  BY <1>8 DEF Members
<1>12. /\ x \in NetsOn(E) /\ x.dev = g.dev /\ x.tensor = e.tensor /\ x.outs = e.outs /\ x.params = e.params
       /\ x.ins[r] = Append(e.ins[r], n)
       /\ \A y \in D : x.ins[y] = g.ins[y]
  BY <1>4, <1>8, <1>10, <1>11 DEF InputAdded, SameBut
<1>13. Members(x.ins[r]) = {n}
  <2>1. e.ins[r] \in Seq(E) /\ n \in E
    BY <1>1, <1>9, NetParts
  <2> QED
    BY <1>11, <1>12, <2>1, AppendIs
<1>14. /\ \A y \in D : Device(x, y) = Device(g, y)
       /\ Device(x, r) = Device(g, n)
  BY <1>8, <1>12 DEF Device
<1>15. /\ \A i, m \in D : Fits(g, i, m) => Fits(x, i, m)
       /\ \A m \in D : \A f : ParamsFit(g, m, f) => ParamsFit(x, m, f)
  <2>1. \A i, m \in D : Fits(g, i, m) => Fits(x, i, m)
    BY <1>14 DEF Fits
  <2>2. \A m \in D : \A s : Suits(g, s, m) => Suits(x, s, m)
    BY <1>12, <1>14 DEF Suits
  <2> QED
    BY <2>1, <2>2 DEF ParamsFit
<1>16. Fits(x, n, r)
  BY <1>1, <1>3, <1>14, GivenIs
<1>17. ASSUME NEW m \in M
       PROVE  /\ InsFit(x, M, m, x.ins[m]) /\ OutsFit(x, M, m, x.outs[m])
              /\ one => ParamsFit(x, m, x.params[m])
  <2>1. CASE m = r
    <3>1. InsFit(x, M, r, x.ins[r])
      BY <1>13, <1>16 DEF InsFit
    <3>2. OutsFit(x, M, r, x.outs[r])
      BY <1>11, <1>12 DEF OutsFit
    <3>3. ParamsFit(x, r, x.params[r])
      <4>1. x.params[r] = [in |-> t]
        BY <1>8, <1>12
      <4>2. Suits(x, t, r)
        BY <1>12, <1>14 DEF Suits, Device
      <4> QED
        BY <4>1, <4>2 DEF ParamsFit
    <3> QED
      BY <2>1, <3>1, <3>2, <3>3
  <2>2. CASE m # r
    <3>1. m \in L /\ m \in D
      BY <1>1, <2>2
    <3>2. InsFit(g, L, m, x.ins[m]) /\ OutsFit(g, L, m, x.outs[m]) /\ (one => ParamsFit(g, m, x.params[m]))
      BY <1>8, <1>12, <3>1 DEF AtHand
    <3>3. InsFit(x, M, m, x.ins[m]) /\ OutsFit(x, M, m, x.outs[m])
      BY <1>1, <1>15, <3>1, <3>2 DEF InsFit, OutsFit
    <3> QED
      BY <1>15, <3>1, <3>2, <3>3
  <2> QED
    BY <2>1, <2>2
<1>18. AtHand(E, x, M, one)
  <2>1. M \subseteq E
    BY <1>1
  <2> QED
    BY <1>12, <1>17, <2>1 DEF AtHand
<1>19. x = RecycleStart(g, n, r)
  BY DEF x, e, RecycleStart
<1>20. Device(x, r) = Device(x, n)
  BY <1>1, <1>14
<1> QED
  BY <1>2, <1>3, <1>15, <1>18, <1>19, <1>20 DEF r

LEMMA RecycleTurnFits ==
    ASSUME NEW D \in Domains, NEW x, NEW L, NEW one, NEW y \in Handy(D, x, L, one),
           NEW n \in L, NEW r \in L, NEW c \in L, Fits(x, r, c)
    PROVE  RecycleTurn(y, n, r, c) \in Handy(D, x, L, one)
<1> DEFINE e == [y EXCEPT !.layer[r] = y.layer[c]]
           f == RemoveInput(e, c, n)
           h == AddInput(f, c, r)
           list == Adding(Dropping(y.ins[c], n), r)
<1>1. /\ y \in NetsOn(D) /\ AtHand(D, y, L, one) /\ L \subseteq D /\ y.dev = x.dev
      /\ y.tensor = x.tensor /\ SameDevices(D, x, y)
  BY HandyIs
<1>2. n \in D /\ r \in D /\ c \in D
  BY <1>1
<1>3. e \in NetsOn(D) /\ SameBut(y, e, {"layer"})
  <2>1. y.layer \in [D -> Int]
    BY <1>1, NetParts
  <2>2. e.layer \in [D -> Int]
    BY <1>1, <1>2, <2>1 DEF NetsOn
  <2> QED
    BY <1>1, <2>2 DEF NetsOn, SameBut
<1> HIDE DEF e
<1>4. InputRemoved(D, e, f, c, n)
  BY <1>2, <1>3, RemoveInputIs
<1> HIDE DEF f
<1>5. f \in NetsOn(D)
  BY <1>4 DEF InputRemoved
<1>6. InputAdded(D, f, h, c, r)
  BY <1>2, <1>5, AddInputIs
<1> HIDE DEF h
<1>7. h \in NetsOn(D) /\ h.ins[c] = list /\ \A z \in D \ {c} : h.ins[z] = y.ins[z]
  <2>1. h.ins[c] = Adding(f.ins[c], r) /\ h \in NetsOn(D)
    BY <1>6 DEF InputAdded, Adding
  <2>2. f.ins[c] = Dropping(e.ins[c], n) /\ e.ins = y.ins
    BY <1>3, <1>4 DEF InputRemoved, Dropping, SameBut
  <2>3. \A z \in D \ {c} : h.ins[z] = y.ins[z]
    BY <1>4, <1>6, <2>2 DEF InputRemoved, InputAdded
  <2> QED
    BY <2>1, <2>2, <2>3
<1>8. h.outs = y.outs /\ h.params = y.params /\ SameBut(y, h, {"ins", "outs", "layer", "params"})
  BY <1>3, <1>4, <1>6 DEF InputRemoved, InputAdded, SameBut
<1>9. Relinked(D, y, h, c, list, y.outs)
  BY <1>7, <1>8 DEF Relinked
<1>10. Fits(y, r, c)
  BY <1>1, <1>2, FitsKept
<1>11. InsFit(y, L, c, list) /\ \A m \in L : OutsFit(y, L, m, y.outs[m])
  BY <1>1, <1>10, Moved DEF AtHand
<1> HIDE DEF list
<1>12. one => ParamsFit(y, c, h.params[c])
  BY <1>1, <1>8 DEF AtHand
<1> DEFINE outs == y.outs
<1>14. Relinked(D, y, h, c, list, outs) /\ \A m \in L : OutsFit(y, L, m, outs[m])
  BY <1>9, <1>11
<1>15. \A z \in D \ {c} : h.params[z] = y.params[z]
  BY <1>8
<1> HIDE DEF outs
<1>13. AtHand(D, h, L, one) /\ SameDevices(D, y, h) /\ h.tensor = y.tensor
  BY <1>14, <1>15, <1>1, <1>11, <1>12, RelinkFits
<1> QED
  BY <1>1, <1>13 DEF Handy, SameDevices, AtHand, h, f, e, RecycleTurn

(* A node behind another: what read the other reads the new one.           *)
LEMMA RecycleKeeps ==
    ASSUME NEW D \in Domains, NEW g, NEW L, NEW one, AtHand(D, g, L, one), NEW n \in L,
           n \in ModelNodes, g.ins[n] # << >>, <<"recycle", n>> \notin D
    PROVE  LET r == <<"recycle", n>>
           IN  /\ D \union {r} \in Domains
               /\ AtHand(D \union {r}, RecycleNode(g, n), L \union {r}, one)
<1> DEFINE r == <<"recycle", n>>
           E == D \union {r}
           M == L \union {r}
           x == RecycleStart(g, n, r)
           S == Handy(E, x, M, one)
           list == g.outs[n]
<1>1. g \in NetsOn(D) /\ L \subseteq D /\ n \in D
  BY DEF AtHand
<1>2. g.ins[n] \in Seq(D) /\ list \in Seq(D)
  BY <1>1, NetParts
<1>3. ~ Given(n)
  <2>1. 1 \in DOMAIN g.ins[n]
    BY <1>2
  <2>2. g.ins[n][1] \in Members(g.ins[n])
    BY <2>1 DEF Members
  <2>3. Fits(g, g.ins[n][1], n)
    BY <2>2 DEF AtHand, InsFit
  <2> QED
    BY <2>3, GivenIs
<1>4. /\ E \in Domains /\ AtHand(E, x, M, one)
      /\ \A i, m \in D : Fits(g, i, m) => Fits(x, i, m)
      /\ ~ Given(r) /\ Device(x, r) = Device(x, n)
  BY <1>3, RecycleStartFits
<1>5. x \in S
  BY <1>4 DEF Handy, AtHand
<1>6. Len(list) \in Nat /\ \A k \in 1 .. Len(list) : list[k] \in Members(list)
  BY <1>2 DEF Members
<1> HIDE DEF list, x
<1>7. ASSUME NEW c \in Members(list) PROVE c \in L /\ Fits(x, r, c)
  <2>1. c \in L /\ Fits(g, n, c)
    BY DEF AtHand, OutsFit, list
  <2>2. Fits(x, n, c)
    BY <1>1, <1>4, <2>1
  <2> QED
    BY <1>3, <1>4, <2>1, <2>2, GivenIs
<1> HIDE DEF S
<1>8. ASSUME NEW k \in 1 .. Len(list), NEW y \in S PROVE RecycleTurn(y, n, r, list[k]) \in S
  <2>1. list[k] \in M /\ Fits(x, r, list[k]) /\ n \in M /\ r \in M
    BY <1>6, <1>7
  <2> HIDE DEF r, E, M
  <2> QED
    BY <1>4, <2>1, RecycleTurnFits DEF S
<1>9. RecycleNode(g, n) \in S
  BY <1>5, <1>6, <1>8, RecycleLoop DEF x, list
<1> QED
  BY <1>4, <1>9 DEF S, Handy

-----------------------------------------------------------------------------
(* The second build *)

OneGPU == Len(setting.free) = 1

(* What is left of AtHand when the output lists are made anew.             *)
Held(D, g, L, one) ==
    /\ g \in NetsOn(D) /\ L \subseteq D
    /\ \A m \in L : InsFit(g, L, m, g.ins[m])
    /\ one => \A m \in L : ParamsFit(g, m, g.params[m])

Listed(L) == order \in Seq(L) /\ stack \in Seq(L \X (Nat \ {0}))

Rebuilding(L) ==
    /\ Dom \in Domains /\ Held(Dom, net, L, OneGPU) /\ Logits \in L
    /\ phase # "idle" => Listed(L)
    /\ phase = "visit" => stack # << >>

LEMMA HeldKept ==
    ASSUME NEW L, NEW one, Held(Dom, net, L, one), OnlyOuts
    PROVE  Held(Dom', net', L, one)
<1>1. SameDevices(Dom, net, net') /\ Dom' = Dom
  BY DEF OnlyOuts, SameDevices, Device
<1>2. L \subseteq Dom /\ net' \in NetsOn(Dom) /\ net'.ins = net.ins /\ net'.params = net.params
  BY DEF Held, OnlyOuts
<1>3. ASSUME NEW m \in L
      PROVE  InsFit(net', L, m, net'.ins[m]) /\ (one => ParamsFit(net', m, net'.params[m]))
  <2>1. InsFit(net, L, m, net.ins[m]) /\ (one => ParamsFit(net, m, net.params[m])) /\ m \in Dom
    BY <1>2 DEF Held
  <2>2. /\ \A list : InsFit(net, L, m, list) => InsFit(net', L, m, list)
        /\ \A f : ParamsFit(net, m, f) => ParamsFit(net', m, f)
    BY <1>1, <1>2, <2>1, FitsKept
  <2> QED
    BY <1>2, <2>1, <2>2
<1> QED
  BY <1>1, <1>2, <1>3 DEF Held

(* The calls of visit() stay among the nodes that fit.                     *)
LEMMA RebuildStep ==
    ASSUME NEW L, Rebuilding(L), Build \/ Building
    PROVE  Rebuilding(L)' /\ phase' # "idle"
<1>1. net \in NetsOn(Dom) /\ L \subseteq Dom /\ Logits \in L /\ Dom \in Domains
  BY DEF Rebuilding, Held
<1>2. setting' = setting
  BY DEF Build, Building, optVars
<1>3. ASSUME OnlyOuts, Listed(L)', phase' # "idle", phase' = "visit" => stack' # << >>
      PROVE  Rebuilding(L)' /\ phase' # "idle"
  <2>1. Held(Dom', net', L, OneGPU) /\ Dom' = Dom
    BY <1>3, HeldKept DEF Rebuilding, OnlyOuts
  <2>2. OneGPU' = OneGPU
    BY <1>2 DEF OneGPU
  <2>3. Held(Dom', net', L, OneGPU')
    BY <2>1, <2>2
  <2> QED
    BY <1>1, <1>3, <2>1, <2>3 DEF Rebuilding
<1>4. CASE Build
  <2>1. OnlyOuts
    <3> DEFINE f == [n \in Dom |-> IF n \in Members(order) THEN << >> ELSE net.outs[n]]
    <3>1. f \in [Dom -> Seq(Dom)] /\ DOMAIN net.outs = Dom
      BY <1>1 DEF NetsOn
    <3>2. net' = [net EXCEPT !.outs = f]
      BY <1>4, <3>1 DEF Build, BuildGraph
    <3> HIDE DEF f
    <3> QED
      BY <1>1, <3>1, <3>2, NewOuts
  <2>2. Listed(L)' /\ phase' # "idle" /\ stack' # << >>
    BY <1>1, <1>4 DEF Build, BuildGraph, Listed
  <2> QED
    BY <1>3, <2>1, <2>2
<1>5. CASE Building
  <2>0. phase # "idle"
    BY <1>5 DEF Building, Visit, Descend, UseInput, Finish, AnalyzeLifetimes
  <2>1. Listed(L)
    BY <2>0 DEF Rebuilding
  <2>2. CASE AnalyzeLifetimes
    <3>1. OnlyOuts /\ Listed(L)' /\ phase' = "built"
      BY <1>1, <2>1, <2>2 DEF AnalyzeLifetimes, OnlyOuts, Listed, Dom
    <3> QED
      BY <1>3, <3>1
  <2>3. CASE Visit /\ stack # << >>
    <3> DEFINE n == Len(stack)
    <3>1. n \in Nat \ {0} /\ stack[n] \in L \X (Nat \ {0}) /\ DOMAIN stack = 1 .. n
      BY <2>1, <2>3 DEF Listed
    <3>2. Node \in L /\ Top[2] \in Nat \ {0} /\ Top[1] = Node
      BY <3>1 DEF Node, Top
    <3>3. Node \in Dom /\ net.ins[Node] \in Seq(Dom)
      BY <1>1, <3>2, NetParts
    <3>4. ASSUME More PROVE NextInput \in L /\ NextInput \in Dom
      <4>1. NextInput \in Inputs(Node)
        BY <3>2, <3>3, <3>4 DEF More, NextInput, Inputs, Members
      <4>2. InsFit(net, L, Node, net.ins[Node])
        BY <3>2 DEF Rebuilding, Held
      <4> QED
        BY <1>1, <4>1, <4>2 DEF InsFit, Inputs
    <3>5. CASE Descend
      <4>1. stack' = Append(stack, <<NextInput, 1>>) /\ NextInput \in L
        BY <3>4, <3>5 DEF Descend
      <4>2. Listed(L)' /\ stack' # << >>
        BY <2>1, <3>5, <4>1 DEF Descend, Listed
      <4>3. OnlyOuts /\ phase' # "idle"
        BY <1>1, <3>5 DEF Descend, OnlyOuts, Dom
      <4> QED
        BY <1>3, <4>2, <4>3
    <3>6. CASE UseInput
      <4> DEFINE m == NextInput
                 f == [net.outs EXCEPT ![m] = Append(@, Node)]
      <4>1. m \in Dom
        BY <3>4, <3>6 DEF UseInput
      <4>2. net.outs \in [Dom -> Seq(Dom)]
        BY <1>1, NetParts
      <4> HIDE DEF m
      <4>3. Append(net.outs[m], Node) \in Seq(Dom)
        BY <3>3, <4>1, <4>2, AppendIs
      <4>4. f \in [Dom -> Seq(Dom)]
        BY <4>1, <4>2, <4>3
      <4>5. net' = [net EXCEPT !.outs = f]
        BY <3>6, <4>1 DEF UseInput, m
      <4> HIDE DEF f
      <4>6. OnlyOuts
        BY <1>1, <4>4, <4>5, NewOuts
      <4>7. stack' = [stack EXCEPT ![n][2] = @ + 1] /\ order' = order /\ phase' # "idle"
        BY <3>6 DEF UseInput
      <4>8. stack' \in Seq(L \X (Nat \ {0})) /\ stack' # << >>
        <5> HIDE DEF n
        <5>1. stack[n] \in L \X (Nat \ {0})
          BY <3>1
        <5>2. PICK a \in L, b \in Nat \ {0} : stack[n] = <<a, b>>
          BY <5>1
        <5>3. [stack[n] EXCEPT ![2] = @ + 1] = <<a, b + 1>>
          BY <5>2
        <5>4. stack' = [stack EXCEPT ![n] = [stack[n] EXCEPT ![2] = @ + 1]]
          BY <4>7
        <5> DEFINE c == <<a, b + 1>>
                   d == [stack[n] EXCEPT ![2] = @ + 1]
        <5>8. c \in L \X (Nat \ {0}) /\ d = c
          BY <5>3
        <5>9. stack' = [stack EXCEPT ![n] = d]
          BY <5>4
        <5> HIDE DEF c, d
        <5>5. stack' = [stack EXCEPT ![n] = c]
          BY <5>8, <5>9
        <5>6. stack' \in Seq(L \X (Nat \ {0}))
          BY <2>1, <3>1, <5>5, <5>8 DEF Listed
        <5>7. n \in DOMAIN stack'
          BY <3>1, <5>5
        <5> QED
          BY <5>6, <5>7
      <4> QED
        BY <1>3, <2>1, <4>6, <4>7, <4>8 DEF Listed
    <3>7. CASE Finish
      <4>1. /\ order' = Append(order, Node) /\ stack' = Pop /\ phase' # "idle" /\ net' = net
            /\ phase' = "visit" => stack' # << >>
        BY <3>7 DEF Finish
      <4>2. Pop \in Seq(L \X (Nat \ {0}))
        BY <2>1, <3>1 DEF Listed, Pop
      <4>3. Listed(L)'
        BY <2>1, <3>2, <4>1, <4>2 DEF Listed
      <4>4. OnlyOuts
        BY <1>1, <4>1 DEF OnlyOuts, Dom
      <4> QED
        BY <1>3, <4>1, <4>3, <4>4
    <3> QED
      BY <2>3, <3>5, <3>6, <3>7 DEF Visit
  <2>4. Visit => stack # << >>
    BY DEF Visit, Descend, UseInput, Finish, Rebuilding
  <2> QED
    BY <1>5, <2>2, <2>3, <2>4 DEF Building
<1> QED
  BY <1>4, <1>5

(* A kernel is given what its node's parameters name.                      *)
LEMMA HeldMeans ==
    ASSUME NEW L, Held(Dom, net, L, OneGPU), order \in Seq(L)
    PROVE  OperandsAtHand
<1> SUFFICES ASSUME NEW n \in Members(order), Op(n) # "MEM_CPY"
             PROVE  /\ \A i \in Inputs(n) : Op(i) = "MEM_REF" \/ Device(net, i) = Device(net, n)
                    /\ OneGPU => \A t \in ReadTensors(n) : net.dev[t] = Device(net, n)
  BY DEF OperandsAtHand, OneGPU
<1>1. n \in L
  BY DEF Members
<1>2. \A i \in Inputs(n) : Op(i) = "MEM_REF" \/ Device(net, i) = Device(net, n)
  <2>1. \A i \in Inputs(n) : Fits(net, i, n)
    BY <1>1 DEF Held, InsFit, Inputs
  <2> QED
    BY <2>1, GivenIs
<1>3. ASSUME OneGPU, NEW t \in ReadTensors(n) PROVE net.dev[t] = Device(net, n)
  <2>1. \A p \in DOMAIN Reads(n) : p \in DOMAIN net.params[n] /\ Reads(n)[p] = net.params[n][p]
    BY DEF Reads
  <2>2. \A p \in DOMAIN net.params[n] : Suits(net, net.params[n][p], n)
    BY <1>1, <1>3 DEF Held, ParamsFit
  <2>3. PICK p \in DOMAIN Reads(n) : t = Reads(n)[p]
    BY DEF ReadTensors
  <2> QED
    BY <2>1, <2>2, <2>3 DEF Suits
<1> QED
  BY <1>2, <1>3

-----------------------------------------------------------------------------
(* Where the tensors of the model are *)

(* The operands of a node are results, what it is given is its own.        *)
LEMMA OperandPlain ==
    ASSUME NEW s, NEW k, NEW l,
           k \in (PlainKinds \union TailKinds) \ {"att", "act", "res"}
    PROVE  Kind(Operand(s, k, l)) \in (PlainKinds \union TailKinds \union {"embed"}) \ {"logits"}
<1>0. Kind(Before(l)) \in {"embed", "res"} /\ Kind(Turned(s, l)) \in {"cq", "uq"}
  BY DEF Before, Turned, Kind
<1>1. \A j, m : Kind(<<j, m>>) = j
  BY DEF Kind
<1>2. CASE k \in {"norm1", "inp", "norm2", "norm3", "nq", "nk", "pq", "pk", "logits"}
  BY <1>0, <1>1, <1>2, OperandList DEF PlainKinds, TailKinds
<1>3. CASE k \in MulKinds \union QuantKinds
  BY <1>1, <1>3, OperandList DEF PlainKinds, TailKinds, MulKinds, QuantKinds
<1>4. CASE k \in MatmulKinds
  BY <1>1, <1>4, OperandList DEF PlainKinds, TailKinds, MatmulKinds
<1>5. CASE k \in {"rq", "rk", "rv", "ra", "sk", "sv", "gk", "gv", "cq"}
  BY <1>1, <1>5, OperandList DEF PlainKinds, TailKinds
<1> QED
  BY <1>2, <1>3, <1>4, <1>5 DEF PlainKinds, TailKinds, MulKinds, QuantKinds, MatmulKinds

LEMMA ReadsOwn ==
    ASSUME NEW s, NEW n \in ModelNodes, NEW i \in MI(s, n)
    PROVE  /\ ~ Given(n) /\ (Op(i) = "MEM_REF" => Given(i))
           /\ Given(i) => n = Owner(i) /\ Op(n) \in {"MUL", "MATMUL", "EMBEDDING"}
<1> DEFINE k == Kind(n)
           l == n[2]
<1>1. InputForm(s, n, i) /\ i \in ModelNodes /\ k # "weight"
  BY InputFormOf
<1>2. n = <<k, l>> /\ k \in DOMAIN OpOf /\ Op(n) = OpOf[k] /\ k \in PlainKinds \union HeadKinds \union TailKinds
  <2>1. n = <<k, l>> /\ k \in PlainKinds \union HeadKinds \union TailKinds
    BY <1>1, PlainForm
  <2>2. k \in DOMAIN OpOf /\ k \notin {"copy", "recycle"}
    BY <2>1, Kinds DEF PlainKinds, HeadKinds, TailKinds
  <2> QED
    BY <2>1, <2>2 DEF Op
<1>3. ~ Given(n)
  BY <1>1 DEF InputForm, MulKinds, MatmulKinds, PlainKinds, TailKinds, Given
<1>4. ASSUME Given(i) PROVE n = Owner(i) /\ Op(n) \in {"MUL", "MATMUL", "EMBEDDING"}
  <2>1. CASE k \in MulKinds \union MatmulKinds \union {"embed"} /\ i = <<"weight", k, l>>
    <3>1. Owner(i) = <<k, l>>
      BY <2>1 DEF Owner, Kind
    <3>2. OpOf[k] \in {"MUL", "MATMUL", "EMBEDDING"}
      BY <1>2, <2>1, OpsOf DEF OpOf
    <3> QED
      BY <1>2, <3>1, <3>2
  <2>2. CASE k = "embed" /\ i = <<"token", 0>>
    <3>1. n = <<"embed", 0>>
      BY <1>1, <2>2, PlainForm DEF PlainKinds, TailKinds
    <3>2. Owner(i) = <<"embed", 0>> /\ OpOf["embed"] = "EMBEDDING"
      BY <2>2 DEF Owner, Kind, OpOf
    <3> QED
      BY <1>2, <2>2, <3>1, <3>2
  <2>3. Kind(i) \in {"weight", "token"}
    BY <1>4 DEF Given
  <2>4. CASE k \in PlainKinds \union TailKinds /\ k \notin {"att", "act", "res"} /\ i = Operand(s, k, l)
    <3>1. Kind(i) \in (PlainKinds \union TailKinds \union {"embed"}) \ {"logits"}
      BY <2>4, OperandPlain
    <3> QED
      BY <2>3, <3>1 DEF PlainKinds, TailKinds
  <2>5. \A j, m : Kind(<<j, m>>) = j
    BY DEF Kind
  <2> QED
    BY <1>1, <2>1, <2>2, <2>3, <2>4, <2>5 DEF InputForm
<1>5. ASSUME Op(i) = "MEM_REF" PROVE Given(i)
  <2>1. Kind(i) \in {"weight", "token", "logits"}
    <3>1. Kind(i) \in DOMAIN OpOf /\ Kind(i) \notin {"copy", "recycle"}
      BY <1>1, NodeShape, Kinds DEF PlainKinds, HeadKinds, TailKinds
    <3>2. Op(i) = OpOf[Kind(i)]
      BY <3>1 DEF Op
    <3> QED
      BY <1>5, <3>1, <3>2, OpsOf
  <2>2. Kind(i) # "logits"
    <3>1. CASE k \in PlainKinds \union TailKinds /\ k \notin {"att", "act", "res"} /\ i = Operand(s, k, l)
      <4>1. Kind(i) \in (PlainKinds \union TailKinds \union {"embed"}) \ {"logits"}
        BY <3>1, OperandPlain
      <4> QED
        BY <4>1
    <3>2. \A j, m, o : Kind(<<j, m>>) = j /\ Kind(<<j, m, o>>) = j
      BY DEF Kind
    <3> QED
      BY <1>1, <3>1, <3>2 DEF InputForm
  <2> QED
    BY <2>1, <2>2 DEF Given
<1> QED
  BY <1>3, <1>4, <1>5

(* A tensor that a node is given is a result it reads, or its own.         *)
Operates(s, n, t) == \E i \in MI(s, n) : Op(i) # "MEM_REF" /\ t = TensorOf(s, i)
ParamForm(s, n, t) ==
    LET k == Kind(n)
    IN  \/ Operates(s, n, t)
        \/ k \in MulKinds \union MatmulKinds /\ t = <<"weight", k, n[2]>>
        \/ k \in {"pq", "pk"} /\ t = Table
        \/ k = "att" /\ t = <<"mask", 0>>
        \/ k = "embed" /\ t \in {<<"weight", "embed", 0>>, <<"token", 0>>}

LEMMA ParamFormOf ==
    ASSUME NEW s, NEW n \in ModelNodes, NEW p \in DOMAIN ModelParams(s, n)
    PROVE  ParamForm(s, n, ModelParams(s, n)[p])
<1> DEFINE k == Kind(n)
           l == n[2]
           i == Operand(s, k, l)
           T == PlainKinds \union TailKinds
           P == {"pq", "pk", "att", "inp", "act", "res"}
<1>0. k \notin {"weight", "token", "mask", "tableq", "tablek"}
  BY ParamList
<1>1. n = <<k, l>> /\ (k \in T \/ k = "embed")
  BY <1>0, PlainForm DEF HeadKinds
<1>2. \A j : j \in MI(s, n) /\ Kind(j) \in (T \union {"embed"}) \ {"logits"} =>
                Operates(s, n, TensorOf(s, j))
  <2> SUFFICES ASSUME NEW j \in MI(s, n), Kind(j) \in (T \union {"embed"}) \ {"logits"}
               PROVE  Op(j) # "MEM_REF"
    BY DEF Operates
  <2>1. Kind(j) \in DOMAIN OpOf /\ Kind(j) \notin {"copy", "recycle", "weight", "token", "logits"}
    BY Kinds DEF PlainKinds, TailKinds, HeadKinds
  <2>2. Op(j) = OpOf[Kind(j)]
    BY <2>1 DEF Op
  <2> QED
    BY <2>1, <2>2, OpsOf
<1>3. k \in T \ {"att", "act", "res"} => Kind(i) \in (T \union {"embed"}) \ {"logits"}
  BY OperandPlain
<1>4. \A j, m : Kind(<<j, m>>) = j
  BY DEF Kind
<1>5. CASE k \in MulKinds \union MatmulKinds
  <2>1. ModelInputs(s, n) = <<i, <<"weight", k, l>>>> /\ k \in T \ {"att", "act", "res"}
    BY <1>5, InputList DEF MulKinds, MatmulKinds, PlainKinds, TailKinds
  <2>2. i \in MI(s, n)
    BY <2>1, MembersOf DEF MI
  <2>3. ModelParams(s, n) = [x |-> TensorOf(s, i), weight |-> <<"weight", k, l>>]
    BY <1>5, ParamList
  <2>4. Operates(s, n, TensorOf(s, i))
    BY <1>2, <1>3, <2>1, <2>2
  <2> HIDE DEF i
  <2>5. ModelParams(s, n)[p] \in {TensorOf(s, i), <<"weight", k, l>>}
    BY <2>3
  <2> QED
    BY <1>5, <2>4, <2>5 DEF ParamForm
<1>6. CASE k \in {"pq", "pk"}
  <2>1. ModelInputs(s, n) \in {<<<<"tableq", 0>>, i>>, <<<<"tablek", 0>>, i>>, <<i>>} /\ k \in T \ {"att", "act", "res"}
    BY <1>6, InputList DEF PlainKinds, TailKinds
  <2>2. i \in MI(s, n)
    BY <2>1, MembersOf DEF MI
  <2>3. ModelParams(s, n) = [in |-> TensorOf(s, i), table |-> Table]
    BY <1>6, ParamList
  <2>4. Operates(s, n, TensorOf(s, i))
    BY <1>2, <1>3, <2>1, <2>2
  <2> HIDE DEF i
  <2>5. ModelParams(s, n)[p] \in {TensorOf(s, i), Table}
    BY <2>3
  <2> QED
    BY <1>6, <2>4, <2>5 DEF ParamForm
<1>7. CASE k = "att"
  <2>1. {<<"pq", l>>, <<"pk", l>>, <<"gv", l>>} \subseteq MI(s, n)
    BY <1>7, InputList
  <2>2. ModelParams(s, n)[p] \in {TensorOf(s, <<"pq", l>>), TensorOf(s, <<"pk", l>>),
                                  TensorOf(s, <<"gv", l>>), <<"mask", 0>>}
    <3>1. ModelParams(s, n) = [q |-> TensorOf(s, <<"pq", l>>), k |-> TensorOf(s, <<"pk", l>>),
                               v |-> TensorOf(s, <<"gv", l>>), mask |-> <<"mask", 0>>]
      BY <1>7, ParamList
    <3> QED
      BY <3>1
  <2>3. {"pq", "pk", "gv"} \subseteq T \ {"logits"}
    BY DEF PlainKinds, TailKinds
  <2> QED
    BY <1>2, <1>4, <1>7, <2>1, <2>2, <2>3 DEF ParamForm
<1>8. CASE k = "inp"
  <2>1. ModelInputs(s, n) = <<<<"mo", l>>, i>> /\ k \in T \ {"att", "act", "res"}
    BY <1>8, InputList DEF PlainKinds
  <2>2. i \in MI(s, n) /\ <<"mo", l>> \in MI(s, n)
    BY <2>1, MembersOf DEF MI
  <2>3. ModelParams(s, n) = [x1 |-> TensorOf(s, <<"mo", l>>), x2 |-> TensorOf(s, i)]
    BY <1>8, ParamList
  <2>4. Operates(s, n, TensorOf(s, i))
    BY <1>2, <1>3, <2>1, <2>2
  <2>5. Operates(s, n, TensorOf(s, <<"mo", l>>))
    BY <1>2, <1>4, <2>2 DEF PlainKinds
  <2> HIDE DEF i
  <2>6. ModelParams(s, n)[p] \in {TensorOf(s, i), TensorOf(s, <<"mo", l>>)}
    BY <2>3
  <2> QED
    BY <2>4, <2>5, <2>6 DEF ParamForm
<1>9. CASE k = "act"
  <2>1. ModelInputs(s, n) = <<<<"gate", l>>, <<"up", l>>>>
    BY <1>9, InputList
  <2>2. <<"gate", l>> \in MI(s, n) /\ <<"up", l>> \in MI(s, n)
    BY <2>1, MembersOf DEF MI
  <2>3. ModelParams(s, n) = [x1 |-> TensorOf(s, <<"gate", l>>), x2 |-> TensorOf(s, <<"up", l>>)]
    BY <1>9, ParamList
  <2>4. ModelParams(s, n)[p] \in {TensorOf(s, <<"gate", l>>), TensorOf(s, <<"up", l>>)}
    BY <2>3
  <2> QED
    BY <1>2, <1>4, <2>2, <2>4 DEF ParamForm, PlainKinds
<1>10. CASE k = "res"
  <2>1. ModelInputs(s, n) = <<<<"inp", l>>, <<"down", l>>>>
    BY <1>10, InputList
  <2>2. <<"inp", l>> \in MI(s, n) /\ <<"down", l>> \in MI(s, n)
    BY <2>1, MembersOf DEF MI
  <2>3. ModelParams(s, n) = [x1 |-> TensorOf(s, <<"inp", l>>), x2 |-> TensorOf(s, <<"down", l>>)]
    BY <1>10, ParamList
  <2>4. ModelParams(s, n)[p] \in {TensorOf(s, <<"inp", l>>), TensorOf(s, <<"down", l>>)}
    BY <2>3
  <2> QED
    BY <1>2, <1>4, <2>2, <2>4 DEF ParamForm, PlainKinds
<1>11. CASE k = "embed"
  <2>1. ModelParams(s, n) = [weight |-> <<"weight", "embed", 0>>, token |-> <<"token", 0>>]
    BY <1>11, ParamList
  <2>2. ModelParams(s, n)[p] \in {<<"weight", "embed", 0>>, <<"token", 0>>}
    BY <2>1
  <2> QED
    BY <1>11, <2>2 DEF ParamForm
<1>12. CASE k \in T \ (MulKinds \union MatmulKinds \union P)
  <2>1. ModelInputs(s, n) = <<i>> /\ k \in T \ {"att", "act", "res"}
    BY <1>12, InputList
  <2>2. i \in MI(s, n)
    BY <2>1, MembersOf DEF MI
  <2>3. ModelParams(s, n) = [in |-> TensorOf(s, i)]
    BY <1>12, ParamList
  <2>4. Operates(s, n, TensorOf(s, i))
    BY <1>2, <1>3, <2>1, <2>2
  <2> HIDE DEF i
  <2>5. ModelParams(s, n)[p] = TensorOf(s, i)
    BY <2>3
  <2> QED
    BY <2>4, <2>5 DEF ParamForm
<1> QED
  BY <1>1, <1>5, <1>6, <1>7, <1>8, <1>9, <1>10, <1>11, <1>12

(* What stays with the host, and the nodes that need no GPU.               *)
Host == {<<"embed", 0>>, <<"token", 0>>, <<"weight", "embed", 0>>}
Aside(n) == Kind(n) \in {"weight", "token", "embed", "logits"}

LEMMA DeviceRange ==
    ASSUME NEW s \in Settings
    PROVE  /\ \A t \in ModelTensors : ModelDevice(s, t) \in {CPU} \union DOMAIN s.free
           /\ \A t \in Host : ModelDevice(s, t) = CPU /\ t \in ModelTensors
           /\ CPU \notin DOMAIN s.free /\ (Len(s.free) = 1 => DOMAIN s.free = {1})
<1>0. NLayers \in Nat /\ NLayers - 1 \in Layers /\ 0 \in Layers
  BY LayersAssumption DEF Layers
<1>1. \A l \in Layers : BindDevice(s.free, l) \in DOMAIN s.free
  BY SettingFree, BindIsGPU
<1>2. 1 \in DOMAIN s.free /\ CPU \notin DOMAIN s.free /\ (Len(s.free) = 1 => DOMAIN s.free = {1})
  BY SettingFree DEF CPU
<1>3. ASSUME NEW n \in ModelNodes
      PROVE  ModelDevice(s, n) \in {CPU} \union DOMAIN s.free
  <2>1. CASE IsWeight(n)
    <3>1. Kind(n) = "weight" /\ n[3] \in Layers
      BY <2>1, NodeShape DEF IsWeight
    <3> QED
      BY <1>0, <1>1, <3>1 DEF ModelDevice
  <2>2. CASE ~ IsWeight(n)
    <3>1. Kind(n) # "weight" /\ n[2] \in Layers
      BY <2>2, NodeShape, LayersAssumption DEF IsPlain, Layers
    <3>2. n[2] # 0 => n[2] - 1 \in Layers
      BY <3>1, LayersAssumption DEF Layers
    <3>4. ModelDevice(s, n) \in {CPU, 1} \union {BindDevice(s.free, l) : l \in Layers}
      BY <1>0, <3>1, <3>2 DEF ModelDevice
    <3> QED
      BY <1>1, <1>2, <3>4
  <2> QED
    BY <2>1, <2>2
<1>4. ModelDevice(s, Table) = 1
  BY DEF ModelDevice, Kind, Table
<1>5. \A t \in Host : ModelDevice(s, t) = CPU
  BY DEF Host, ModelDevice, Kind
<1>6. Host \subseteq ModelTensors
  BY PlainNode DEF Host, ModelTensors, HeadKinds
<1> QED
  BY <1>2, <1>3, <1>4, <1>5, <1>6 DEF ModelTensors

(* The weight of a product, the table and the mask are meant for a GPU.    *)
LEMMA GivenDevices ==
    ASSUME NEW s \in Settings, NEW n \in ModelNodes
    PROVE  /\ Kind(n) \in MulKinds \union MatmulKinds =>
                  LET t == <<"weight", Kind(n), n[2]>>
                  IN  t \in ModelTensors /\ ModelDevice(s, t) # CPU
           /\ LET t == <<"mask", 0>> IN t \in ModelTensors /\ ModelDevice(s, t) # CPU
           /\ Table \in ModelTensors /\ ModelDevice(s, Table) # CPU
           /\ Kind(n) \in {"mask", "tableq", "tablek", "mul3", "out"} =>
                  ModelDevice(s, TensorOf(s, n)) # CPU
<1>0. NLayers \in Nat /\ NLayers - 1 \in Layers /\ 0 \in Layers
  BY LayersAssumption DEF Layers
<1>1. \A l \in Layers : BindDevice(s.free, l) # CPU
  BY SettingFree, BindIsGPU DEF CPU
<1>2. /\ ModelDevice(s, Table) = 1 /\ ModelDevice(s, <<"mask", 0>>) = 1 /\ 1 # CPU
      /\ Table \in ModelTensors /\ <<"mask", 0>> \in ModelTensors
  BY PlainNode DEF ModelDevice, Kind, Table, CPU, ModelTensors, HeadKinds
<1>3. ASSUME Kind(n) \in MulKinds \union MatmulKinds
      PROVE  LET t == <<"weight", Kind(n), n[2]>> IN t \in ModelTensors /\ ModelDevice(s, t) # CPU
  <2> DEFINE k == Kind(n)
             l == n[2]
             t == <<"weight", k, l>>
  <2>1. k # "weight" /\ k # "embed" /\ k \notin HeadKinds
    BY <1>3 DEF MulKinds, MatmulKinds, HeadKinds
  <2>2. l \in Layers /\ (k \in PlainKinds \/ (k \in TailKinds /\ l = 0))
    BY <2>1, PlainForm
  <2>3. t \in ModelNodes
    <3>1. CASE k \in TailKinds
      <4>1. k \in {"mul3", "out"}
        BY <1>3, <3>1 DEF TailKinds, MulKinds, MatmulKinds
      <4>2. l = 0
        BY <2>2, <4>1 DEF PlainKinds
      <4> QED
        BY <4>1, <4>2, PlainNode
    <3>2. CASE k \notin TailKinds
      BY <1>3, <2>2, <3>2, PlainNode
    <3> QED
      BY <3>1, <3>2
  <2>4. Kind(t) = "weight" /\ t[3] = l /\ t # <<"weight", "embed", 0>>
    BY <2>1 DEF Kind
  <2>5. ModelDevice(s, t) = BindDevice(s.free, l)
    <3> HIDE DEF t
    <3> QED
      BY <2>4 DEF ModelDevice
  <2> QED
    BY <1>1, <2>2, <2>3, <2>5 DEF ModelTensors
<1>4. ASSUME Kind(n) \in {"mask", "tableq", "tablek", "mul3", "out"}
      PROVE  ModelDevice(s, TensorOf(s, n)) # CPU
  <2>1. TensorOf(s, n) = IF Kind(n) \in {"tableq", "tablek"} THEN Table ELSE n
    BY <1>4, TensorList
  <2>2. CASE Kind(n) \in {"tableq", "tablek"}
    BY <1>2, <2>1, <2>2
  <2>3. CASE Kind(n) \in {"mask", "mul3", "out"}
    <3>1. n[2] \in Layers /\ n # <<"weight", "embed", 0>>
      BY <2>3, PlainForm DEF Kind
    <3>2. ModelDevice(s, n) \in {1} \union {BindDevice(s.free, l) : l \in Layers}
      BY <1>0, <2>3, <3>1 DEF ModelDevice
    <3> QED
      BY <1>1, <1>2, <2>1, <2>3, <3>2
  <2> QED
    BY <1>4, <2>2, <2>3
<1> QED
  BY <1>2, <1>3, <1>4

(* The tensors are with the host or on a GPU, some with the host for good. *)
Ranged ==
    /\ \A t \in ModelTensors : net.dev[t] \in {CPU} \union DOMAIN setting.free
    /\ \A t \in Host : net.dev[t] = CPU

(* With one GPU what a node is given is where the node is, or a result     *)
(* that it reads.                                                          *)
LEMMA GivenAtHand ==
    ASSUME setting \in Settings, OneGPU, net \in NetsOn(Dom), Placed, Ranged, NEW n \in ModelNodes,
           Aside(n) \/ Device(net, n) # CPU, NEW p \in DOMAIN ModelParams(setting, n)
    PROVE  LET t == ModelParams(setting, n)[p]
           IN  Suits(net, t, n) \/ Operates(setting, n, t)
<1> DEFINE t == ModelParams(setting, n)[p]
           k == Kind(n)
<1>1. ParamForm(setting, n, t)
  BY ParamFormOf
<1> HIDE DEF t
<1>2. DOMAIN setting.free = {1} /\ CPU # 1
  BY DeviceRange DEF OneGPU
<1>3. TensorOf(setting, n) \in ModelTensors /\ Device(net, n) = net.dev[TensorOf(setting, n)]
  BY TensorIn DEF Placed, Device
<1>4. ~ Aside(n) => Device(net, n) = 1
  BY <1>2, <1>3 DEF Ranged
<1>5. \A u \in ModelTensors : ModelDevice(setting, u) # CPU => net.dev[u] = 1
  BY <1>2, DeviceRange DEF Placed
<1>6. CASE k \in MulKinds \union MatmulKinds /\ t = <<"weight", k, n[2]>>
  <2>1. ~ Aside(n)
    BY <1>6 DEF Aside, MulKinds, MatmulKinds
  <2>2. net.dev[t] = 1
    BY <1>5, <1>6, GivenDevices
  <2> QED
    BY <1>4, <2>1, <2>2 DEF Suits, t
<1>7. CASE (k \in {"pq", "pk"} /\ t = Table) \/ (k = "att" /\ t = <<"mask", 0>>)
  <2>1. ~ Aside(n)
    BY <1>7 DEF Aside
  <2>2. t \in ModelTensors /\ ModelDevice(setting, t) # CPU
    <3>1. /\ Table \in ModelTensors /\ ModelDevice(setting, Table) # CPU
          /\ <<"mask", 0>> \in ModelTensors /\ ModelDevice(setting, <<"mask", 0>>) # CPU
      BY GivenDevices
    <3> QED
      BY <1>7, <3>1
  <2>3. net.dev[t] = 1
    BY <1>5, <2>2
  <2> QED
    BY <1>4, <2>1, <2>3 DEF Suits, t
<1>8. CASE k = "embed" /\ t \in {<<"weight", "embed", 0>>, <<"token", 0>>}
  <2>1. n = <<"embed", 0>>
    BY <1>8, PlainForm DEF PlainKinds
  <2>2. TensorOf(setting, n) = n
    BY <1>8, TensorList
  <2>3. net.dev[t] = CPU /\ Device(net, n) = CPU
    BY <1>3, <1>8, <2>1, <2>2 DEF Ranged, Host
  <2> QED
    BY <2>3 DEF Suits, t
<1> QED
  BY <1>1, <1>6, <1>7, <1>8 DEF ParamForm, t

-----------------------------------------------------------------------------
(* What the first build says of output lists, and of the end of the list   *)

Out == <<"out", 0>>

(* A call for x has gone past the input i.                                 *)
Gone(x, i) ==
    \E k \in DOMAIN stack : stack[k][1] = x /\ \E j \in 1 .. stack[k][2] - 1 : net.ins[x][j] = i

(* A node is listed once by each of its inputs that was used already.      *)
OutsRight ==
    \A i \in Dom : /\ Distinct(net.outs[i])
                   /\ \A x \in Members(net.outs[i]) :
                          i \in Inputs(x) /\ (x \in Members(order) \/ Gone(x, i))

(* The output comes last, and right before it what it reads.               *)
EndCalls ==
    /\ Len(stack) >= 2 => stack[2][1] = Out
    /\ Len(stack) = 1 => \/ order = << >> /\ stack[1][2] = 1
                         \/ order # << >> /\ order[Len(order)] = Out
Ended == Len(order) >= 2 /\ order[Len(order)] = Logits /\ order[Len(order) - 1] = Out

FirstBuild ==
    /\ OutsRight
    /\ phase = "idle" => order = << >> /\ stack = << >>
    /\ phase # "idle" => IF stack = << >> THEN Ended ELSE EndCalls

(* The call on top; the output has one input.                              *)
LEMMA FirstTop ==
    ASSUME Early, Calls, stack # << >>
    PROVE  LET n == Len(stack)
           IN  /\ n \in Nat \ {0} /\ DOMAIN stack = 1 .. n /\ Top = stack[n] /\ Node = stack[n][1]
               /\ Node \in Dom /\ stack[n][2] \in Nat \ {0} /\ net.ins[Node] \in Seq(Dom)
               /\ Distinct(net.ins[Node])
               /\ More => /\ NextInput \in Dom /\ NextInput \in Inputs(Node)
                          /\ NextInput = net.ins[Node][stack[n][2]] /\ stack[n][2] <= Len(net.ins[Node])
               /\ ~ More => ~ stack[n][2] <= Len(net.ins[Node])
               /\ n = 1 => Node = Logits /\ Len(net.ins[Node]) = 1 /\ net.ins[Node][1] = Out
<1>1. net \in NetsOn(Dom) /\ Dom = ModelNodes
  BY DEF Early
<1>2. /\ Len(stack) \in Nat \ {0} /\ DOMAIN stack = 1 .. Len(stack)
      /\ Top = stack[Len(stack)] /\ Top \in Dom \X (Nat \ {0})
      /\ Node \in Dom /\ Node = stack[Len(stack)][1]
      /\ net.ins[Node] \in Seq(Dom)
      /\ More => NextInput \in Dom /\ NextInput \in Inputs(Node)
  BY <1>1, TopCall
<1>3. net.ins[Node] = ModelInputs(setting, Node)
  BY <1>1, <1>2 DEF Early, Untouched
<1>4. Distinct(net.ins[Node])
  BY <1>1, <1>2, <1>3, InputsOnce
<1>5. ASSUME Len(stack) = 1 PROVE Node = Logits /\ net.ins[Node] = <<Out>>
  <2>1. Node = Logits
    BY <1>2, <1>5 DEF Calls
  <2> QED
    BY <1>3, <2>1, TailInputs DEF Out
<1>6. Len(stack) = 1 => Node = Logits /\ Len(net.ins[Node]) = 1 /\ net.ins[Node][1] = Out
  <2> SUFFICES ASSUME Len(stack) = 1 PROVE Node = Logits /\ Len(net.ins[Node]) = 1 /\ net.ins[Node][1] = Out
    OBVIOUS
  <2>1. Node = Logits /\ net.ins[Node] = <<Out>>
    BY <1>5
  <2> HIDE DEF Node
  <2> QED
    BY <2>1
<1>7. stack[Len(stack)][2] \in Nat \ {0}
  BY <1>2
<1> QED
  BY <1>2, <1>4, <1>6, <1>7 DEF More, NextInput

LEMMA FirstDescend ==
    ASSUME Early, Calls, OutsRight, EndCalls, stack # << >>, Descend
    PROVE  OutsRight' /\ EndCalls' /\ stack' # << >>
<1> DEFINE n == Len(stack)
           m == NextInput
<1>1. More /\ stack' = Append(stack, <<m, 1>>) /\ net' = net /\ order' = order
  BY DEF Descend
<1>2. /\ n \in Nat \ {0} /\ DOMAIN stack = 1 .. n /\ stack[n][2] \in Nat \ {0}
      /\ m \in Dom /\ m = net.ins[Node][stack[n][2]] /\ stack[n][2] <= Len(net.ins[Node])
      /\ n = 1 => Node = Logits /\ Len(net.ins[Node]) = 1 /\ net.ins[Node][1] = Out
  BY <1>1, FirstTop
<1> HIDE DEF m
<1>3. stack \in Seq(Dom \X (Nat \ {0})) /\ <<m, 1>> \in Dom \X (Nat \ {0})
  BY <1>2 DEF Calls
<1>4. /\ DOMAIN stack' = 1 .. n + 1 /\ Len(stack') = n + 1 /\ stack'[n + 1] = <<m, 1>>
      /\ \A k \in 1 .. n : stack'[k] = stack[k]
  BY <1>1, <1>2, <1>3
<1> HIDE DEF n
<1>5. \A x, i : Gone(x, i) => Gone(x, i)'
  <2>1. \A k \in DOMAIN stack : k \in DOMAIN stack' /\ stack'[k] = stack[k]
    BY <1>2, <1>4
  <2> QED
    BY <1>1, <2>1 DEF Gone
<1>6. OutsRight'
  BY <1>1, <1>5 DEF OutsRight, Dom, Inputs
<1>7. EndCalls'
  <2>1. CASE n = 1
    <3>1. m = Out
      BY <1>2, <2>1
    <3>2. stack'[2] = <<m, 1>> /\ Len(stack') = 2
      BY <1>4, <2>1
    <3>3. stack'[2][1] = Out
      BY <3>1, <3>2
    <3> QED
      BY <3>2, <3>3 DEF EndCalls
  <2>2. CASE n # 1
    <3>1. stack'[2] = stack[2] /\ n >= 2
      BY <1>2, <1>4, <2>2
    <3>2. stack[2][1] = Out
      BY <3>1 DEF EndCalls, n
    <3>3. Len(stack') # 1
      BY <1>2, <1>4
    <3> QED
      BY <3>1, <3>2, <3>3 DEF EndCalls
  <2> QED
    BY <2>1, <2>2
<1>8. n + 1 \in DOMAIN stack'
  BY <1>2, <1>4
<1> QED
  BY <1>6, <1>7, <1>8

LEMMA FirstUse ==
    ASSUME Early, Calls, OutsRight, EndCalls, stack # << >>, UseInput
    PROVE  OutsRight' /\ EndCalls' /\ stack' # << >>
<1> DEFINE n == Len(stack)
           m == NextInput
           x == Node
           list == net.ins[x]
           t == stack[n][2]
<1>1. /\ More /\ stack' = [stack EXCEPT ![n][2] = @ + 1] /\ order' = order
      /\ net' = [net EXCEPT !.outs[m] = Append(@, x)] /\ uses[m] # -1
  BY DEF UseInput
<1>2. /\ n \in Nat \ {0} /\ DOMAIN stack = 1 .. n /\ t \in Nat \ {0} /\ x \in Dom /\ x = stack[n][1]
      /\ list \in Seq(Dom) /\ Distinct(list) /\ m \in Dom /\ m \in Inputs(x)
      /\ m = list[t] /\ t <= Len(list)
      /\ n = 1 => x = Logits /\ Len(list) = 1 /\ list[1] = Out
  BY <1>1, FirstTop
<1> HIDE DEF m, n
<1>3. net.outs \in [Dom -> Seq(Dom)] /\ net.outs[m] \in Seq(Dom)
  <2>1. m \in Dom
    BY <1>2
  <2>2. net \in NetsOn(Dom)
    BY DEF Early
  <2> HIDE DEF x, list, t
  <2>3. net.outs \in [Dom -> Seq(Dom)]
    BY <2>2, NetParts
  <2> QED
    BY <2>1, <2>3
<1>4. /\ net'.ins = net.ins /\ Dom' = Dom /\ net'.outs[m] = Append(net.outs[m], x)
      /\ \A i \in Dom \ {m} : net'.outs[i] = net.outs[i]
  BY <1>1, <1>2, <1>3 DEF Dom, Early, NetsOn
<1>5. /\ DOMAIN stack' = 1 .. n /\ \A k \in 1 .. n - 1 : stack'[k] = stack[k]
      /\ stack'[n][2] = t + 1 /\ stack'[n][1] = x /\ \A k \in 1 .. n : stack'[k][1] = stack[k][1]
      /\ Len(stack') = n
  <2>0. stack \in Seq(Dom \X (Nat \ {0}))
    BY DEF Calls
  <2>1. stack[n] \in Dom \X (Nat \ {0})
    BY <1>2, <2>0
  <2>2. PICK a \in Dom, b \in Nat \ {0} : stack[n] = <<a, b>>
    BY <2>1
  <2> DEFINE c == <<a, b + 1>>
             d == [stack[n] EXCEPT ![2] = @ + 1]
  <2>3. d = c /\ stack[n][1] = a /\ stack[n][2] = b
    BY <2>2
  <2>4. stack' = [stack EXCEPT ![n] = d]
    BY <1>1
  <2>5. c[1] = a /\ c[2] = b + 1
    OBVIOUS
  <2> HIDE DEF c, d
  <2>6. stack' = [stack EXCEPT ![n] = c]
    BY <2>3, <2>4
  <2>7. /\ DOMAIN stack' = 1 .. n /\ stack'[n] = c
        /\ \A k \in 1 .. n : k # n => stack'[k] = stack[k]
    BY <1>2, <2>6
  <2>8. \A k \in 1 .. n - 1 : stack'[k] = stack[k]
    BY <1>2, <2>7
  <2>9. \A k \in 1 .. n : stack'[k][1] = stack[k][1]
    BY <2>3, <2>5, <2>7
  <2>10. Len(stack') = n
    BY <1>2, <2>0, <2>6 DEF n
  <2> QED
    BY <1>2, <2>3, <2>5, <2>7, <2>8, <2>9, <2>10
<1>6. x \notin Members(net.outs[m])
  <2> SUFFICES ASSUME x \in Members(net.outs[m]) PROVE FALSE
    OBVIOUS
  <2>1. x \notin Members(order)
    BY <1>2 DEF Calls, Open
  <2>2. Gone(x, m)
    BY <1>2, <2>1 DEF OutsRight
  <2>3. PICK k \in DOMAIN stack : stack[k][1] = x /\ \E j \in 1 .. stack[k][2] - 1 : list[j] = m
    BY <2>2 DEF Gone
  <2>4. k = n
    BY <1>2, <2>3 DEF Calls
  <2>5. PICK j \in 1 .. t - 1 : list[j] = m
    BY <2>3, <2>4
  <2>6. j \in DOMAIN list /\ t \in DOMAIN list /\ j # t /\ list[j] = list[t]
    BY <1>2, <2>5
  <2> QED
    BY <1>2, <2>6 DEF Distinct
<1>7. /\ Distinct(Append(net.outs[m], x))
      /\ Members(Append(net.outs[m], x)) = Members(net.outs[m]) \union {x}
  <2>1. Distinct(net.outs[m])
    BY <1>2 DEF OutsRight
  <2>2. Distinct(Append(net.outs[m], x))
    BY <1>2, <1>3, <1>6, <2>1, AppendDistinct
  <2>3. Members(Append(net.outs[m], x)) = Members(net.outs[m]) \union {x}
    <3>1. x \in Dom /\ net.outs[m] \in Seq(Dom)
      BY <1>2, <1>3
    <3> HIDE DEF x
    <3>2. /\ Append(net.outs[m], x) \in Seq(Dom)
          /\ Members(Append(net.outs[m], x)) = Members(net.outs[m]) \union {x}
      BY <3>1, AppendIs
    <3> QED
      BY <3>2
  <2> QED
    BY <2>2, <2>3
<1>8. \A y, i : Gone(y, i) => Gone(y, i)'
  <2> SUFFICES ASSUME NEW y, NEW i, Gone(y, i) PROVE Gone(y, i)'
    OBVIOUS
  <2>1. PICK k \in DOMAIN stack : stack[k][1] = y /\ \E j \in 1 .. stack[k][2] - 1 : net.ins[y][j] = i
    BY DEF Gone
  <2>2. CASE k = n
    <3>1. \A j \in 1 .. t - 1 : j \in 1 .. stack'[n][2] - 1
      BY <1>2, <1>5
    <3>2. n \in DOMAIN stack' /\ stack'[n][1] = y
      BY <1>2, <1>5, <2>1, <2>2
    <3> QED
      BY <1>4, <2>1, <2>2, <3>1, <3>2 DEF Gone
  <2>3. CASE k # n
    <3>1. k \in DOMAIN stack' /\ stack'[k] = stack[k]
      BY <1>2, <1>5, <2>1, <2>3
    <3> QED
      BY <1>4, <2>1, <3>1 DEF Gone
  <2> QED
    BY <2>2, <2>3
<1>9. \A y, i : y = x /\ i = m => Gone(y, i)'
  <2>1. t \in 1 .. stack'[n][2] - 1 /\ n \in DOMAIN stack' /\ stack'[n][1] = x
    BY <1>2, <1>5
  <2> QED
    BY <1>2, <1>4, <2>1 DEF Gone
<1> HIDE DEF x, t
<1>10. ASSUME NEW i \in Dom
       PROVE  /\ Distinct(net'.outs[i])
              /\ \A y \in Members(net'.outs[i]) : i \in Inputs(y)' /\ (y \in Members(order') \/ Gone(y, i)')
  <2>1. \A y : Inputs(y)' = Inputs(y)
    BY <1>4 DEF Inputs
  <2>2. CASE i = m
    <3>1. \A y \in Members(net'.outs[i]) : y \in Members(net.outs[i]) \/ y = x
      BY <1>4, <1>7, <2>2
    <3> QED
      BY <1>1, <1>2, <1>4, <1>7, <1>8, <1>9, <2>1, <2>2, <3>1 DEF OutsRight
  <2>3. CASE i # m
    BY <1>1, <1>4, <1>8, <2>1, <2>3 DEF OutsRight
  <2> QED
    BY <2>2, <2>3
<1>11. OutsRight'
  BY <1>4, <1>10 DEF OutsRight
<1>12. EndCalls'
  <2>1. CASE n >= 2
    <3>1. stack'[2][1] = stack[2][1] /\ stack[2][1] = Out
      BY <1>2, <1>5, <2>1 DEF EndCalls, n
    <3> QED
      BY <1>5, <2>1, <3>1 DEF EndCalls
  <2>2. CASE n = 1
    <3>1. m = Out /\ stack[1][1] = Logits /\ t = 1
      BY <1>2, <2>2 DEF x, t
    <3>2. ~ Open(Out)
      <4>1. DOMAIN stack = {1} /\ Logits # Out
        BY <1>2, <2>2 DEF Logits, Out
      <4> QED
        BY <3>1, <4>1 DEF Open
    <3>3. Out \in Members(order)
      BY <1>1, <1>2, <3>1, <3>2 DEF Calls, Seen
    <3>4. order # << >>
      BY <3>3 DEF Members
    <3>5. order[Len(order)] = Out
      BY <2>2, <3>4 DEF EndCalls, n
    <3> QED
      BY <1>1, <1>5, <2>2, <3>4, <3>5 DEF EndCalls
  <2> QED
    BY <1>2, <2>1, <2>2
<1>13. n \in DOMAIN stack'
  BY <1>2, <1>5
<1> QED
  BY <1>11, <1>12, <1>13

LEMMA FirstFinish ==
    ASSUME Early, Calls, OutsRight, EndCalls, stack # << >>, Finish
    PROVE  OutsRight' /\ IF stack' = << >> THEN Ended' ELSE EndCalls'
<1> DEFINE n == Len(stack)
           x == Node
<1>1. /\ ~ More /\ order' = Append(order, x) /\ stack' = SubSeq(stack, 1, n - 1) /\ net' = net
  BY DEF Finish, Pop
<1>2. /\ n \in Nat \ {0} /\ DOMAIN stack = 1 .. n /\ x \in Dom /\ x = stack[n][1]
      /\ ~ stack[n][2] <= Len(net.ins[x]) /\ stack[n][2] \in Nat
      /\ n = 1 => x = Logits /\ Len(net.ins[x]) = 1
  BY <1>1, FirstTop
<1>3. /\ DOMAIN stack' = 1 .. n - 1 /\ (\A k \in 1 .. n - 1 : stack'[k] = stack[k])
      /\ stack' = << >> <=> n = 1
      /\ Len(stack') = n - 1
  <2>1. stack \in Seq(Dom \X (Nat \ {0})) /\ Len(stack) \in Nat \ {0}
    BY <1>2 DEF Calls
  <2>2. stack' = SubSeq(stack, 1, Len(stack) - 1)
    BY <1>1
  <2>3. /\ DOMAIN stack' = 1 .. n - 1 /\ (\A k \in 1 .. n - 1 : stack'[k] = stack[k])
        /\ stack' = << >> <=> n = 1
        /\ stack' \in Seq(Dom \X (Nat \ {0}))
    BY <1>2, <2>1, <2>2, FrontIs
  <2>4. DOMAIN stack' = 1 .. Len(stack') /\ Len(stack') \in Nat
    BY <2>3
  <2>5. \A a, b \in Nat : 1 .. a = 1 .. b => a = b
    <3> SUFFICES ASSUME NEW a \in Nat, NEW b \in Nat, 1 .. a = 1 .. b, a # b PROVE FALSE
      OBVIOUS
    <3>1. a \in 1 .. b \/ a = 0
      BY Z3
    <3>2. b \in 1 .. a \/ b = 0
      BY Z3
    <3> QED
      BY <3>1, <3>2
  <2>6. Len(stack') = n - 1
    <3>1. n - 1 \in Nat
      BY <1>2
    <3>2. 1 .. n - 1 = 1 .. Len(stack')
      BY <2>3, <2>4, Zenon
    <3> QED
      BY <2>4, <2>5, <3>1, <3>2
  <2> QED
    BY <2>3, <2>6
<1> HIDE DEF x, n
<1>4. order \in Seq(Dom)
  BY DEF Early, Lists3
<1>5. /\ Members(order') = Members(order) \union {x} /\ Len(order') = Len(order) + 1
      /\ order'[Len(order')] = x /\ order' # << >> /\ Len(order) \in Nat
      /\ \A p \in 1 .. Len(order) : order'[p] = order[p]
      /\ order # << >> => Len(order) # 0
  BY <1>1, <1>2, <1>4, AppendIs
<1>6. \A y, i : Gone(y, i) => y \in Members(order') \/ Gone(y, i)'
  <2> SUFFICES ASSUME NEW y, NEW i, Gone(y, i) PROVE y = x \/ Gone(y, i)'
    BY <1>5
  <2>1. PICK k \in DOMAIN stack : stack[k][1] = y /\ \E j \in 1 .. stack[k][2] - 1 : net.ins[y][j] = i
    BY DEF Gone
  <2>2. CASE k = n
    BY <1>2, <2>1, <2>2
  <2>3. CASE k # n
    <3>1. k \in DOMAIN stack' /\ stack'[k] = stack[k]
      BY <1>2, <1>3, <2>1, <2>3
    <3> QED
      BY <1>1, <2>1, <3>1 DEF Gone
  <2> QED
    BY <2>2, <2>3
<1>7. OutsRight'
  <2>1. net' = net /\ Members(order) \subseteq Members(order')
    BY <1>1, <1>5
  <2> QED
    BY <1>6, <2>1 DEF OutsRight, Dom, Inputs
<1>8. CASE n = 1
  <2>1. order # << >> /\ order[Len(order)] = Out
    BY <1>2, <1>8 DEF EndCalls, n
  <2>2. x = Logits
    BY <1>2, <1>8
  <2>3. Len(order) \in 1 .. Len(order) /\ Len(order') >= 2 /\ Len(order') - 1 = Len(order)
    BY <1>5, <2>1
  <2>4. order'[Len(order') - 1] = Out
    BY <1>5, <2>1, <2>3
  <2> QED
    BY <1>3, <1>5, <1>7, <1>8, <2>2, <2>3, <2>4 DEF Ended
<1>9. CASE n = 2
  <2>1. x = Out
    BY <1>2, <1>9 DEF EndCalls, n
  <2> QED
    BY <1>2, <1>3, <1>5, <1>7, <1>9, <2>1 DEF EndCalls
<1>10. CASE n > 2
  <2>1. stack'[2] = stack[2] /\ stack[2][1] = Out
    BY <1>2, <1>3, <1>10 DEF EndCalls, n
  <2> QED
    BY <1>2, <1>3, <1>7, <1>10, <2>1 DEF EndCalls
<1> QED
  BY <1>2, <1>8, <1>9, <1>10

LEMMA FirstStart ==
    ASSUME Early, FirstBuild, phase = "idle", Build
    PROVE  FirstBuild' /\ phase' # "idle" /\ OnlyOuts
<1>1. net \in NetsOn(Dom) /\ Dom \in Domains /\ walk \in Seq(Dom) /\ order = << >> /\ stack = << >>
  BY NoCopy DEF Early, Lists3, FirstBuild
<1>2. /\ OnlyOuts /\ phase' = "visit"
      /\ \A n \in Dom : net'.outs[n] = << >> \/ net'.outs[n] = net.outs[n]
  BY <1>1, StartStep
<1>3. order' = << >> /\ stack' = <<<<Logits, 1>>>>
  BY DEF Build, BuildGraph
<1>4. \A x, i : ~ Gone(x, i)
  BY <1>1 DEF Gone
<1>5. Members(order) = {}
  BY <1>1 DEF Members
<1>6. \A i \in Dom : Distinct(net.outs[i]) /\ Members(net.outs[i]) = {}
  BY <1>4, <1>5 DEF OutsRight, FirstBuild
<1>7. Distinct(<< >>) /\ Members(<< >>) = {}
  BY DEF Distinct, Members
<1>8. \A i \in Dom : Distinct(net'.outs[i]) /\ Members(net'.outs[i]) = {}
  BY <1>2, <1>6, <1>7
<1>9. OutsRight'
  BY <1>2, <1>8 DEF OutsRight, OnlyOuts
<1>10. Len(stack') = 1 /\ stack'[1][2] = 1 /\ stack' # << >>
  BY <1>3
<1>11. EndCalls'
  BY <1>3, <1>10 DEF EndCalls
<1> QED
  BY <1>2, <1>9, <1>10, <1>11 DEF FirstBuild

LEMMA RangedKept ==
    ASSUME Ranged, net'.dev = net.dev, setting' = setting
    PROVE  Ranged'
  BY DEF Ranged

(* A step of the first build.                                              *)
LEMMA FirstStep ==
    ASSUME Early, BuildOK, FirstBuild, Ranged, pass = "create", Build \/ Building
    PROVE  FirstBuild' /\ Ranged'
<1>1. setting' = setting
  BY DEF Build, Building, optVars
<1>2. net \in NetsOn(Dom) /\ Dom \in Domains /\ Lists3
  BY NoCopy DEF Early
<1>3. CASE Build
  <2>1. FirstBuild' /\ OnlyOuts
    BY <1>3, FirstStart DEF Build
  <2> QED
    BY <1>1, <2>1, RangedKept DEF OnlyOuts
<1>4. CASE Visit /\ UNCHANGED optVars
  <2>1. phase = "visit"
    BY <1>4 DEF Visit, Descend, UseInput, Finish
  <2>2. Calls /\ ListsBuilt /\ stack # << >>
    BY <2>1 DEF BuildOK
  <2>3. OutsRight /\ EndCalls
    BY <2>1, <2>2 DEF FirstBuild
  <2>4. OutsRight' /\ IF stack' = << >> THEN Ended' ELSE EndCalls'
    BY <1>4, <2>2, <2>3, FirstDescend, FirstUse, FirstFinish DEF Visit
  <2>5. (OnlyOuts \/ net' = net) /\ phase' # "idle"
    BY <1>2, <1>4, <2>2, DescendStep, UseStep, FinishStep DEF Visit
  <2>6. net'.dev = net.dev
    BY <2>5 DEF OnlyOuts
  <2> QED
    BY <1>1, <2>4, <2>5, <2>6, RangedKept DEF FirstBuild
<1>5. CASE AnalyzeLifetimes
  <2>1. net' = net /\ order' = order /\ stack' = stack /\ phase' = "built" /\ phase # "idle"
    BY <1>5 DEF AnalyzeLifetimes
  <2>2. OutsRight'
    BY <2>1 DEF FirstBuild, OutsRight, Gone, Dom, Inputs
  <2>3. IF stack' = << >> THEN Ended' ELSE EndCalls'
    BY <2>1 DEF FirstBuild, Ended, EndCalls
  <2> QED
    BY <1>1, <2>1, <2>2, <2>3, RangedKept DEF FirstBuild
<1> QED
  BY <1>3, <1>4, <1>5 DEF Building

-----------------------------------------------------------------------------
(* Where placing puts the nodes *)

Located(n) == Aside(n) \/ Device(net, n) # CPU
InnerRight == Distinct(inner) /\ Members(inner) \subseteq Members(order)

(* A node is listed once by each of its inputs.                            *)
OutsExact ==
    \A i \in Dom : /\ Distinct(net.outs[i])
                   /\ \A x \in Members(net.outs[i]) : x \in Members(order) /\ i \in Inputs(x)

(* The output, which is on a GPU, comes before all that is on none.        *)
Ahead == \/ Len(walk) >= 2 /\ walk[1] = Logits /\ walk[2] = Out
         \/ Len(walk) >= 1 /\ walk[1] = Out

(* What the pass that goes back has seen needs no GPU or is on one.        *)
Placing ==
    /\ Ranged /\ OutsExact /\ Ended /\ InnerRight
    /\ cur \in {CPU} \union DOMAIN setting.free
    /\ pass = "backward" => /\ \A n \in Members(order) : n \in Members(walk) \/ Located(n)
                            /\ cur # CPU \/ Ahead

LEMMA StartPlacingKeeps ==
    ASSUME StoreInv, FirstBuild, Ranged, StartPlacing
    PROVE  Placing'
<1>1. pass = "create" /\ phase = "built" /\ BuildOK
  BY DEF StoreInv, StartPlacing
<1>2. ListsBuilt /\ stack = << >>
  BY <1>1 DEF BuildOK
<1>3. OutsRight /\ Ended
  BY <1>1, <1>2 DEF FirstBuild
<1>4. \A x, i : ~ Gone(x, i)
  BY <1>2 DEF Gone
<1>5. OutsExact
  BY <1>3, <1>4 DEF OutsRight, OutsExact
<1>6. /\ net' = net /\ order' = order /\ inner' = inner /\ setting' = setting
      /\ pass' = "forward" /\ cur' = CPU
  BY DEF StartPlacing
<1> QED
  BY <1>2, <1>3, <1>5, <1>6 DEF Placing, Ranged, OutsExact, Ended, InnerRight, Dom, Inputs, ListsBuilt

(* The tensors that stay with the host are those of the embedding and of   *)
(* what the model is given.                                                *)
LEMMA HostNodes ==
    ASSUME NEW s, NEW n \in ModelNodes, TensorOf(s, n) \in Host
    PROVE  Op(n) = "MEM_REF" \/ IsInputNode(n)
<1>1. n \in Host
  <2>1. Kind(TensorOf(s, n)) \notin {"mq", "mk", "mv", "att", "table"}
    BY DEF Host, Kind
  <2> QED
    BY <2>1, TensorKind
<1>2. Kind(n) \in {"embed", "token", "weight"}
  BY <1>1 DEF Host, Kind
<1> QED
  BY <1>2 DEF Op, OpOf, IsInputNode

(* What is not moved though there is a device for it needs none.           *)
LEMMA PlacedNode ==
    ASSUME setting \in Settings, Early, NEW n \in ModelNodes, NEW d, d # CPU,
           \/ Op(n) = "MEM_REF" \/ Device(net, n) # CPU \/ IsInputNode(n) \/ IsOutputNode(n)
    PROVE  Located(n)
<1>1. CASE Op(n) = "MEM_REF"
  BY <1>1, OpsOf, NodeShape DEF Located, Aside
<1>2. CASE Device(net, n) # CPU
  BY <1>2 DEF Located
<1>3. CASE Kind(n) \in {"mask", "tableq", "tablek", "mul3", "out"}
  <2>1. ModelDevice(setting, TensorOf(setting, n)) # CPU
    BY <1>3, GivenDevices
  <2>2. TensorOf(setting, n) \in ModelTensors
    BY TensorKind
  <2>3. Device(net, n) # CPU
    BY <2>1, <2>2 DEF Early, Placed, Device
  <2> QED
    BY <2>3 DEF Located
<1>4. CASE Kind(n) \in {"embed", "logits"}
  BY <1>4 DEF Located, Aside
<1> QED
  BY <1>1, <1>2, <1>3, <1>4 DEF IsInputNode, IsOutputNode

(* What the visit of a node does to the devices of tensors.                *)
PlacedAt(n) ==
    /\ \A t \in ModelTensors :
           \/ net'.dev[t] = net.dev[t]
           \/ net.dev[t] = CPU /\ net'.dev[t] = cur /\ cur # CPU /\ t \notin Host
    /\ \A m \in ModelNodes : Located(m) => Located(m)'
    /\ cur # CPU => Located(n)'

LEMMA PlaceMoves ==
    ASSUME setting \in Settings, Early, cur \in Int, walk # << >>, Place,
           NEW n, n = Current
    PROVE  PlacedAt(n) /\ n \in ModelNodes
<1> DEFINE t == net.tensor[n]
           h == [net EXCEPT !.dev[t] = cur]
           Stays == \/ Op(n) = "MEM_REF" \/ Device(net, n) # CPU
                    \/ IsInputNode(n) \/ IsOutputNode(n)
<1>1. n \in ModelNodes
  BY WalkOn DEF Early, Lists3, Current
<1>2. t = TensorOf(setting, n) /\ t \in ModelTensors
  BY <1>1, TensorKind DEF Early, Placed
<1>3. net.dev \in [TensorsOf(Dom) -> Int] /\ ModelTensors \subseteq TensorsOf(Dom)
  BY NetParts DEF Early, TensorsOf
<1>4. \A m \in ModelNodes : net.tensor[m] = TensorOf(setting, m) /\ net.tensor[m] \in ModelTensors
  BY TensorKind DEF Early, Placed
<1>5. net' = PlaceNode(net, cur, n) /\ Early' /\ setting' = setting
  BY PlaceKeeps DEF Place, UnchangedLists
<1>6. \A m \in ModelNodes : net'.tensor[m] = net.tensor[m]
  BY <1>5 DEF Early, Placed
<1> HIDE DEF t
<1>7. CASE Stays \/ cur = CPU
  <2>1. net' = net
    BY <1>5, <1>7 DEF PlaceNode
  <2>2. cur # CPU => Located(n)
    BY <1>1, <1>7, PlacedNode
  <2> QED
    BY <1>1, <2>1, <2>2 DEF PlacedAt, Located
<1>8. CASE ~ Stays /\ cur # CPU
  <2>1. net' = h
    BY <1>5, <1>8 DEF PlaceNode, t
  <2>2. h.dev = [net.dev EXCEPT ![t] = cur]
    BY DEF NetsOn, Early
  <2>3. net.dev[t] = CPU
    BY <1>8 DEF Device, t
  <2>4. t \notin Host
    BY <1>1, <1>2, <1>8, HostNodes
  <2> HIDE DEF h
  <2>5. \A x \in ModelTensors : net'.dev[x] = IF x = t THEN cur ELSE net.dev[x]
    BY <1>3, <2>1, <2>2
  <2>6. \A m \in ModelNodes : Located(m) => Located(m)'
    BY <1>4, <1>6, <1>8, <2>5 DEF Located, Device
  <2>7. Located(n)'
    BY <1>1, <1>2, <1>6, <1>8, <2>5 DEF Located, Device, t
  <2> QED
    <3>1. \A x \in ModelTensors :
              \/ net'.dev[x] = net.dev[x]
              \/ net.dev[x] = CPU /\ net'.dev[x] = cur /\ cur # CPU /\ x \notin Host
      BY <1>8, <2>3, <2>4, <2>5
    <3> QED
      BY <1>1, <2>6, <2>7, <3>1 DEF PlacedAt
<1> QED
  BY <1>1, <1>7, <1>8

LEMMA PlacingStep ==
    ASSUME StoreInv, Placing, Place
    PROVE  Placing'
<1>0. PICK n : n = Current
  OBVIOUS
<1>1. pass \in {"forward", "backward"} /\ walk # << >>
  BY DEF Place
<1>2. Early /\ cur \in Int /\ setting \in Settings
  BY <1>1 DEF StoreInv
<1>3. Early' /\ net'.outs = net.outs /\ net'.ins = net.ins
  BY <1>1, <1>2, PlaceKeeps
<1>4. /\ order' = order /\ inner' = inner /\ setting' = setting /\ pass' = pass
      /\ walk' = Tail(walk) /\ cur' = DeviceAfter(net, cur, n)
  BY <1>0 DEF Place, UnchangedLists
<1>5. PlacedAt(n) /\ n \in ModelNodes
  BY <1>0, <1>1, <1>2, PlaceMoves
<1>6. walk \in Seq(Dom) /\ n = Head(walk)
  BY <1>0, <1>2 DEF Early, Lists3, Current
<1>7. Members(walk) = Members(walk') \union {n}
  BY <1>1, <1>4, <1>6, WalkOn
<1>8. net.tensor[n] = TensorOf(setting, n) /\ TensorOf(setting, n) \in ModelTensors
  BY <1>2, <1>5, TensorKind DEF Early, Placed
<1>9. Ranged'
  <2>1. \A t \in Host : t \in ModelTensors
    BY <1>2, DeviceRange
  <2>2. Ranged /\ cur \in {CPU} \union DOMAIN setting.free
    BY DEF Placing
  <2>3. \A t \in ModelTensors :
            \/ net'.dev[t] = net.dev[t]
            \/ net.dev[t] = CPU /\ net'.dev[t] = cur /\ cur # CPU /\ t \notin Host
    BY <1>5 DEF PlacedAt
  <2> QED
    BY <1>4, <2>1, <2>2, <2>3 DEF Ranged
<1>10. cur' \in {CPU} \union DOMAIN setting.free /\ (cur # CPU => cur' # CPU)
  BY <1>4, <1>8 DEF Placing, Ranged, DeviceAfter, Device
<1>11. OutsExact' /\ Ended' /\ InnerRight'
  BY <1>3, <1>4 DEF Placing, OutsExact, Ended, InnerRight, Dom, Inputs
<1>12. ASSUME pass = "backward"
       PROVE  /\ \A m \in Members(order') : m \in Members(walk') \/ Located(m)'
              /\ cur' # CPU \/ Ahead'
  <2>1. \A m \in Members(order) : m \in ModelNodes
    BY <1>2 DEF Early, Lists3, Members
  <2>2. \A m \in Members(order) : m \in Members(walk) \/ Located(m)
    BY <1>12 DEF Placing
  <2>3. \A m \in ModelNodes : Located(m) => Located(m)'
    BY <1>5 DEF PlacedAt
  <2>4. CASE cur # CPU
    <3>1. Located(n)'
      BY <1>5, <2>4 DEF PlacedAt
    <3> QED
      BY <1>4, <1>7, <1>10, <2>1, <2>2, <2>3, <2>4, <3>1
  <2>5. CASE cur = CPU
    <3>1. Ahead
      BY <1>12, <2>5 DEF Placing
    <3>2. CASE Len(walk) >= 2 /\ walk[1] = Logits /\ walk[2] = Out
      <4>1. n = Logits
        BY <1>6, <3>2
      <4>2. Located(n) /\ Op(n) = "MEM_REF"
        BY <4>1 DEF Located, Aside, Logits, Op, OpOf, Kind
      <4>3. Len(walk') >= 1 /\ walk'[1] = Out
        BY <1>4, <1>6, <3>2
      <4>4. Ahead'
        BY <4>3 DEF Ahead
      <4> QED
        BY <1>4, <1>5, <1>7, <2>1, <2>2, <2>3, <4>2, <4>4
    <3>3. CASE Len(walk) >= 1 /\ walk[1] = Out
      <4>1. n = Out
        BY <1>6, <3>3
      <4>2. Op(n) # "MEM_REF" /\ Kind(n) = "out"
        BY <4>1 DEF Out, Op, OpOf, Kind
      <4>3. ModelDevice(setting, TensorOf(setting, n)) # CPU
        BY <1>2, <1>5, <4>2, GivenDevices
      <4>4. Device(net, n) # CPU
        BY <1>2, <1>8, <4>3 DEF Early, Placed, Device
      <4>5. Located(n) /\ cur' # CPU
        BY <1>4, <4>2, <4>4 DEF Located, DeviceAfter
      <4> QED
        BY <1>4, <1>5, <1>7, <2>1, <2>2, <2>3, <4>5
    <3> QED
      BY <3>1, <3>2, <3>3 DEF Ahead
  <2> QED
    BY <2>4, <2>5
<1> QED
  BY <1>4, <1>9, <1>10, <1>11, <1>12 DEF Placing

-----------------------------------------------------------------------------
(* What the copies do to the operands *)

(* The nodes in L read each other where they are, but for the pairs of an  *)
(* input and a reader that are in P.                                       *)
InsLoose(g, L, P, m) == \A i \in Members(g.ins[m]) : i \in L /\ (Fits(g, i, m) \/ <<i, m>> \in P)
OutsLoose(g, L, P, i) ==
    Distinct(g.outs[i]) /\ \A m \in Members(g.outs[i]) : m \in L /\ (Fits(g, i, m) \/ <<i, m>> \in P)
LeftTo(g, P, m, t) == \E i \in ModelNodes : <<i, m>> \in P /\ Op(i) # "MEM_REF" /\ t = g.tensor[i]
ParamsLoose(g, P, m) ==
    \A p \in DOMAIN g.params[m] : Suits(g, g.params[m][p], m) \/ LeftTo(g, P, m, g.params[m][p])

Loose(g, L, P, one) ==
    /\ \A m \in L : InsLoose(g, L, P, m)
    /\ \A i \in L : OutsLoose(g, L, P, i)
    /\ one => \A m \in L : ParamsLoose(g, P, m)

LEMMA LooseIsAtHand ==
    ASSUME NEW D, NEW g \in NetsOn(D), NEW L \in SUBSET D, NEW one, Loose(g, L, {}, one)
    PROVE  AtHand(D, g, L, one)
<1>1. \A m \in L : InsFit(g, L, m, g.ins[m]) /\ OutsFit(g, L, m, g.outs[m])
  BY DEF Loose, InsLoose, OutsLoose, InsFit, OutsFit
<1>2. one => \A m \in L : ParamsFit(g, m, g.params[m])
  BY DEF Loose, ParamsLoose, LeftTo, ParamsFit
<1> QED
  BY <1>1, <1>2 DEF AtHand

(* An input that is where its reader is, or given to it, needs no copy.    *)
LEMMA NoCopyFits ==
    ASSUME NEW g, NEW L, NEW P, NEW one, Loose(g, L, P, one), NEW n, NEW i, ~ Given(n),
           Given(i) => n = Owner(i) /\ Op(n) \in {"MUL", "MATMUL", "EMBEDDING"},
           Op(i) = "MEM_REF" => Given(i), Device(g, n) = Device(g, i) \/ Op(i) = "MEM_REF"
    PROVE  Loose(g, L, P \ {<<i, n>>}, one)
<1> DEFINE R == P \ {<<i, n>>}
<1>1. Fits(g, i, n)
  BY DEF Fits
<1>2. \A j, m : <<j, m>> \in P => <<j, m>> \in R \/ (j = i /\ m = n)
  OBVIOUS
<1> HIDE DEF R
<1>3. \A m \in L : InsLoose(g, L, R, m)
  <2>1. ASSUME NEW m \in L, NEW j \in Members(g.ins[m])
        PROVE  j \in L /\ (Fits(g, j, m) \/ <<j, m>> \in R)
    <3>1. j \in L /\ (Fits(g, j, m) \/ <<j, m>> \in P)
      BY DEF Loose, InsLoose
    <3> QED
      BY <1>1, <1>2, <3>1
  <2> QED
    BY <2>1 DEF InsLoose
<1>4. \A m \in L : OutsLoose(g, L, R, m)
  BY <1>1, <1>2 DEF Loose, OutsLoose
<1>5. ASSUME one, NEW m \in L, NEW p \in DOMAIN g.params[m]
      PROVE  Suits(g, g.params[m][p], m) \/ LeftTo(g, R, m, g.params[m][p])
  <2>1. Suits(g, g.params[m][p], m) \/ LeftTo(g, P, m, g.params[m][p])
    BY <1>5 DEF Loose, ParamsLoose
  <2>2. ASSUME NEW j \in ModelNodes, <<j, m>> \in P, Op(j) # "MEM_REF", g.params[m][p] = g.tensor[j]
        PROVE  Suits(g, g.params[m][p], m) \/ LeftTo(g, R, m, g.params[m][p])
    <3>1. CASE <<j, m>> \in R
      BY <2>2, <3>1 DEF LeftTo
    <3>2. CASE j = i /\ m = n
      BY <2>2, <3>2 DEF Suits, Device
    <3> QED
      BY <1>2, <2>2, <3>1, <3>2
  <2> QED
    BY <2>1, <2>2 DEF LeftTo
<1> QED
  BY <1>3, <1>4, <1>5 DEF Loose, ParamsLoose, R

(* A copy, and the reader it is for, are where the reader was.             *)
LEMMA CopyDevices ==
    ASSUME NEW E \in Domains, NEW y \in NetsOn(E), NEW n \in ModelNodes, NEW i \in ModelNodes,
           NEW c, c = <<"copy", n, i>>, c \notin E, NEW h, Copied(E, y, h, n, i, c)
    PROVE  /\ \A x \in E : Device(h, x) = Device(y, x)
           /\ Device(h, c) = Device(y, n) /\ Op(c) = "MEM_CPY" /\ ~ Given(c)
           /\ \A j, m \in E : Fits(y, j, m) => Fits(h, j, m)
           /\ \A m \in E : \A t \in TensorsOf(E) : Suits(y, t, m) => Suits(h, t, m)
           /\ \A x \in E : h.tensor[x] = y.tensor[x]
<1>1. \A x \in E : y.tensor[x] \in TensorsOf(E)
  BY NetParts
<1>2. \A x \in E : h.tensor[x] = y.tensor[x]
  BY DEF Copied
<1>3. \A t \in TensorsOf(E) : h.dev[t] = y.dev[t]
  BY DEF Copied
<1>4. \A x \in E : Device(h, x) = Device(y, x)
  BY <1>1, <1>2, <1>3 DEF Device
<1>5. Device(h, c) = Device(y, n)
  BY DEF Copied, Device
<1>6. Op(c) = "MEM_CPY" /\ ~ Given(c)
  BY DEF Op, Given, Kind
<1>7. \A j, m \in E : Fits(y, j, m) => Fits(h, j, m)
  BY <1>4 DEF Fits
<1>8. \A m \in E : \A t \in TensorsOf(E) : Suits(y, t, m) => Suits(h, t, m)
  BY <1>3, <1>4 DEF Suits
<1> QED
  BY <1>2, <1>4, <1>5, <1>6, <1>7, <1>8

LEMMA CopiedFits ==
    ASSUME NEW E \in Domains, NEW y \in NetsOn(E), NEW L \in SUBSET E, NEW P, NEW one,
           Loose(y, L, P, one), NEW n \in ModelNodes, NEW i \in ModelNodes, n \in L, i \in L, n # i,
           ~ Given(n), ~ Given(i), y.known[n] = y.params[n],
           NEW c, c = <<"copy", n, i>>, c \notin E, NEW h, Copied(E, y, h, n, i, c)
    PROVE  Loose(h, L \union {c}, P \ {<<i, n>>}, one) /\ h.known[n] = h.params[n]
<1> DEFINE R == P \ {<<i, n>>}
           M == L \union {c}
           rest == Only(y.ins[n], Nodes \ {i})
<1>1. /\ \A x \in E : Device(h, x) = Device(y, x)
      /\ Device(h, c) = Device(y, n) /\ Op(c) = "MEM_CPY" /\ ~ Given(c)
      /\ \A j, m \in E : Fits(y, j, m) => Fits(h, j, m)
      /\ \A m \in E : \A t \in TensorsOf(E) : Suits(y, t, m) => Suits(h, t, m)
      /\ \A x \in E : h.tensor[x] = y.tensor[x]
  BY CopyDevices
<1>2. \A j, m : <<j, m>> \in P => <<j, m>> \in R \/ (j = i /\ m = n)
  OBVIOUS
<1>3. Fits(h, c, n) /\ Fits(h, i, c)
  BY <1>1 DEF Fits
<1>4. /\ h.ins[c] = <<i>> /\ h.outs[c] = <<n>>
      /\ \A x \in E \ {n} : h.ins[x] = y.ins[x] /\ h.params[x] = y.params[x]
      /\ h.ins[n] = rest \/ h.ins[n] = Append(rest, c)
      /\ h.params[n] = [p \in DOMAIN y.params[n] |->
                          IF p \in ParaNames(y, n, y.tensor[i]) THEN c ELSE y.params[n][p]]
      /\ h.params[c] = [in |-> y.tensor[i]]
      /\ h.known[n] = h.params[n]
      /\ \A x \in E \ {i} : h.outs[x] = y.outs[x]
      /\ h.outs[i] = Append(RemoveFirst(y.outs[i], n), c)
  BY DEF Copied
<1>5. /\ y.ins \in [E -> Seq(E)] /\ y.outs \in [E -> Seq(E)]
      /\ \A x \in E : y.params[x] \in ParamsIn(TensorsOf(E))
  BY NetParts
<1>6. n \in E /\ i \in E /\ n # c /\ i # c
  OBVIOUS
<1>7. Members(h.ins[c]) = {i} /\ Members(h.outs[c]) = {n} /\ Distinct(h.outs[c])
  BY <1>4, MembersOf, DistinctOf
<1> HIDE DEF R
<1>8. ASSUME NEW m \in M
      PROVE  InsLoose(h, M, R, m)
  <2>1. CASE m = c
    BY <1>3, <1>7, <2>1 DEF InsLoose
  <2>2. CASE m = n
    <3>1. rest \in Seq(E) /\ Members(rest) \subseteq Members(y.ins[n]) \ {i}
      BY <1>5, <1>6, DroppingIs DEF Dropping
    <3>2. Members(h.ins[n]) \subseteq Members(rest) \union {c}
      <4> HIDE DEF rest
      <4>1. rest \in Seq(E \union {c}) /\ c \in E \union {c}
        BY <3>1
      <4>2. Members(Append(rest, c)) = Members(rest) \union {c}
        BY <4>1, AppendIs
      <4> QED
        BY <1>4, <4>2
    <3>3. \A j \in Members(y.ins[n]) : j \in L /\ (Fits(y, j, n) \/ <<j, n>> \in P)
      BY DEF Loose, InsLoose
    <3>4. ASSUME NEW j \in Members(h.ins[n])
          PROVE  j \in M /\ (Fits(h, j, n) \/ <<j, n>> \in R)
      <4>1. j = c \/ (j \in Members(y.ins[n]) /\ j # i)
        BY <3>1, <3>2
      <4> QED
        BY <1>1, <1>2, <1>3, <1>6, <3>3, <4>1
    <3> QED
      BY <2>2, <3>4 DEF InsLoose
  <2>3. CASE m # c /\ m # n
    <3>1. m \in L /\ h.ins[m] = y.ins[m]
      BY <1>4, <2>3
    <3>2. ASSUME NEW j \in Members(y.ins[m])
          PROVE  j \in M /\ (Fits(h, j, m) \/ <<j, m>> \in R)
      <4>1. j \in L /\ (Fits(y, j, m) \/ <<j, m>> \in P)
        BY <3>1 DEF Loose, InsLoose
      <4> QED
        BY <1>1, <1>2, <2>3, <3>1, <4>1
    <3> QED
      BY <3>1, <3>2 DEF InsLoose
  <2> QED
    BY <2>1, <2>2, <2>3
<1>9. ASSUME NEW m \in M
      PROVE  OutsLoose(h, M, R, m)
  <2>1. CASE m = c
    BY <1>3, <1>7, <2>1 DEF OutsLoose
  <2>2. CASE m = i
    <3> DEFINE q == RemoveFirst(y.outs[i], n)
    <3>1. Distinct(y.outs[i]) /\ y.outs[i] \in Seq(E)
      BY <1>5, <1>6 DEF Loose, OutsLoose
    <3>2. q \in Seq(E) /\ Members(q) \subseteq Members(y.outs[i]) \ {n} /\ Distinct(q)
      BY <3>1, RemoveFirstIs
    <3> HIDE DEF q
    <3>3. q \in Seq(E \union {c}) /\ c \notin Members(q) /\ c \in E \union {c}
      BY <3>2 DEF Members
    <3>4. Members(Append(q, c)) = Members(q) \union {c}
      BY <3>3, AppendIs
    <3>5. Distinct(Append(q, c))
      BY <3>2, <3>3, AppendDistinct
    <3>6. h.outs[i] = Append(q, c)
      BY <1>4 DEF q
    <3>7. ASSUME NEW j \in Members(h.outs[i])
          PROVE  j \in M /\ (Fits(h, i, j) \/ <<i, j>> \in R)
      <4>1. j = c \/ (j \in Members(y.outs[i]) /\ j # n)
        BY <3>2, <3>4, <3>6
      <4>2. \A x \in Members(y.outs[i]) : x \in L /\ (Fits(y, i, x) \/ <<i, x>> \in P)
        BY DEF Loose, OutsLoose
      <4> QED
        BY <1>1, <1>2, <1>3, <1>6, <4>1, <4>2
    <3> QED
      BY <2>2, <3>5, <3>6, <3>7 DEF OutsLoose
  <2>3. CASE m # c /\ m # i
    <3>1. m \in L /\ h.outs[m] = y.outs[m]
      BY <1>4, <2>3
    <3>2. Distinct(y.outs[m])
      BY <3>1 DEF Loose, OutsLoose
    <3>3. ASSUME NEW j \in Members(y.outs[m])
          PROVE  j \in M /\ (Fits(h, m, j) \/ <<m, j>> \in R)
      <4>1. j \in L /\ (Fits(y, m, j) \/ <<m, j>> \in P)
        BY <3>1 DEF Loose, OutsLoose
      <4> QED
        BY <1>1, <1>2, <2>3, <3>1, <4>1
    <3> QED
      BY <3>1, <3>2, <3>3 DEF OutsLoose
  <2> QED
    BY <2>1, <2>2, <2>3
<1>10. ASSUME one, NEW m \in M, NEW p \in DOMAIN h.params[m]
       PROVE  Suits(h, h.params[m][p], m) \/ LeftTo(h, R, m, h.params[m][p])
  <2>1. CASE m = c
    BY <1>1, <2>1 DEF Suits
  <2>2. ASSUME m \in L, p \in DOMAIN y.params[m], h.params[m][p] = y.params[m][p],
               ~ (m = n /\ y.params[m][p] = y.tensor[i])
        PROVE  Suits(h, h.params[m][p], m) \/ LeftTo(h, R, m, h.params[m][p])
    <3> DEFINE t == y.params[m][p]
    <3>1. t \in TensorsOf(E)
      BY <1>5, <2>2, ParamsForm
    <3>2. Suits(y, t, m) \/ LeftTo(y, P, m, t)
      BY <1>10, <2>2 DEF Loose, ParamsLoose
    <3> HIDE DEF t
    <3>3. ASSUME NEW j \in ModelNodes, <<j, m>> \in P, Op(j) # "MEM_REF", t = y.tensor[j]
          PROVE  LeftTo(h, R, m, t)
      <4>1. j \in E
        BY DEF Domains
      <4>2. <<j, m>> \in R
        BY <1>2, <2>2, <3>3 DEF t
      <4> QED
        BY <1>1, <3>3, <4>1, <4>2 DEF LeftTo
    <3>4. Suits(y, t, m) => Suits(h, t, m)
      BY <1>1, <2>2, <3>1
    <3>5. Suits(h, t, m) \/ LeftTo(h, R, m, t)
      BY <3>2, <3>3, <3>4 DEF LeftTo
    <3> QED
      BY <2>2, <3>5 DEF t
  <2>3. CASE m = n
    <3>1. p \in DOMAIN y.params[n]
      BY <1>4, <2>3
    <3>2. CASE p \in ParaNames(y, n, y.tensor[i])
      <4>1. h.params[n][p] = c
        BY <1>4, <3>1, <3>2
      <4>2. h.dev[c] = Device(y, n)
        BY DEF Copied
      <4> QED
        BY <1>1, <1>6, <2>3, <4>1, <4>2 DEF Suits
    <3>3. CASE p \notin ParaNames(y, n, y.tensor[i])
      <4>1. y.params[n][p] # y.tensor[i]
        BY <3>1, <3>3 DEF ParaNames
      <4>2. h.params[n][p] = y.params[n][p]
        BY <1>4, <3>1, <3>3
      <4> QED
        BY <2>2, <2>3, <3>1, <4>1, <4>2
    <3> QED
      BY <3>2, <3>3
  <2>4. CASE m # c /\ m # n
    <3>1. m \in L /\ h.params[m] = y.params[m]
      BY <1>4, <2>4
    <3> QED
      BY <1>10, <2>2, <2>4, <3>1
  <2> QED
    BY <2>1, <2>3, <2>4
<1> QED
  BY <1>4, <1>8, <1>9, <1>10 DEF Loose, ParamsLoose, R

(* All the copies for a node.                                              *)
LEMMA CopiesFit ==
    ASSUME NEW s, NEW D \in Domains, NEW g \in NetsOn(D), NEW n \in ModelNodes,
           g.ins[n] = ModelInputs(s, n), CopiesOf(s, n) \cap D = {}, g.known[n] = g.params[n],
           NEW L \in SUBSET D, n \in L, MI(s, n) \subseteq L, NEW P, NEW one, Loose(g, L, P, one)
    PROVE  \E E \in Domains :
               /\ Kept(D, g, E, CopyInputs(g, n), n) /\ E \subseteq D \union CopiesOf(s, n)
               /\ Loose(CopyInputs(g, n), L \union (E \ D), P \ {<<i, n>> : i \in MI(s, n)}, one)
<1> DEFINE list == ModelInputs(s, n)
           Copies(k) == {<<"copy", n, list[j]>> : j \in 1 .. k}
           Rest(k) == P \ {<<list[j], n>> : j \in 1 .. k}
           Fit(y, k, E) == /\ Kept(D, g, E, y, n) /\ E \subseteq D \union Copies(k)
                           /\ Loose(y, L \union (E \ D), Rest(k), one) /\ y.known[n] = y.params[n]
           Known(y, k) == \E E \in Domains : Fit(y, k, E)
           Q == {q \in Nat \X AnyNet : Known(q[2], q[1])}
<1>1. list \in Seq(ModelNodes) /\ Len(list) \in Nat /\ DOMAIN list = 1 .. Len(list) /\ Distinct(list)
  BY InputsIn, InputsOnce
<1>2. \A k \in 1 .. Len(list) : list[k] \in MI(s, n) /\ list[k] \in ModelNodes /\ list[k] # n
  BY <1>1, InputsOnce DEF MI, Members
<1>3. g \in AnyNet /\ n \in D
  BY DEF AnyNet, Domains
<1>4. Kept(D, g, D, g, n)
  BY DEF Kept
<1> HIDE DEF list
<1>5. <<0, g>> \in Q
  <2>1. Rest(0) = P /\ L \union (D \ D) = L
    OBVIOUS
  <2>2. Fit(g, 0, D)
    BY <1>4, <2>1
  <2> QED
    BY <1>3, <2>2
<1>6. ASSUME NEW k \in 1 .. Len(list), NEW y \in AnyNet, <<k - 1, y>> \in Q
      PROVE  CopyInput(y, n, list[k]) \in AnyNet /\ <<k, CopyInput(y, n, list[k])>> \in Q
  <2> DEFINE i == list[k]
             c == <<"copy", n, i>>
             h == CopyInput(y, n, i)
  <2>0. k \in Nat /\ k - 1 \in Nat /\ i \in ModelNodes /\ i # n /\ i \in MI(s, n)
    BY <1>1, <1>2
  <2>1. PICK E \in Domains : Fit(y, k - 1, E)
    BY <1>6
  <2>2. y \in NetsOn(E) /\ D \subseteq E
    BY <2>1 DEF Kept
  <2>3. Copies(k) = Copies(k - 1) \union {c} /\ Rest(k) = Rest(k - 1) \ {<<i, n>>}
    <3>1. 1 .. k = (1 .. k - 1) \union {k}
      BY <2>0
    <3> QED
      BY <3>1
  <2>4. /\ ~ Given(n) /\ (Op(i) = "MEM_REF" => Given(i))
        /\ Given(i) => n = Owner(i) /\ Op(n) \in {"MUL", "MATMUL", "EMBEDDING"}
    BY <2>0, ReadsOwn
  <2> DEFINE M == L \union (E \ D)
  <2>5. M \in SUBSET E /\ n \in M /\ i \in M
    BY <2>0, <2>2
  <2>6. CASE Device(y, n) = Device(y, i) \/ Op(i) = "MEM_REF"
    <3>1. h = y
      BY <2>6 DEF CopyInput
    <3>2. Loose(y, M, Rest(k), one)
      <4> HIDE DEF i, M, Rest
      <4>1. Loose(y, M, Rest(k - 1), one)
        BY <2>1 DEF M
      <4>2. Loose(y, M, Rest(k - 1) \ {<<i, n>>}, one)
        BY <2>4, <2>6, <4>1, NoCopyFits
      <4> QED
        BY <2>3, <4>2
    <3>3. Fit(y, k, E)
      BY <2>1, <2>3, <3>2
    <3> QED
      BY <2>0, <3>1, <3>3
  <2>7. CASE ~ (Device(y, n) = Device(y, i) \/ Op(i) = "MEM_REF")
    <3>1. c \notin E
      <4>1. c \notin D
        BY <2>0 DEF CopiesOf
      <4>2. ASSUME NEW j \in 1 .. k - 1, c = <<"copy", n, list[j]>>
            PROVE  FALSE
        <5>1. list[j] = list[k] /\ j \in DOMAIN list /\ k \in DOMAIN list /\ j # k
          BY <1>1, <4>2
        <5> QED
          BY <1>1, <5>1 DEF Distinct
      <4> QED
        BY <2>1, <4>1, <4>2
    <3>2. Copied(E, y, h, n, i, c)
      BY <2>0, <2>2, <2>7, <3>1, CopyInputIs
    <3>0. ~ Given(i)
      BY <2>7, GivenIs
    <3>12. c = <<"copy", n, i>>
      OBVIOUS
    <3> HIDE DEF h, c, i, M, Rest
    <3>3. E \union {c} \in Domains /\ h \in NetsOn(E \union {c}) /\ h.fused = y.fused
          /\ (\A x \in E : h.tensor[x] = y.tensor[x]) /\ (\A t \in TensorsOf(E) : h.dev[t] = y.dev[t])
      BY <3>2 DEF Copied
    <3>4. \A x \in E \ {n} : /\ h.ins[x] = y.ins[x] /\ h.layer[x] = y.layer[x]
                             /\ h.params[x] = y.params[x] /\ h.known[x] = y.known[x]
      BY <3>2 DEF Copied
    <3>5. TensorsOf(D) \subseteq TensorsOf(E)
      BY <2>2 DEF TensorsOf
    <3>6. Kept(D, g, E \union {c}, h, n)
      BY <2>1, <3>3, <3>4, <3>5 DEF Kept
    <3>7. E \union {c} \subseteq D \union Copies(k)
      BY <2>1, <2>3
    <3>8. Loose(y, M, Rest(k - 1), one) /\ y.known[n] = y.params[n]
      BY <2>1 DEF M
    <3>9. Loose(h, M \union {c}, Rest(k - 1) \ {<<i, n>>}, one) /\ h.known[n] = h.params[n]
      BY <2>0, <2>2, <2>4, <2>5, <3>0, <3>1, <3>2, <3>8, <3>12, CopiedFits
    <3>10. M \union {c} = L \union ((E \union {c}) \ D)
      BY <2>2, <3>1 DEF M
    <3>11. Fit(h, k, E \union {c}) /\ h \in AnyNet
      BY <2>3, <3>3, <3>6, <3>7, <3>9, <3>10 DEF AnyNet
    <3> QED
      BY <2>0, <3>3, <3>11 DEF h, i
  <2> QED
    BY <2>6, <2>7
<1>7. <<Len(list), CopyInputs(g, n)>> \in Q
  <2>1. g.ins[n] = list
    BY DEF list
  <2> HIDE DEF Q
  <2> QED
    BY <1>1, <1>3, <1>5, <1>6, <2>1, CopyLoop
<1>8. Copies(Len(list)) \subseteq CopiesOf(s, n)
  BY <1>2 DEF CopiesOf
<1>9. PICK E \in Domains : Fit(CopyInputs(g, n), Len(list), E)
  BY <1>7
<1>10. Rest(Len(list)) = P \ {<<i, n>> : i \in MI(s, n)}
  <2>1. MI(s, n) = {list[j] : j \in 1 .. Len(list)}
    BY <1>1 DEF MI, Members, list
  <2> QED
    BY <2>1
<1> QED
  BY <1>8, <1>9, <1>10

(* Inputs and readers that the pass has not come to.                       *)
Pairs(s, W) == {q \in ModelNodes \X W : q[1] \in MI(s, q[2])}

HandCopying ==
    /\ InnerRight /\ inner \in Seq(ModelNodes) /\ order \in Seq(ModelNodes)
    /\ Members(walk) \subseteq Members(order) /\ Logits \in Members(order)
    /\ \A x \in Dom : Kind(x) # "recycle"
    /\ \A n \in Members(walk) : MI(setting, n) \subseteq Members(order)
    /\ Loose(net, Members(order) \union (Dom \ ModelNodes), Pairs(setting, Members(walk)), OneGPU)

LEMMA PairsIs ==
    ASSUME NEW s, NEW W \in SUBSET ModelNodes
    PROVE  \A i, m : <<i, m>> \in Pairs(s, W) <=> m \in W /\ i \in MI(s, m)
<1>1. \A m \in ModelNodes : MI(s, m) \subseteq ModelNodes
  BY InputFormOf
<1> QED
  BY <1>1 DEF Pairs

LEMMA PlacedIsLoose ==
    ASSUME StoreInv, Placing, pass = "backward", walk = << >>
    PROVE  Loose(net, Members(order), Pairs(setting, Members(order)), OneGPU)
<1> DEFINE W == Members(order)
           P == Pairs(setting, W)
<1>1. Early /\ Whole /\ setting \in Settings
  BY DEF StoreInv
<1>2. W \subseteq ModelNodes /\ Dom = ModelNodes /\ net \in NetsOn(Dom)
  BY <1>1 DEF Early, Lists3, Members
<1>3. \A i, m : <<i, m>> \in P <=> m \in W /\ i \in MI(setting, m)
  BY <1>2, PairsIs
<1>4. \A m \in ModelNodes : /\ net.ins[m] = ModelInputs(setting, m)
                            /\ net.params[m] = ModelParams(setting, m)
                            /\ net.tensor[m] = TensorOf(setting, m)
  BY <1>1 DEF Early, Untouched, Placed
<1>5. ASSUME NEW m \in W PROVE InsLoose(net, W, P, m)
  <2>1. Members(net.ins[m]) = MI(setting, m)
    BY <1>2, <1>4 DEF MI
  <2>2. Members(net.ins[m]) \subseteq W
    BY <1>1 DEF Whole, Inputs
  <2> QED
    BY <1>3, <2>1, <2>2 DEF InsLoose
<1>6. ASSUME NEW i \in W PROVE OutsLoose(net, W, P, i)
  <2>1. /\ Distinct(net.outs[i])
        /\ \A x \in Members(net.outs[i]) : x \in W /\ i \in Inputs(x)
    BY <1>2 DEF Placing, OutsExact
  <2>2. \A x \in W : Inputs(x) = MI(setting, x)
    BY <1>2, <1>4 DEF MI, Inputs
  <2> QED
    BY <1>3, <2>1, <2>2 DEF OutsLoose
<1>7. ASSUME OneGPU, NEW m \in W PROVE ParamsLoose(net, P, m)
  <2>1. m \in ModelNodes /\ Located(m)
    <3>1. Members(walk) = {}
      BY DEF Members
    <3> QED
      BY <1>2, <3>1 DEF Placing
  <2>2. ASSUME NEW p \in DOMAIN net.params[m]
        PROVE  Suits(net, net.params[m][p], m) \/ LeftTo(net, P, m, net.params[m][p])
    <3>1. p \in DOMAIN ModelParams(setting, m) /\ net.params[m][p] = ModelParams(setting, m)[p]
      BY <1>4, <2>1
    <3>2. Aside(m) \/ Device(net, m) # CPU
      BY <2>1 DEF Located
    <3>3. Suits(net, net.params[m][p], m) \/ Operates(setting, m, net.params[m][p])
      BY <1>1, <1>2, <1>7, <2>1, <3>1, <3>2, GivenAtHand DEF Early, Placing
    <3>4. ASSUME NEW i \in MI(setting, m), Op(i) # "MEM_REF", net.params[m][p] = TensorOf(setting, i)
          PROVE  LeftTo(net, P, m, net.params[m][p])
      <4>1. i \in ModelNodes /\ <<i, m>> \in P
        BY <1>3, <2>1, InputFormOf
      <4> QED
        BY <1>4, <3>4, <4>1 DEF LeftTo
    <3> QED
      BY <3>3, <3>4 DEF Operates
  <2> QED
    BY <2>2 DEF ParamsLoose
<1> QED
  BY <1>5, <1>6, <1>7 DEF Loose

LEMMA StartCopying ==
    ASSUME StoreInv, Placing, pass = "backward", NextPass
    PROVE  HandCopying'
<1>1. /\ walk = << >> /\ walk' = order /\ setting' = setting /\ net' = net
      /\ order' = order /\ inner' = inner
  BY DEF NextPass, vars
<1>2. Early /\ Whole
  BY DEF StoreInv
<1>3. Loose(net, Members(order), Pairs(setting, Members(order)), OneGPU)
  BY <1>1, PlacedIsLoose
<1>4. Dom = ModelNodes /\ Dom' = ModelNodes /\ order \in Seq(ModelNodes) /\ inner \in Seq(ModelNodes)
  BY <1>1, <1>2 DEF Early, Lists3, Dom
<1>5. \A x \in ModelNodes : Kind(x) # "recycle"
  BY NodeShape DEF IsPlain, IsWeight, Kind, PlainKinds, HeadKinds, TailKinds
<1>6. \A n \in Members(order) : MI(setting, n) \subseteq Members(order)
  <2>1. \A n \in Members(order) : n \in ModelNodes /\ Inputs(n) \subseteq Members(order)
    BY <1>2, <1>4 DEF Whole, Members
  <2> QED
    BY <1>2, <2>1 DEF Early, Untouched, MI, Inputs
<1>7. InnerRight /\ Logits \in Members(order)
  BY <1>2 DEF Placing, Whole
<1>8. Members(order) \union (Dom' \ ModelNodes) = Members(order)
  BY <1>4
<1>9. Loose(net', Members(order') \union (Dom' \ ModelNodes), Pairs(setting', Members(walk')), OneGPU')
  BY <1>1, <1>3, <1>8 DEF OneGPU
<1> QED
  BY <1>1, <1>4, <1>5, <1>6, <1>7, <1>9 DEF HandCopying, InnerRight

LEMMA HandCopyStep ==
    ASSUME Copying, setting \in Settings, HandCopying, Copy
    PROVE  HandCopying'
<1>0. PICK n : n = Current
  OBVIOUS
<1>1. /\ n \in ModelNodes /\ n \in Members(walk) /\ walk' \in Seq(ModelNodes)
      /\ Members(walk) = Members(walk') \union {n} /\ Distinct(walk') /\ n \notin Members(walk')
  BY <1>0, WalkOn DEF Copying, Copy, Current
<1>2. /\ net' = CopyInputs(net, n) /\ setting' = setting
      /\ order' = order /\ inner' = inner
  BY <1>0 DEF Copy, UnchangedLists
<1>3. /\ net.ins[n] = ModelInputs(setting, n) /\ net.known[n] = net.params[n]
      /\ CopiesOf(setting, n) \cap Dom = {}
  BY <1>1 DEF Copying, Untouched
<1> DEFINE S == Members(order)
           L == S \union (Dom \ ModelNodes)
           P == Pairs(setting, Members(walk))
<1>4. Dom \in Domains /\ net \in NetsOn(Dom) /\ ModelNodes \subseteq Dom
  BY DEF Copying, Domains
<1>5. S \subseteq ModelNodes /\ n \in S /\ MI(setting, n) \subseteq S
  BY <1>1 DEF HandCopying, Members
<1>6. L \in SUBSET Dom /\ n \in L /\ MI(setting, n) \subseteq L
  BY <1>4, <1>5
<1>7. Loose(net, L, P, OneGPU)
  BY DEF HandCopying
<1> HIDE DEF P
<1>8. PICK E \in Domains :
          /\ Kept(Dom, net, E, CopyInputs(net, n), n) /\ E \subseteq Dom \union CopiesOf(setting, n)
          /\ Loose(CopyInputs(net, n), L \union (E \ Dom), P \ {<<i, n>> : i \in MI(setting, n)}, OneGPU)
  <2> HIDE DEF L
  <2> QED
    BY <1>1, <1>3, <1>4, <1>6, <1>7, CopiesFit
<1>9. Dom' = E /\ Dom \subseteq E
  <2>1. net' \in NetsOn(E) /\ Dom \subseteq E
    BY <1>2, <1>8 DEF Kept
  <2> QED
    BY <2>1 DEF Dom, NetsOn
<1>10. L \union (E \ Dom) = S \union (E \ ModelNodes)
  BY <1>4, <1>9
<1>11. P \ {<<i, n>> : i \in MI(setting, n)} = Pairs(setting, Members(walk'))
  <2>1. Members(walk) \subseteq ModelNodes
    BY <1>5 DEF HandCopying
  <2>2. P \subseteq ModelNodes \X ModelNodes /\ Pairs(setting, Members(walk')) \subseteq ModelNodes \X ModelNodes
    BY <1>1, <2>1 DEF Pairs, P
  <2>3. \A i, m : <<i, m>> \in P <=> m \in Members(walk) /\ i \in MI(setting, m)
    BY <2>1, PairsIs DEF P
  <2>4. \A i, m : <<i, m>> \in Pairs(setting, Members(walk')) <=> m \in Members(walk') /\ i \in MI(setting, m)
    BY <1>1, <2>1, PairsIs
  <2> DEFINE T == {<<i, n>> : i \in MI(setting, n)}
             U == Pairs(setting, Members(walk'))
  <2>5. \A i, m : <<i, m>> \in T <=> m = n /\ i \in MI(setting, m)
    OBVIOUS
  <2> HIDE DEF T, U
  <2>6. \A i, m : <<i, m>> \in P \ T <=> <<i, m>> \in U
    BY <1>1, <2>3, <2>4, <2>5 DEF U
  <2>7. P \ T = U
    BY <2>2, <2>6 DEF U
  <2> QED
    BY <2>7 DEF T, U
<1>12. Loose(net', Members(order') \union (Dom' \ ModelNodes), Pairs(setting', Members(walk')), OneGPU')
  BY <1>2, <1>8, <1>9, <1>10, <1>11 DEF OneGPU
<1>13. \A x \in E : Kind(x) # "recycle"
  BY <1>8 DEF HandCopying, CopiesOf, Kind
<1>14. \A m \in Members(walk') : MI(setting, m) \subseteq S
  BY <1>1 DEF HandCopying
<1> QED
  BY <1>1, <1>2, <1>9, <1>12, <1>13, <1>14 DEF HandCopying, InnerRight

-----------------------------------------------------------------------------
(* The operands from the first build to the last task *)

Fusing ==
    /\ inner \in Seq(ModelNodes) /\ Distinct(inner) /\ \A x \in Dom : Kind(x) # "recycle"
    /\ \E L : /\ Dom \in Domains /\ AtHand(Dom, net, L, OneGPU) /\ Logits \in L
              /\ Members(inner) \subseteq L
              /\ walk \in Seq(L)
Recycling ==
    /\ walk \in Seq(ModelNodes) /\ Distinct(walk)
    /\ \A n \in Members(walk) : <<"recycle", n>> \notin Dom
    /\ \E L : /\ Dom \in Domains /\ AtHand(Dom, net, L, OneGPU) /\ Logits \in L
              /\ Members(walk) \subseteq L
Settled ==
    phase = "built" /\ \E L : Held(Dom, net, L, OneGPU) /\ order \in Seq(L)

HandInv ==
    /\ pass = "create" => FirstBuild /\ Ranged
    /\ pass \in {"forward", "backward"} => Placing
    /\ pass = "copy" => HandCopying
    /\ pass \in {"fuse", "recycle"} => phase = "idle"
    /\ pass = "fuse" => Fusing
    /\ pass = "recycle" => Recycling
    /\ pass = "rebuild" => \E L : Rebuilding(L)
    /\ pass \in {"schedule", "done"} => Settled

LEMMA TurnPass ==
    ASSUME StoreInv, Placing, pass = "forward", NextPass
    PROVE  Placing' /\ pass' = "backward"
<1>1. /\ walk' = Reverse(order) /\ pass' = "backward" /\ cur' = CPU /\ setting' = setting
      /\ net' = net /\ order' = order /\ inner' = inner
  BY DEF NextPass, vars
<1>2. order \in Seq(Dom)
  BY DEF StoreInv, Early, Lists3
<1>3. /\ DOMAIN order = 1 .. Len(order) /\ Len(order) \in Nat
      /\ DOMAIN walk' = 1 .. Len(order) /\ Len(walk') = Len(order)
      /\ \A k \in 1 .. Len(order) : walk'[k] = order[(Len(order) - k) + 1]
  BY <1>1, <1>2 DEF Reverse
<1>4. ASSUME NEW n \in Members(order) PROVE n \in Members(walk')
  <2>1. PICK k \in 1 .. Len(order) : order[k] = n
    BY <1>3 DEF Members
  <2>2. /\ (Len(order) - k) + 1 \in 1 .. Len(order)
        /\ (Len(order) - ((Len(order) - k) + 1)) + 1 = k
    BY <1>3
  <2>3. walk'[(Len(order) - k) + 1] = n
    BY <1>3, <2>1, <2>2
  <2> QED
    BY <1>3, <2>2, <2>3 DEF Members
<1>5. Len(walk') >= 2 /\ walk'[1] = Logits /\ walk'[2] = Out
  <2>1. Ended
    BY DEF Placing
  <2>2. 1 \in 1 .. Len(order) /\ 2 \in 1 .. Len(order) /\ (Len(order) - 1) + 1 = Len(order)
        /\ (Len(order) - 2) + 1 = Len(order) - 1
    BY <1>3, <2>1 DEF Ended
  <2> QED
    BY <1>3, <2>1, <2>2 DEF Ended
<1>6. Ahead'
  BY <1>5 DEF Ahead
<1>7. Ranged' /\ OutsExact' /\ Ended' /\ InnerRight'
  BY <1>1 DEF Placing, Ranged, OutsExact, Ended, InnerRight, Dom, Inputs
<1> QED
  BY <1>1, <1>4, <1>6, <1>7 DEF Placing

LEMMA StartFusing ==
    ASSUME Copying, HandCopying, pass = "copy", NextPass
    PROVE  Fusing'
<1>1. /\ walk = << >> /\ walk' = inner /\ setting' = setting
      /\ net' = net /\ order' = order /\ inner' = inner
  BY DEF NextPass, vars
<1>2. inner \in Seq(ModelNodes) /\ InnerRight /\ Logits \in Members(order) /\ order \in Seq(ModelNodes)
  BY DEF HandCopying
<1> DEFINE L == Members(order) \union (Dom \ ModelNodes)
<1>3. Dom \in Domains /\ net \in NetsOn(Dom) /\ L \in SUBSET Dom
  BY <1>2 DEF Copying, Members, Domains
<1>4. Pairs(setting, Members(walk)) = {}
  BY <1>1 DEF Pairs, Members
<1>5. Loose(net, L, {}, OneGPU)
  BY <1>4 DEF HandCopying
<1>6. Members(inner) \subseteq L
  BY <1>2 DEF InnerRight
<1>7. inner \in Seq(L)
  <2>1. \A k \in DOMAIN inner : inner[k] \in L
    BY <1>6 DEF Members
  <2> HIDE DEF L
  <2>2. inner \in [1 .. Len(inner) -> L] /\ Len(inner) \in Nat
    BY <1>2, <2>1
  <2> QED
    BY <2>2
<1>8. Logits \in L /\ Members(inner) \subseteq L
  BY <1>2, <1>6
<1> HIDE DEF L
<1>9. AtHand(Dom, net, L, OneGPU)
  BY <1>3, <1>5, LooseIsAtHand
<1>10. Dom' = Dom /\ OneGPU' = OneGPU
  BY <1>1 DEF Dom, OneGPU
<1>11. \E M : /\ Dom' \in Domains /\ AtHand(Dom', net', M, OneGPU') /\ Logits \in M
              /\ Members(inner') \subseteq M /\ walk' \in Seq(M)
  BY <1>1, <1>3, <1>7, <1>8, <1>9, <1>10
<1>12. inner' \in Seq(ModelNodes) /\ Distinct(inner') /\ \A x \in Dom' : Kind(x) # "recycle"
  BY <1>1, <1>2, <1>10 DEF HandCopying, InnerRight
<1> QED
  BY <1>11, <1>12 DEF Fusing

LEMMA FuseStep ==
    ASSUME Fusing, Fuse
    PROVE  Fusing'
<1>1. /\ walk # << >> /\ walk' = Tail(walk) /\ setting' = setting /\ order' = order /\ inner' = inner
      /\ net' = FuseNode(net, Head(walk))
  BY DEF Fuse, UnchangedLists, Current
<1>2. PICK L : /\ Dom \in Domains /\ AtHand(Dom, net, L, OneGPU) /\ Logits \in L
               /\ Members(inner) \subseteq L /\ walk \in Seq(L)
  BY <1>1 DEF Fusing
<1>3. Head(walk) \in L /\ Tail(walk) \in Seq(L)
  BY <1>1, <1>2
<1>4. AtHand(Dom, net', L, OneGPU)
  BY <1>1, <1>2, <1>3, FuseNodeKeeps
<1>5. Dom' = Dom /\ OneGPU' = OneGPU
  <2>1. net' \in NetsOn(Dom)
    BY <1>4 DEF AtHand
  <2> QED
    BY <1>1, <2>1 DEF NetsOn, Dom, OneGPU
<1>6. \E M : /\ Dom' \in Domains /\ AtHand(Dom', net', M, OneGPU') /\ Logits \in M
             /\ Members(inner') \subseteq M /\ walk' \in Seq(M)
  BY <1>1, <1>2, <1>3, <1>4, <1>5
<1> QED
  BY <1>1, <1>5, <1>6 DEF Fusing

LEMMA StartRecycling ==
    ASSUME Fusing, pass = "fuse", NextPass
    PROVE  Recycling'
<1>1. walk' = inner /\ setting' = setting /\ net' = net
  BY DEF NextPass, vars
<1>2. PICK L : /\ Dom \in Domains /\ AtHand(Dom, net, L, OneGPU) /\ Logits \in L
               /\ Members(inner) \subseteq L
  BY DEF Fusing
<1>3. Dom' = Dom /\ OneGPU' = OneGPU
  BY <1>1 DEF Dom, OneGPU
<1>4. \E M : /\ Dom' \in Domains /\ AtHand(Dom', net', M, OneGPU') /\ Logits \in M
             /\ Members(walk') \subseteq M
  BY <1>1, <1>2, <1>3
<1>5. \A n : <<"recycle", n>> \notin Dom
  BY DEF Fusing, Kind
<1> QED
  BY <1>1, <1>3, <1>4, <1>5 DEF Recycling, Fusing

LEMMA KeepStep ==
    ASSUME Recycling, KeepNode
    PROVE  Recycling'
<1>1. walk # << >> /\ walk' = Tail(walk) /\ setting' = setting /\ net' = net
  BY DEF KeepNode, vars
<1>2. walk' \in Seq(ModelNodes) /\ Distinct(walk') /\ Members(walk') \subseteq Members(walk)
  BY <1>1, WalkOn DEF Recycling
<1>3. Dom' = Dom /\ OneGPU' = OneGPU
  BY <1>1 DEF Dom, OneGPU
<1>4. \E L : /\ Dom \in Domains /\ AtHand(Dom, net, L, OneGPU) /\ Logits \in L
             /\ Members(walk') \subseteq L
  BY <1>2 DEF Recycling
<1> QED
  BY <1>1, <1>2, <1>3, <1>4 DEF Recycling

LEMMA RecycleStep ==
    ASSUME Recycling, Recycle
    PROVE  Recycling'
<1>0. PICK n : n = Current
  OBVIOUS
<1>1. /\ walk # << >> /\ walk' = Tail(walk) /\ setting' = setting
      /\ net' = RecycleNode(net, n) /\ n = Head(walk) /\ net.ins[n] # << >>
  BY <1>0 DEF Recycle, UnchangedLists, Current, ShouldRecycle
<1>2. /\ walk' \in Seq(ModelNodes) /\ Distinct(walk') /\ n \notin Members(walk') /\ n \in ModelNodes
      /\ Members(walk) = Members(walk') \union {n}
  BY <1>1, WalkOn DEF Recycling
<1>3. PICK L : /\ Dom \in Domains /\ AtHand(Dom, net, L, OneGPU) /\ Logits \in L
               /\ Members(walk) \subseteq L
  BY DEF Recycling
<1> DEFINE r == <<"recycle", n>>
           E == Dom \union {r}
           M == L \union {r}
<1>4. r \notin Dom
  BY <1>2 DEF Recycling
<1>5. E \in Domains /\ AtHand(E, net', M, OneGPU)
  BY <1>1, <1>2, <1>3, <1>4, RecycleKeeps
<1>6. Dom' = E /\ OneGPU' = OneGPU
  <2>1. net' \in NetsOn(E)
    BY <1>5 DEF AtHand
  <2> HIDE DEF E
  <2> QED
    BY <1>1, <2>1 DEF NetsOn, Dom, OneGPU
<1>7. Logits \in M /\ Members(walk') \subseteq M
  BY <1>2, <1>3
<1>8. \A m \in Members(walk') : <<"recycle", m>> \notin E
  BY <1>2 DEF Recycling
<1> HIDE DEF E, M
<1>9. \E K : /\ Dom' \in Domains /\ AtHand(Dom', net', K, OneGPU') /\ Logits \in K
             /\ Members(walk') \subseteq K
  BY <1>5, <1>6, <1>7
<1> QED
  BY <1>2, <1>6, <1>8, <1>9 DEF Recycling

LEMMA StartRebuilding ==
    ASSUME Recycling, phase = "idle", pass = "recycle", NextPass
    PROVE  \E L : Rebuilding(L)'
<1>1. setting' = setting /\ net' = net /\ phase' = "idle"
  BY DEF NextPass, vars
<1>2. PICK L : Dom \in Domains /\ AtHand(Dom, net, L, OneGPU) /\ Logits \in L
  BY DEF Recycling
<1>3. Held(Dom, net, L, OneGPU)
  BY <1>2 DEF AtHand, Held
<1>4. Dom' = Dom /\ OneGPU' = OneGPU
  BY <1>1 DEF Dom, OneGPU
<1>5. Rebuilding(L)'
  BY <1>1, <1>2, <1>3, <1>4 DEF Rebuilding
<1> QED
  BY <1>5

LEMMA StartSchedule ==
    ASSUME NEW L, Rebuilding(L), pass = "rebuild", NextPass
    PROVE  Settled'
<1>1. /\ setting' = setting /\ net' = net /\ phase' = phase /\ order' = order /\ phase = "built"
  BY DEF NextPass, vars
<1>2. Held(Dom, net, L, OneGPU) /\ order \in Seq(L)
  BY <1>1 DEF Rebuilding, Listed
<1>3. Dom' = Dom /\ OneGPU' = OneGPU
  BY <1>1 DEF Dom, OneGPU
<1>4. \E M : Held(Dom', net', M, OneGPU') /\ order' \in Seq(M)
  BY <1>1, <1>2, <1>3
<1> QED
  BY <1>1, <1>4 DEF Settled

LEMMA SettledKept ==
    ASSUME Settled, UNCHANGED vars, setting' = setting
    PROVE  Settled'
<1>1. net' = net /\ phase' = phase /\ order' = order
  BY DEF vars
<1>2. Dom' = Dom /\ OneGPU' = OneGPU
  BY <1>1 DEF Dom, OneGPU
<1> QED
  BY <1>1, <1>2 DEF Settled

(* A graph that is made for a setting.                                     *)
LEMMA StartNet ==
    ASSUME NEW s \in Settings
    PROVE  LET g == ModelNet(s)
           IN  /\ DOMAIN g.ins = ModelNodes /\ \A n \in ModelNodes : g.outs[n] = << >>
               /\ \A t \in ModelTensors : g.dev[t] \in {CPU} \union DOMAIN s.free
               /\ \A t \in Host : g.dev[t] = CPU
<1>1. DOMAIN ModelNet(s).ins = ModelNodes /\ \A n \in ModelNodes : ModelNet(s).outs[n] = << >>
  BY DEF ModelNet
<1>2. \A t \in ModelTensors : ModelNet(s).dev[t] = ModelDevice(s, t)
  BY StartEarly
<1>3. /\ \A t \in ModelTensors : ModelDevice(s, t) \in {CPU} \union DOMAIN s.free
      /\ \A t \in Host : ModelDevice(s, t) = CPU /\ t \in ModelTensors
  BY DeviceRange
<1> QED
  BY <1>1, <1>2, <1>3

LEMMA NoOuts == Distinct(<< >>) /\ Members(<< >>) = {}
  BY DEF Distinct, Members

LEMMA HandStart ==
    ASSUME setting' \in Settings, net' = ModelNet(setting'), phase' = "idle",
           order' = << >>, stack' = << >>
    PROVE  FirstBuild' /\ Ranged'
<1>1. /\ Dom' = ModelNodes /\ \A n \in ModelNodes : net'.outs[n] = << >>
      /\ \A t \in ModelTensors : net'.dev[t] \in {CPU} \union DOMAIN setting'.free
      /\ \A t \in Host : net'.dev[t] = CPU
  BY StartNet DEF Dom
<1>2. OutsRight'
  BY <1>1, NoOuts DEF OutsRight
<1> QED
  BY <1>1, <1>2 DEF FirstBuild, Ranged

LEMMA HandInit ==
    ASSUME OptInit
    PROVE  HandInv
<1>1. /\ setting \in Settings /\ pass = "create" /\ phase = "idle" /\ order = << >> /\ stack = << >>
      /\ net = ModelNet(setting)
  BY DEF OptInit
<1>2. /\ Dom = ModelNodes /\ \A n \in ModelNodes : net.outs[n] = << >>
      /\ \A t \in ModelTensors : net.dev[t] \in {CPU} \union DOMAIN setting.free
      /\ \A t \in Host : net.dev[t] = CPU
  BY <1>1, StartNet DEF Dom
<1>3. OutsRight
  BY <1>2, NoOuts DEF OutsRight
<1> QED
  BY <1>1, <1>2, <1>3 DEF HandInv, FirstBuild, Ranged

(* What the parts of the invariant speak of does not change.               *)
LEMMA HandStutter ==
    ASSUME HandInv, UNCHANGED allVars
    PROVE  HandInv'
<1>1. /\ net' = net /\ order' = order /\ inner' = inner /\ stack' = stack
      /\ phase' = phase /\ setting' = setting /\ pass' = pass /\ walk' = walk /\ cur' = cur
  BY DEF allVars, vars, optVars
<1>2. Dom' = Dom /\ OneGPU' = OneGPU /\ Ranged' = Ranged /\ Ended' = Ended /\ InnerRight' = InnerRight
  BY <1>1 DEF Dom, OneGPU, Ranged, Ended, InnerRight
<1>3. OutsRight' = OutsRight /\ OutsExact' = OutsExact /\ EndCalls' = EndCalls
  BY <1>1, <1>2 DEF OutsRight, OutsExact, EndCalls, Gone, Inputs
<1>4. FirstBuild' = FirstBuild
  BY <1>1, <1>2, <1>3 DEF FirstBuild
<1>5. Placing' = Placing
  BY <1>1, <1>2, <1>3 DEF Placing, Located, Ahead
<1>6. HandCopying' = HandCopying
  BY <1>1, <1>2 DEF HandCopying
<1>7. Fusing' = Fusing /\ Recycling' = Recycling /\ Settled' = Settled
  BY <1>1, <1>2 DEF Fusing, Recycling, Settled
<1>8. \A L : Rebuilding(L) => Rebuilding(L)'
  BY <1>1, <1>2 DEF Rebuilding, Listed
<1> QED
  BY <1>1, <1>2, <1>4, <1>5, <1>6, <1>7, <1>8 DEF HandInv

LEMMA HandBuild ==
    ASSUME StoreInv, HandInv, Build \/ Building
    PROVE  HandInv'
<1>1. pass' = pass
  BY DEF Build, Building, optVars
<1>2. Build \/ phase \in {"visit", "analyze"}
  BY DEF Building, Visit, Descend, UseInput, Finish, AnalyzeLifetimes
<1>3. pass \notin {"forward", "backward", "copy", "fuse", "recycle", "schedule", "done"}
  BY <1>2 DEF Build, StoreInv, HandInv, Settled
<1>4. pass = "create" => FirstBuild' /\ Ranged'
  BY FirstStep DEF StoreInv, HandInv
<1>5. ASSUME pass = "rebuild" PROVE \E L : Rebuilding(L)'
  <2>1. PICK L : Rebuilding(L)
    BY <1>5 DEF HandInv
  <2>2. Rebuilding(L)'
    BY <2>1, RebuildStep
  <2> QED
    BY <2>2
<1> QED
  BY <1>1, <1>3, <1>4, <1>5 DEF HandInv

LEMMA HandNextPass ==
    ASSUME StoreInv, HandInv, NextPass
    PROVE  HandInv'
<1>1. phase' = phase /\ setting' = setting /\ UNCHANGED vars
  BY DEF NextPass, vars
<1>2. CASE pass = "forward"
  <2>1. Placing' /\ pass' = "backward"
    BY <1>2, TurnPass DEF HandInv
  <2> QED
    BY <2>1 DEF HandInv
<1>3. CASE pass = "backward"
  <2>1. HandCopying' /\ pass' = "copy"
    BY <1>3, StartCopying DEF HandInv, NextPass
  <2> QED
    BY <2>1 DEF HandInv
<1>4. CASE pass = "copy"
  <2>1. Copying /\ phase = "idle"
    BY <1>4 DEF StoreInv
  <2>2. Fusing' /\ pass' = "fuse"
    BY <1>4, <2>1, StartFusing DEF HandInv, NextPass
  <2> QED
    BY <1>1, <2>1, <2>2 DEF HandInv
<1>5. CASE pass = "fuse"
  <2>1. Recycling' /\ pass' = "recycle" /\ phase = "idle"
    BY <1>5, StartRecycling DEF HandInv, NextPass
  <2> QED
    BY <1>1, <2>1 DEF HandInv
<1>6. CASE pass = "recycle"
  <2>1. pass' = "rebuild" /\ \E L : Rebuilding(L)'
    BY <1>6, StartRebuilding DEF HandInv, NextPass
  <2> QED
    BY <2>1 DEF HandInv
<1>7. CASE pass = "rebuild"
  <2>1. PICK L : Rebuilding(L)
    BY <1>7 DEF HandInv
  <2>2. Settled' /\ pass' = "schedule"
    BY <1>7, <2>1, StartSchedule DEF NextPass
  <2> QED
    BY <2>2 DEF HandInv
<1>8. CASE pass = "schedule"
  <2>1. Settled' /\ pass' = "done"
    BY <1>1, <1>8, SettledKept DEF HandInv, NextPass
  <2> QED
    BY <2>1 DEF HandInv
<1> QED
  BY <1>2, <1>3, <1>4, <1>5, <1>6, <1>7, <1>8 DEF NextPass

LEMMA HandStep ==
    ASSUME StoreInv, HandInv, [OptNext]_allVars
    PROVE  HandInv'
<1>1. CASE Build \/ Building
  BY <1>1, HandBuild
<1>2. CASE StartPlacing
  <2>1. Placing' /\ pass' = "forward"
    BY <1>2, StartPlacingKeeps DEF StartPlacing, HandInv
  <2> QED
    BY <2>1 DEF HandInv
<1>3. CASE Place
  <2>1. pass \in {"forward", "backward"} /\ pass' = pass
    BY <1>3 DEF Place
  <2>2. Placing'
    BY <1>3, <2>1, PlacingStep DEF HandInv
  <2> QED
    BY <2>1, <2>2 DEF HandInv
<1>4. CASE Copy
  <2>1. pass = "copy" /\ pass' = pass
    BY <1>4 DEF Copy
  <2>2. HandCopying'
    BY <1>4, <2>1, HandCopyStep DEF StoreInv, HandInv
  <2> QED
    BY <2>1, <2>2 DEF HandInv
<1>5. CASE Fuse
  <2>1. pass = "fuse" /\ pass' = pass /\ phase' = phase
    BY <1>5 DEF Fuse, UnchangedLists
  <2>2. Fusing'
    BY <1>5, <2>1, FuseStep DEF HandInv
  <2> QED
    BY <2>1, <2>2 DEF HandInv
<1>6. CASE KeepNode \/ Recycle
  <2>1. pass = "recycle" /\ pass' \in {"recycle", "undefined"} /\ phase' = phase
    BY <1>6 DEF KeepNode, Recycle, vars
  <2>2. Recycling'
    BY <1>6, <2>1, KeepStep, RecycleStep DEF HandInv
  <2> QED
    BY <2>1, <2>2 DEF HandInv
<1>7. CASE NextPass
  BY <1>7, HandNextPass
<1>8. CASE Schedule
  <2>1. pass = "schedule" /\ pass' = pass /\ UNCHANGED vars /\ setting' = setting
    BY <1>8 DEF Schedule
  <2>2. Settled'
    BY <2>1, SettledKept DEF HandInv
  <2> QED
    BY <2>1, <2>2 DEF HandInv
<1>9. CASE NextToken
  <2>1. setting' \in Settings
    BY <1>9 DEF NextToken, StoreInv, Settings
  <2>2. FirstBuild' /\ Ranged' /\ pass' = "create"
    BY <1>9, <2>1, HandStart DEF NextToken
  <2> QED
    BY <2>2 DEF HandInv
<1>10. CASE UNCHANGED allVars
  BY <1>10, HandStutter
<1> QED
  BY <1>1, <1>2, <1>3, <1>4, <1>5, <1>6, <1>7, <1>8, <1>9, <1>10 DEF OptNext

(* Whatever the GPUs and their memory: what a node reads is on the node's  *)
(* device, or was copied there, however nodes are placed, copied, fused    *)
(* and recycled; with one GPU so are all tensors that its kernel is given. *)
THEOREM OperandsHeld == OptSpec => []OperandsAtHand
<1>1. OptInit => StoreInv /\ HandInv
  BY StoreInit, HandInit
<1>2. StoreInv /\ HandInv /\ [OptNext]_allVars => StoreInv' /\ HandInv'
  BY StoreStep, HandStep
<1>3. HandInv => OperandsAtHand
  <2> SUFFICES ASSUME HandInv, Done PROVE OperandsAtHand
    BY DEF OperandsAtHand
  <2>1. Settled
    BY DEF HandInv, Done
  <2>2. PICK L : Held(Dom, net, L, OneGPU) /\ order \in Seq(L)
    BY <2>1 DEF Settled
  <2> QED
    BY <2>2, HeldMeans
<1> QED
  BY <1>1, <1>2, <1>3, PTL DEF OptSpec

=============================================================================
