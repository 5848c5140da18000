------------------------------- MODULE GraphProofs -------------------------------
(***************************************************************************)
(* build_graph puts every node behind its inputs and lists nothing else,   *)
(* for every set of nodes and every acyclic graph, whatever the callers do *)
(* between two builds.                                                     *)
(*                                                                         *)
(* The inductive invariant describes the calls of visit() that have not    *)
(* returned: each is the call for the input at which the one below it      *)
(* stands, so an input that is visited but not in the list yet would close *)
(* a cycle; and a node that is in the list already is read by a later one  *)
(* or by a node whose call is still open.                                  *)
(***************************************************************************)
EXTENDS Graph, SequenceTheorems, TLAPS

(* What the list is at any time: no node twice, inputs first.              *)
ListOrdered ==
    /\ \A p, q \in DOMAIN order : order[p] = order[q] => p = q
    /\ \A p \in DOMAIN order : \A i \in Inputs(order[p]) :
           \E q \in DOMAIN order : q < p /\ order[q] = i

ReadLater(p) == \E q \in DOMAIN order : p < q /\ order[p] \in Inputs(order[q])

CallsNested ==
    /\ stack # << >> /\ stack[1][1] = root
    /\ \A k \in DOMAIN stack : stack[k][2] \in 1 .. Len(net.ins[stack[k][1]]) + 1
    /\ \A k \in 1 .. Len(stack) - 1 :
           /\ stack[k][2] <= Len(net.ins[stack[k][1]])
           /\ stack[k + 1][1] = net.ins[stack[k][1]][stack[k][2]]
    /\ \A j, k \in DOMAIN stack : stack[j][1] = stack[k][1] => j = k

CallsAndList ==
    /\ \A k \in DOMAIN stack : stack[k][1] \notin Members(order)
    /\ \A n \in Nodes : uses[n] # -1 =>
           n \in Members(order) \/ \E k \in DOMAIN stack : stack[k][1] = n
    /\ \A n \in Nodes : uses[n] = -1 =>
           n \notin Members(order) /\ \A k \in DOMAIN stack : stack[k][1] # n
    /\ \A k \in DOMAIN stack : \A i \in 1 .. stack[k][2] - 1 :
           net.ins[stack[k][1]][i] \in Members(order)
    /\ \A p \in DOMAIN order :
           ReadLater(p) \/ \E k \in DOMAIN stack : order[p] \in Inputs(stack[k][1])

Complete ==
    /\ order # << >> /\ order[Len(order)] = root
    /\ \A p \in DOMAIN order : p = Len(order) \/ ReadLater(p)

IInv ==
    /\ TypeOK
    /\ Acyclic(net.ins)
    /\ phase = "visit" => ListOrdered /\ CallsNested /\ CallsAndList
    /\ phase \in {"analyze", "built"} => ListOrdered /\ Complete

-----------------------------------------------------------------------------
(* A list of inputs is a sequence of nodes.                                *)
LEMMA ListIsSequence ==
    ASSUME NEW l \in Lists
    PROVE  l \in Seq(Nodes) /\ Len(l) \in Nat /\ DOMAIN l = 1 .. Len(l)
<1>1. PICK k \in 0 .. MaxInputs : l \in [1 .. k -> Nodes]
  BY DEF Lists
<1>2. k \in Nat
  BY MaxInputsAssumption
<1> QED
  BY <1>1, <1>2

(* The call on top of the stack, and the input at which it stands.         *)
LEMMA TopCall ==
    ASSUME TypeOK, stack # << >>
    PROVE  /\ Len(stack) \in Nat \ {0} /\ DOMAIN stack = 1 .. Len(stack)
           /\ Top = stack[Len(stack)] /\ Top \in Nodes \X (Nat \ {0})
           /\ Node \in Nodes /\ Node = stack[Len(stack)][1]
           /\ net.ins[Node] \in Seq(Nodes) /\ Len(net.ins[Node]) \in Nat
           /\ More => NextInput \in Nodes /\ NextInput \in Inputs(Node)
<1>1. Len(stack) \in Nat \ {0} /\ stack[Len(stack)] \in Nodes \X (Nat \ {0})
  BY DEF TypeOK
<1>2. Node \in Nodes /\ Top[2] \in Nat \ {0}
  BY <1>1 DEF Node, Top
<1>3. net.ins[Node] \in Lists
  BY <1>2 DEF TypeOK
<1>4. net.ins[Node] \in Seq(Nodes) /\ Len(net.ins[Node]) \in Nat
      /\ DOMAIN net.ins[Node] = 1 .. Len(net.ins[Node])
  BY <1>3, ListIsSequence
<1>5. More => NextInput \in Nodes /\ NextInput \in Inputs(Node)
  <2> SUFFICES ASSUME More PROVE NextInput \in Nodes /\ NextInput \in Inputs(Node)
    OBVIOUS
  <2>1. Top[2] \in DOMAIN net.ins[Node]
    BY <1>2, <1>4 DEF More
  <2> QED
    BY <2>1, <1>4 DEF NextInput, Inputs, Members
<1> QED
  BY <1>1, <1>2, <1>4, <1>5 DEF Top, Node, TypeOK

-----------------------------------------------------------------------------
(* What an edit of net leaves as it is. *)
LEMMA NewOuts ==
    ASSUME NEW g \in [ins : [Nodes -> Lists], outs : [Nodes -> Seq(Nodes)]],
           NEW o \in [Nodes -> Seq(Nodes)]
    PROVE  /\ [g EXCEPT !.outs = o] \in [ins : [Nodes -> Lists], outs : [Nodes -> Seq(Nodes)]]
           /\ [g EXCEPT !.outs = o].ins = g.ins
  OBVIOUS

LEMMA OutsRecord ==
    ASSUME NEW g \in [ins : [Nodes -> Lists], outs : [Nodes -> Seq(Nodes)]],
           NEW o \in [Nodes -> Seq(Nodes)]
    PROVE  [g EXCEPT !.outs = o].outs = o
  OBVIOUS

LEMMA NewIns ==
    ASSUME NEW g \in [ins : [Nodes -> Lists], outs : [Nodes -> Seq(Nodes)]],
           NEW f \in [Nodes -> Lists]
    PROVE  [g EXCEPT !.ins = f] \in [ins : [Nodes -> Lists], outs : [Nodes -> Seq(Nodes)]]
  OBVIOUS

LEMMA OneMore ==
    ASSUME NEW t \in Nodes \X (Nat \ {0})
    PROVE  [t EXCEPT ![2] = @ + 1] = <<t[1], t[2] + 1>>
  OBVIOUS

LEMMA BuildEffect ==
    ASSUME TypeOK, NEW n \in Nodes, BuildGraph(n)
    PROVE  /\ net' \in [ins : [Nodes -> Lists], outs : [Nodes -> Seq(Nodes)]]
           /\ net'.ins = net.ins
           /\ uses' \in [Nodes -> Nat \union {-1}]
           /\ \A m \in Nodes : uses'[m] # -1 <=> m = n
<1> DEFINE o == [m \in DOMAIN net.outs |-> IF m \in Members(order) THEN << >> ELSE net.outs[m]]
<1>1. net.outs \in [Nodes -> Seq(Nodes)] /\ net.ins \in [Nodes -> Lists]
  BY DEF TypeOK
<1>2. o \in [Nodes -> Seq(Nodes)]
  BY <1>1
<1>3. net' = [net EXCEPT !.outs = o]
  BY DEF BuildGraph
<1> HIDE DEF o
<1>4. net' \in [ins : [Nodes -> Lists], outs : [Nodes -> Seq(Nodes)]] /\ net'.ins = net.ins
  BY <1>2, <1>3, NewOuts DEF TypeOK
<1>5. uses' = [m \in Nodes |-> IF m = n THEN 0 ELSE -1]
  BY <1>1 DEF BuildGraph
<1> QED
  BY <1>4, <1>5

LEMMA UseEffect ==
    ASSUME TypeOK, stack # << >>, UseInput
    PROVE  /\ net' \in [ins : [Nodes -> Lists], outs : [Nodes -> Seq(Nodes)]]
           /\ net'.ins = net.ins
           /\ uses' \in [Nodes -> Nat \union {-1}]
           /\ \A m \in Nodes : uses'[m] # -1 <=> uses[m] # -1
           /\ stack' = [stack EXCEPT ![Len(stack)] = <<Node, Top[2] + 1>>]
           /\ stack' \in Seq(Nodes \X (Nat \ {0})) /\ Len(stack') = Len(stack)
<1> DEFINE o == [net.outs EXCEPT ![NextInput] = Append(@, Node)]
           t == [stack[Len(stack)] EXCEPT ![2] = @ + 1]
<1>1. NextInput \in Nodes /\ Node \in Nodes /\ Len(stack) \in DOMAIN stack
  BY TopCall DEF UseInput
<1>2. net.outs \in [Nodes -> Seq(Nodes)]
  BY DEF TypeOK
<1>3. o \in [Nodes -> Seq(Nodes)]
  BY <1>1, <1>2
<1>4. net' = [net EXCEPT !.outs = o] /\ stack' = [stack EXCEPT ![Len(stack)] = t]
  BY DEF UseInput
<1>5. t = <<Node, Top[2] + 1>>
  BY OneMore, TopCall DEF Node, Top
<1> HIDE DEF o, t
<1>6. net' \in [ins : [Nodes -> Lists], outs : [Nodes -> Seq(Nodes)]] /\ net'.ins = net.ins
  BY <1>3, <1>4, NewOuts DEF TypeOK
<1>7. uses' = [uses EXCEPT ![NextInput] = @ + 1] /\ uses[NextInput] \in Nat
  BY <1>1 DEF UseInput, TypeOK
<1>8. uses' \in [Nodes -> Nat \union {-1}] /\ \A m \in Nodes : uses'[m] # -1 <=> uses[m] # -1
  BY <1>1, <1>7 DEF TypeOK
<1>9. stack' = [stack EXCEPT ![Len(stack)] = <<Node, Top[2] + 1>>]
  BY <1>4, <1>5
<1>10. <<Node, Top[2] + 1>> \in Nodes \X (Nat \ {0})
  BY <1>1, TopCall
<1>11. stack' \in Seq(Nodes \X (Nat \ {0})) /\ Len(stack') = Len(stack)
  BY <1>1, <1>9, <1>10 DEF TypeOK
<1> QED
  BY <1>6, <1>8, <1>9, <1>11

LEMMA EditEffect ==
    ASSUME TypeOK, NEW n \in Nodes, NEW list \in Lists, Edit(n, list)
    PROVE  net' \in [ins : [Nodes -> Lists], outs : [Nodes -> Seq(Nodes)]]
<1> DEFINE f == [net.ins EXCEPT ![n] = list]
<1>1. f \in [Nodes -> Lists]
  BY DEF TypeOK
<1>2. net' = [net EXCEPT !.ins = f]
  BY DEF Edit
<1> HIDE DEF f
<1> QED
  BY <1>1, <1>2, NewIns DEF TypeOK

LEMMA PartOfSequence ==
    ASSUME NEW s \in Seq(Nodes), NEW a \in Int, NEW b \in Int, 1 <= a, b <= Len(s)
    PROVE  /\ SubSeq(s, a, b) \in Seq(Nodes)
           /\ Len(SubSeq(s, a, b)) = IF a <= b THEN b - a + 1 ELSE 0
  OBVIOUS

(* A caller's edit of an output list leaves all else as it is, and makes   *)
(* that list one longer only where the bound allows.                       *)
LEMMA OutputEffect ==
    ASSUME TypeOK, NEW m \in Nodes, NEW n \in Nodes,
           AddOutputNode(m, n) \/ RemoveOutputNode(m, n)
    PROVE  /\ net' \in [ins : [Nodes -> Lists], outs : [Nodes -> Seq(Nodes)]]
           /\ net'.ins = net.ins
           /\ phase' = "idle" /\ phase \in {"idle", "built"}
           /\ UNCHANGED <<order, inner, uses, stack, root, life>>
           /\ \A x \in Nodes : x # m => net'.outs[x] = net.outs[x]
           /\ \/ Len(net'.outs[m]) <= Len(net.outs[m])
              \/ Len(net'.outs[m]) <= Counted(m) + MaxOutputs
<1> DEFINE s == net.outs[m]
<1>1. net.outs \in [Nodes -> Seq(Nodes)] /\ s \in Seq(Nodes)
  BY DEF TypeOK
<1>2. ASSUME NEW t \in Seq(Nodes), net' = [net EXCEPT !.outs[m] = t]
      PROVE  /\ net' \in [ins : [Nodes -> Lists], outs : [Nodes -> Seq(Nodes)]]
             /\ net'.ins = net.ins
             /\ \A x \in Nodes : x # m => net'.outs[x] = net.outs[x]
             /\ net'.outs[m] = t
  <2> DEFINE o == [net.outs EXCEPT ![m] = t]
  <2>1. net' = [net EXCEPT !.outs = o]
    BY <1>2
  <2>2. o \in [Nodes -> Seq(Nodes)] /\ o[m] = t /\ \A x \in Nodes : x # m => o[x] = net.outs[x]
    BY <1>1
  <2> HIDE DEF o
  <2>3. net' \in [ins : [Nodes -> Lists], outs : [Nodes -> Seq(Nodes)]] /\ net'.ins = net.ins
    BY <2>1, <2>2, NewOuts DEF TypeOK
  <2>4. net'.outs = o
    BY <2>1, <2>2, OutsRecord DEF TypeOK
  <2> QED
    BY <2>2, <2>3, <2>4
<1>3. CASE AddOutputNode(m, n)
  <2> DEFINE t == Append(s, n)
  <2>1. t \in Seq(Nodes) /\ Len(t) = Len(s) + 1 /\ Len(s) \in Nat
    BY <1>1
  <2>2. Counted(m) \in Nat
    BY DEF TypeOK, Counted
  <2>3. Len(s) < Counted(m) + MaxOutputs
    BY <1>3 DEF AddOutputNode
  <2>4. Len(t) <= Counted(m) + MaxOutputs
    BY <2>1, <2>2, <2>3, MaxOutputsAssumption
  <2>5. net' = [net EXCEPT !.outs[m] = t]
    BY <1>3 DEF AddOutputNode
  <2> HIDE DEF t
  <2> QED
    BY <1>2, <1>3, <2>1, <2>4, <2>5 DEF AddOutputNode
<1>4. CASE RemoveOutputNode(m, n)
  <2>1. PICK i \in DOMAIN s : net' = [net EXCEPT !.outs[m] = RemoveAt(@, i)]
    BY <1>4 DEF RemoveOutputNode
  <2>2. i \in 1 .. Len(s) /\ Len(s) \in Nat
    BY <1>1
  <2> DEFINE u == SubSeq(s, 1, i - 1)
             v == SubSeq(s, i + 1, Len(s))
             t == RemoveAt(s, i)
  <2>3. u \in Seq(Nodes) /\ Len(u) = i - 1
    <3>1. u \in Seq(Nodes) /\ Len(u) = IF 1 <= i - 1 THEN i - 1 - 1 + 1 ELSE 0
      BY <1>1, <2>2, PartOfSequence
    <3> QED
      BY <3>1, <2>2
  <2>4. v \in Seq(Nodes) /\ Len(v) = Len(s) - i
    <3>1. v \in Seq(Nodes) /\ Len(v) = IF i + 1 <= Len(s) THEN Len(s) - (i + 1) + 1 ELSE 0
      BY <1>1, <2>2, PartOfSequence
    <3> QED
      BY <3>1, <2>2
  <2>5. t = u \o v
    BY DEF RemoveAt
  <2>6. net' = [net EXCEPT !.outs[m] = t]
    BY <2>1
  <2> HIDE DEF t, u, v
  <2>7. t \in Seq(Nodes) /\ Len(t) = Len(u) + Len(v)
    BY <2>3, <2>4, <2>5, ConcatProperties
  <2>8. Len(t) <= Len(s)
    BY <2>2, <2>3, <2>4, <2>7
  <2> QED
    BY <1>2, <1>4, <2>6, <2>7, <2>8 DEF RemoveOutputNode
<1> QED
  BY <1>3, <1>4

-----------------------------------------------------------------------------
(* The types hold as long as visit() runs only in a call.                  *)
InCall == phase = "visit" => stack # << >>

LEMMA InitTypes == Init => TypeOK /\ InCall /\ Acyclic(net.ins)
<1> SUFFICES ASSUME Init PROVE TypeOK /\ InCall /\ Acyclic(net.ins)
  OBVIOUS
<1>1. net \in [ins : {f \in [Nodes -> Lists] : Acyclic(f)}, outs : {[n \in Nodes |-> << >>]}]
  BY DEF Init
<1>2. [n \in Nodes |-> << >>] \in [Nodes -> Seq(Nodes)]
  OBVIOUS
<1>3. net \in [ins : [Nodes -> Lists], outs : [Nodes -> Seq(Nodes)]] /\ Acyclic(net.ins)
  BY <1>1, <1>2
<1> QED
  BY <1>3 DEF Init, TypeOK, InCall

LEMMA StepTypes == TypeOK /\ InCall /\ [Next]_vars => TypeOK' /\ InCall'
<1> SUFFICES ASSUME TypeOK, InCall, [Next]_vars PROVE TypeOK' /\ InCall'
  OBVIOUS
<1>1. ASSUME NEW n \in Nodes, BuildGraph(n) PROVE TypeOK' /\ InCall'
  <2>1. stack' \in Seq(Nodes \X (Nat \ {0})) /\ stack' # << >>
    BY <1>1 DEF BuildGraph
  <2>2. net' \in [ins : [Nodes -> Lists], outs : [Nodes -> Seq(Nodes)]]
        /\ uses' \in [Nodes -> Nat \union {-1}]
    BY <1>1, BuildEffect
  <2>3. order' \in Seq(Nodes) /\ inner' \in Seq(Nodes) /\ root' \in Nodes /\ phase' = "visit"
    BY <1>1 DEF BuildGraph
  <2> QED
    BY <2>1, <2>2, <2>3 DEF TypeOK, InCall
<1>2. ASSUME NEW n \in Nodes, AddNode(n) PROVE TypeOK' /\ InCall'
  BY <1>2 DEF AddNode, TypeOK, InCall
<1>3. ASSUME NEW n \in Nodes, NEW list \in Lists, Edit(n, list) PROVE TypeOK' /\ InCall'
  BY <1>3, EditEffect DEF Edit, TypeOK, InCall
<1>4. ASSUME NEW m \in Nodes, NEW n \in Nodes, AddOutputNode(m, n) \/ RemoveOutputNode(m, n)
      PROVE  TypeOK' /\ InCall'
  BY <1>4, OutputEffect DEF TypeOK, InCall
<1>5. ASSUME AnalyzeLifetimes PROVE TypeOK' /\ InCall'
  BY <1>5 DEF AnalyzeLifetimes, TypeOK, InCall
<1>6. ASSUME Descend PROVE TypeOK' /\ InCall'
  <2>1. NextInput \in Nodes
    BY <1>6, TopCall DEF Descend, InCall
  <2>2. <<NextInput, 1>> \in Nodes \X (Nat \ {0})
    BY <2>1
  <2>3. stack' \in Seq(Nodes \X (Nat \ {0})) /\ stack' # << >>
        /\ uses' \in [Nodes -> Nat \union {-1}]
    BY <1>6, <2>1, <2>2 DEF Descend, TypeOK
  <2> QED
    BY <1>6, <2>3 DEF Descend, TypeOK, InCall
<1>7. ASSUME UseInput PROVE TypeOK' /\ InCall'
  <2>1. stack # << >>
    BY <1>7 DEF InCall, UseInput
  <2>2. stack' # << >>
    BY <2>1, <1>7, UseEffect, TopCall
  <2> QED
    BY <1>7, <2>1, <2>2, UseEffect DEF UseInput, TypeOK, InCall
<1>8. ASSUME Finish PROVE TypeOK' /\ InCall'
  <2>1. stack # << >> /\ Node \in Nodes
    BY <1>8, TopCall DEF InCall, Finish
  <2>2. Pop \in Seq(Nodes \X (Nat \ {0}))
    BY <1>8, <2>1, TopCall DEF Pop, TypeOK
  <2>3. inner' \in Seq(Nodes) /\ order' \in Seq(Nodes)
    BY <1>8, <2>1 DEF Finish, TypeOK
  <2> QED
    BY <1>8, <2>1, <2>2, <2>3 DEF Finish, TypeOK, InCall
<1>9. CASE UNCHANGED vars
  BY <1>9 DEF vars, TypeOK, InCall
<1> QED
  BY <1>1, <1>2, <1>3, <1>4, <1>5, <1>6, <1>7, <1>8, <1>9 DEF Next, Visit

(* All variables keep their types.                                         *)
THEOREM TypeCorrect == Spec => []TypeOK
<1>1. Init => TypeOK /\ InCall
  BY InitTypes
<1> QED
  BY <1>1, StepTypes, PTL DEF Spec

-----------------------------------------------------------------------------
(* The call on top has not been made for a node that a call further down   *)
(* is for: the nodes of the calls between them would form a cycle.         *)
LEMMA InputNotOpen ==
    ASSUME TypeOK, Acyclic(net.ins), CallsNested, More, NEW j \in DOMAIN stack
    PROVE  NextInput # stack[j][1]
<1> SUFFICES ASSUME NextInput = stack[j][1] PROVE FALSE
  OBVIOUS
<1>1. stack # << >>
  BY DEF CallsNested
<1>2. /\ Len(stack) \in Nat \ {0} /\ DOMAIN stack = 1 .. Len(stack)
      /\ Node = stack[Len(stack)][1] /\ NextInput \in Inputs(Node)
  BY <1>1, TopCall
<1> DEFINE S == {stack[i][1] : i \in j .. Len(stack)}
<1>3. \A i \in 1 .. Len(stack) : stack[i][1] \in Nodes
  BY <1>2 DEF TypeOK
<1>4. S \in SUBSET Nodes /\ S # {}
  BY <1>2, <1>3
<1>5. PICK n \in S : Members(net.ins[n]) \cap S = {}
  BY <1>4 DEF Acyclic
<1>6. PICK i \in j .. Len(stack) : n = stack[i][1]
  OBVIOUS
<1>7. CASE i = Len(stack)
  <2>1. stack[j][1] \in Inputs(n) /\ stack[j][1] \in S
    BY <1>2, <1>6, <1>7
  <2> QED
    BY <2>1, <1>5 DEF Inputs
<1>8. CASE i # Len(stack)
  <2>1. i \in 1 .. Len(stack) - 1 /\ i + 1 \in j .. Len(stack)
    BY <1>2, <1>8
  <2>2. stack[i][2] \in 1 .. Len(net.ins[n]) /\ stack[i + 1][1] = net.ins[n][stack[i][2]]
    BY <2>1, <1>2, <1>6 DEF CallsNested
  <2>3. net.ins[n] \in Lists
    BY <1>6, <1>2, <1>3 DEF TypeOK
  <2>4. stack[i + 1][1] \in Members(net.ins[n])
    BY <2>2, <2>3, ListIsSequence DEF Members
  <2> QED
    BY <2>1, <2>4, <1>5
<1> QED
  BY <1>7, <1>8

(* A new build begins with one call and an empty list.                     *)
LEMMA BuildStep ==
    ASSUME IInv, NEW n \in Nodes, BuildGraph(n)
    PROVE  Acyclic(net.ins)' /\ (ListOrdered /\ CallsNested /\ CallsAndList)'
<1>1. TypeOK
  BY DEF IInv
<1>2. net'.ins = net.ins /\ \A m \in Nodes : uses'[m] # -1 <=> m = n
  BY <1>1, BuildEffect
<1>3. order' = << >> /\ stack' = << <<n, 1>> >> /\ root' = n
  BY DEF BuildGraph
<1>4. Acyclic(net.ins)'
  BY <1>2 DEF IInv, Acyclic
<1>5. Members(order)' = {} /\ DOMAIN order' = {}
  BY <1>3 DEF Members
<1>6. ListOrdered'
  BY <1>5 DEF ListOrdered
<1>7. Len(stack') = 1 /\ DOMAIN stack' = {1} /\ stack'[1][1] = n /\ stack'[1][2] = 1
  BY <1>3
<1>8. net'.ins[n] \in Lists
  BY <1>1, <1>2 DEF TypeOK
<1>9. Len(net'.ins[n]) \in Nat
  BY <1>8, ListIsSequence
<1>10. CallsNested'
  BY <1>3, <1>7, <1>9 DEF CallsNested
<1>11. CallsAndList'
  BY <1>2, <1>5, <1>7 DEF CallsAndList
<1> QED
  BY <1>4, <1>6, <1>10, <1>11

(* A call for an input that has not been visited.                          *)
LEMMA DescendStep ==
    ASSUME IInv, Descend
    PROVE  (ListOrdered /\ CallsNested /\ CallsAndList)'
<1> DEFINE k == Len(stack)  x == NextInput
<1>1. TypeOK /\ ListOrdered /\ CallsNested /\ CallsAndList /\ stack # << >>
  BY DEF IInv, Descend, CallsNested
<1>2. /\ k \in Nat \ {0} /\ DOMAIN stack = 1 .. k /\ Node = stack[k][1]
      /\ x \in Nodes /\ x \in Inputs(Node) /\ Top = stack[k]
  BY <1>1, TopCall DEF Descend
<1>3. net' = net /\ order' = order /\ root' = root /\ stack' = Append(stack, <<x, 1>>)
  BY DEF Descend
<1>4. uses[x] = -1 /\ uses' = [uses EXCEPT ![x] = 0] /\ uses \in [Nodes -> Nat \union {-1}]
  BY <1>1 DEF Descend, TypeOK
<1>5. /\ Len(stack') = k + 1 /\ DOMAIN stack' = 1 .. k + 1
      /\ \A i \in 1 .. k : stack'[i][1] = stack[i][1] /\ stack'[i][2] = stack[i][2]
      /\ stack'[k + 1][1] = x /\ stack'[k + 1][2] = 1
  BY <1>1, <1>2, <1>3 DEF TypeOK
<1>6. Members(order)' = Members(order) /\ \A n : Inputs(n)' = Inputs(n)
  BY <1>3 DEF Members, Inputs
<1>7. ListOrdered'
  BY <1>1, <1>3, <1>6 DEF ListOrdered
<1>8. x \notin Members(order) /\ \A i \in 1 .. k : stack[i][1] # x
  BY <1>1, <1>2, <1>4 DEF CallsAndList
<1>9. CallsNested'
  <2>1. Len(net.ins[x]) \in Nat
    BY <1>1, <1>2, ListIsSequence DEF TypeOK
  <2>2. stack[k][2] <= Len(net.ins[stack[k][1]]) /\ x = net.ins[stack[k][1]][stack[k][2]]
    BY <1>2 DEF Descend, More, NextInput
  <2>3. stack' # << >> /\ stack'[1][1] = root'
    BY <1>1, <1>2, <1>3, <1>5 DEF CallsNested
  <2>4. \A i \in DOMAIN stack' : stack'[i][2] \in 1 .. Len(net'.ins[stack'[i][1]]) + 1
    BY <1>1, <1>2, <1>3, <1>5, <2>1 DEF CallsNested
  <2>5. \A i \in 1 .. Len(stack') - 1 :
           /\ stack'[i][2] <= Len(net'.ins[stack'[i][1]])
           /\ stack'[i + 1][1] = net'.ins[stack'[i][1]][stack'[i][2]]
    <3> SUFFICES ASSUME NEW i \in 1 .. k
                 PROVE  /\ stack[i][2] <= Len(net.ins[stack[i][1]])
                        /\ stack'[i + 1][1] = net.ins[stack[i][1]][stack[i][2]]
      BY <1>2, <1>3, <1>5
    <3>1. CASE i = k
      BY <3>1, <2>2, <1>5
    <3>2. CASE i # k
      <4>0. k \in Nat
        BY <1>2
      <4>1. i \in 1 .. k - 1 /\ i + 1 \in 1 .. k
        BY <3>2, <4>0
      <4>2. stack'[i + 1][1] = stack[i + 1][1]
        BY <4>1, <1>5
      <4> QED
        BY <4>1, <4>2, <1>1 DEF CallsNested
    <3> QED
      BY <3>1, <3>2
  <2>6. \A i, j \in DOMAIN stack' : stack'[i][1] = stack'[j][1] => i = j
    BY <1>1, <1>2, <1>5, <1>8 DEF CallsNested
  <2> QED
    BY <2>3, <2>4, <2>5, <2>6 DEF CallsNested
<1>10. CallsAndList'
  <2>1. \A i \in DOMAIN stack' : stack'[i][1] \notin Members(order)'
    BY <1>1, <1>2, <1>5, <1>6, <1>8 DEF CallsAndList
  <2>2. \A n \in Nodes : uses'[n] # -1 =>
          n \in Members(order)' \/ \E i \in DOMAIN stack' : stack'[i][1] = n
    <3>0. k + 1 \in DOMAIN stack' /\ stack'[k + 1][1] = x
      BY <1>2, <1>5
    <3> SUFFICES ASSUME NEW n \in Nodes, uses'[n] # -1, n # x
                 PROVE  n \in Members(order) \/ \E i \in 1 .. k : stack[i][1] = n
      <4>1. \A i \in 1 .. k : i \in DOMAIN stack' /\ stack'[i][1] = stack[i][1]
        BY <1>2, <1>5
      <4> QED
        BY <3>0, <4>1, <1>6
    <3>1. uses[n] # -1
      BY <1>4
    <3> QED
      BY <3>1, <1>1, <1>2 DEF CallsAndList
  <2>3. \A n \in Nodes : uses'[n] = -1 =>
          n \notin Members(order)' /\ \A i \in DOMAIN stack' : stack'[i][1] # n
    <3> SUFFICES ASSUME NEW n \in Nodes, uses'[n] = -1
                 PROVE  n \notin Members(order) /\ n # x /\ \A i \in 1 .. k : stack[i][1] # n
      BY <1>2, <1>5, <1>6
    <3>1. uses[n] = -1 /\ n # x
      BY <1>2, <1>4
    <3> QED
      BY <3>1, <1>1, <1>2 DEF CallsAndList
  <2>4. \A i \in DOMAIN stack' : \A a \in 1 .. stack'[i][2] - 1 :
          net'.ins[stack'[i][1]][a] \in Members(order)'
    BY <1>1, <1>2, <1>3, <1>5, <1>6 DEF CallsAndList
  <2>5. ASSUME NEW p \in DOMAIN order'
        PROVE  ReadLater(p)' \/ \E i \in DOMAIN stack' : order'[p] \in Members(net'.ins[stack'[i][1]])
    <3>1. CASE ReadLater(p)
      BY <3>1, <1>3, <1>6 DEF ReadLater
    <3>2. ASSUME NEW i \in DOMAIN stack, order[p] \in Inputs(stack[i][1])
          PROVE  i \in DOMAIN stack' /\ order'[p] \in Members(net'.ins[stack'[i][1]])
      BY <3>2, <1>2, <1>3, <1>5 DEF Inputs
    <3> QED
      BY <3>1, <3>2, <1>1, <1>3 DEF CallsAndList
  <2> QED
    BY <2>1, <2>2, <2>3, <2>4, <2>5 DEF CallsAndList, Inputs
<1> QED
  BY <1>7, <1>9, <1>10

(* visit() of an input has returned: the input is in the list.             *)
LEMMA UseStep ==
    ASSUME IInv, UseInput
    PROVE  Acyclic(net.ins)' /\ (ListOrdered /\ CallsNested /\ CallsAndList)'
<1> DEFINE k == Len(stack)
<1>1. TypeOK /\ ListOrdered /\ CallsNested /\ CallsAndList /\ stack # << >> /\ Acyclic(net.ins)
  BY DEF IInv, UseInput, CallsNested
<1>2. /\ k \in Nat \ {0} /\ DOMAIN stack = 1 .. k /\ Node = stack[k][1]
      /\ NextInput \in Nodes /\ Top = stack[k]
  BY <1>1, TopCall DEF UseInput
<1>3. /\ net'.ins = net.ins /\ order' = order /\ root' = root
      /\ stack' = [stack EXCEPT ![k] = <<Node, Top[2] + 1>>]
      /\ \A m \in Nodes : uses'[m] # -1 <=> uses[m] # -1
  BY <1>1, UseEffect DEF UseInput
<1>4. /\ Len(stack') = k /\ DOMAIN stack' = 1 .. k
      /\ \A i \in 1 .. k : stack'[i][1] = stack[i][1]
      /\ \A i \in 1 .. k - 1 : stack'[i][2] = stack[i][2]
      /\ stack'[k][2] = stack[k][2] + 1
  <2>1. Len(stack') = k /\ DOMAIN stack' = 1 .. k
    BY <1>1, <1>2, <1>3, UseEffect
  <2>2. \A i \in 1 .. k - 1 : stack'[i] = stack[i]
    BY <1>2, <1>3
  <2>3. stack'[k] = <<stack[k][1], stack[k][2] + 1>>
    BY <1>2, <1>3
  <2>4. k \in Nat
    BY <1>2
  <2>5. \A i \in 1 .. k : i = k \/ i \in 1 .. k - 1
    BY <2>4
  <2>6. \A i \in 1 .. k : stack'[i][1] = stack[i][1]
    BY <2>2, <2>3, <2>5
  <2>7. \A i \in 1 .. k - 1 : stack'[i][2] = stack[i][2]
    BY <2>2
  <2>8. stack'[k][2] = stack[k][2] + 1
    BY <2>3
  <2> QED
    BY <2>1, <2>6, <2>7, <2>8
<1>5. Members(order)' = Members(order) /\ Acyclic(net.ins)' /\ ListOrdered'
  <2>1. Members(order)' = Members(order)
    BY <1>3 DEF Members
  <2>2. Acyclic(net.ins)'
    BY <1>1, <1>3 DEF Acyclic
  <2>3. ListOrdered'
    BY <1>1, <1>3 DEF ListOrdered, Inputs
  <2> QED
    BY <2>1, <2>2, <2>3
<1>6. stack[k][2] \in 1 .. Len(net.ins[Node]) /\ Len(net.ins[Node]) \in Nat
  BY <1>1, <1>2, TopCall DEF UseInput, More, CallsNested
<1>7. net.ins[Node][stack[k][2]] \in Members(order)
  <2>1. uses[NextInput] # -1
    BY DEF UseInput
  <2>2. \A j \in DOMAIN stack : stack[j][1] # NextInput
    BY <1>1, InputNotOpen DEF UseInput
  <2>3. NextInput \in Members(order)
    BY <1>1, <1>2, <2>1, <2>2 DEF CallsAndList
  <2> QED
    BY <2>3, <1>2 DEF NextInput
<1>8. CallsNested'
  <2>1. stack' # << >> /\ stack'[1][1] = root'
    BY <1>1, <1>2, <1>3, <1>4 DEF CallsNested
  <2>2. \A i \in 1 .. k : stack'[i][2] \in 1 .. Len(net'.ins[stack'[i][1]]) + 1
    <3> SUFFICES ASSUME NEW i \in 1 .. k
                 PROVE  stack'[i][2] \in 1 .. Len(net.ins[stack[i][1]]) + 1
      BY <1>3, <1>4
    <3>1. CASE i = k
      BY <3>1, <1>2, <1>4, <1>6
    <3>2. CASE i # k
      <4>0. k \in Nat
        BY <1>2
      <4>1. i \in 1 .. k - 1
        BY <3>2, <4>0
      <4> QED
        BY <4>1, <1>1, <1>2, <1>4 DEF CallsNested
    <3> QED
      BY <3>1, <3>2
  <2>3. \A i \in 1 .. k - 1 :
           /\ stack'[i][2] <= Len(net'.ins[stack'[i][1]])
           /\ stack'[i + 1][1] = net'.ins[stack'[i][1]][stack'[i][2]]
    <3> SUFFICES ASSUME NEW i \in 1 .. k - 1
                 PROVE  /\ stack[i][2] <= Len(net.ins[stack[i][1]])
                        /\ stack[i + 1][1] = net.ins[stack[i][1]][stack[i][2]]
      <4>0. k \in Nat
        BY <1>2
      <4>1. \A i \in 1 .. k - 1 : i \in 1 .. k /\ i + 1 \in 1 .. k
        BY <4>0
      <4> QED
        BY <1>3, <1>4, <4>1
    <3> QED
      BY <1>1 DEF CallsNested
  <2>4. \A i, j \in 1 .. k : stack'[i][1] = stack'[j][1] => i = j
    BY <1>1, <1>2, <1>4 DEF CallsNested
  <2> QED
    BY <2>1, <2>2, <2>3, <2>4, <1>4 DEF CallsNested
<1>9. CallsAndList'
  <2>1. \A i \in DOMAIN stack' : stack'[i][1] \notin Members(order)'
    BY <1>1, <1>2, <1>4, <1>5 DEF CallsAndList
  <2>2. \A n \in Nodes : uses'[n] # -1 =>
          n \in Members(order)' \/ \E i \in DOMAIN stack' : stack'[i][1] = n
    BY <1>1, <1>2, <1>3, <1>4, <1>5 DEF CallsAndList
  <2>3. \A n \in Nodes : uses'[n] = -1 =>
          n \notin Members(order)' /\ \A i \in DOMAIN stack' : stack'[i][1] # n
    BY <1>1, <1>2, <1>3, <1>4, <1>5 DEF CallsAndList
  <2>4. \A i \in 1 .. k : \A a \in 1 .. stack'[i][2] - 1 :
          net'.ins[stack'[i][1]][a] \in Members(order)'
    <3> SUFFICES ASSUME NEW i \in 1 .. k, NEW a \in 1 .. stack'[i][2] - 1
                 PROVE  net.ins[stack[i][1]][a] \in Members(order)
      BY <1>3, <1>4, <1>5
    <3>0. k \in Nat
      BY <1>2
    <3>1. CASE i = k
      <4>1. a \in 1 .. stack[k][2] - 1 \/ a = stack[k][2]
        BY <3>1, <1>4, <1>6
      <4> QED
        BY <4>1, <3>1, <1>1, <1>2, <1>7 DEF CallsAndList
    <3>2. CASE i # k
      <4>1. i \in 1 .. k - 1
        BY <3>2, <3>0
      <4> QED
        BY <4>1, <1>1, <1>2, <1>4 DEF CallsAndList
    <3> QED
      BY <3>1, <3>2
  <2>5. \A p \in DOMAIN order' :
          ReadLater(p)' \/ \E i \in DOMAIN stack' : order'[p] \in Members(net'.ins[stack'[i][1]])
    BY <1>1, <1>2, <1>3, <1>4 DEF CallsAndList, ReadLater, Inputs
  <2> QED
    BY <2>1, <2>2, <2>3, <2>4, <2>5, <1>4 DEF CallsAndList, Inputs
<1> QED
  BY <1>5, <1>8, <1>9

-----------------------------------------------------------------------------
(* visit() returns: all inputs are in the list, and now so is the node.    *)
LEMMA FinishList ==
    ASSUME TypeOK, ListOrdered, CallsNested, CallsAndList, Finish
    PROVE  /\ ListOrdered'
           /\ Members(order') = Members(order) \union {Node}
           /\ Len(order') = Len(order) + 1 /\ order'[Len(order')] = Node
           /\ \A p \in DOMAIN order' : p \in DOMAIN order \/ p = Len(order')
           /\ \A p \in DOMAIN order : p \in DOMAIN order' /\ order'[p] = order[p]
           /\ \A p \in DOMAIN order : p < Len(order')
<1> DEFINE k == Len(stack)
<1>1. /\ k \in Nat \ {0} /\ DOMAIN stack = 1 .. k /\ Node = stack[k][1] /\ Node \in Nodes
      /\ Top = stack[k]
  BY TopCall DEF CallsNested
<1>2. order' = Append(order, Node) /\ net' = net /\ order \in Seq(Nodes)
  BY DEF Finish, TypeOK
<1>3. /\ Len(order') = Len(order) + 1 /\ order'[Len(order')] = Node
      /\ DOMAIN order' = 1 .. Len(order) + 1 /\ DOMAIN order = 1 .. Len(order)
      /\ Len(order) \in Nat
      /\ \A p \in 1 .. Len(order) : order'[p] = order[p]
  BY <1>1, <1>2
<1>4. /\ \A p \in DOMAIN order' : p \in DOMAIN order \/ p = Len(order')
      /\ \A p \in DOMAIN order : p \in DOMAIN order' /\ order'[p] = order[p]
      /\ \A p \in DOMAIN order : p < Len(order')
      /\ Len(order') \in DOMAIN order'
  BY <1>3
<1>5. Members(order') = Members(order) \union {Node}
  BY <1>3, <1>4 DEF Members
<1>6. Node \notin Members(order)
  BY <1>1 DEF CallsAndList
<1>7. \A p, q \in DOMAIN order' : order'[p] = order'[q] => p = q
  <2>1. \A p \in DOMAIN order : order[p] # Node
    BY <1>6 DEF Members
  <2> QED
    BY <2>1, <1>3, <1>4 DEF ListOrdered
<1>8. Inputs(Node) \subseteq Members(order)
  <2>1. net.ins[Node] \in Lists
    BY <1>1 DEF TypeOK
  <2>2. DOMAIN net.ins[Node] = 1 .. Len(net.ins[Node]) /\ Len(net.ins[Node]) \in Nat
    BY <2>1, ListIsSequence
  <2>3. stack[k][2] \in Nat /\ stack[k][2] > Len(net.ins[Node])
    BY <1>1, <2>2 DEF Finish, More, TypeOK
  <2>4. \A a \in 1 .. Len(net.ins[Node]) : a \in 1 .. stack[k][2] - 1
    BY <2>2, <2>3
  <2>5. \A a \in 1 .. Len(net.ins[Node]) : net.ins[Node][a] \in Members(order)
    BY <2>4, <1>1 DEF CallsAndList
  <2> QED
    BY <2>2, <2>5 DEF Inputs, Members
<1>9. ASSUME NEW p \in DOMAIN order', NEW i \in Members(net'.ins[order'[p]])
      PROVE  \E q \in DOMAIN order' : q < p /\ order'[q] = i
  <2>1. CASE p \in DOMAIN order
    <3>1. i \in Inputs(order[p])
      BY <2>1, <1>2, <1>4 DEF Inputs
    <3>2. PICK q \in DOMAIN order : q < p /\ order[q] = i
      BY <2>1, <3>1 DEF ListOrdered
    <3> QED
      BY <3>2, <1>4
  <2>2. CASE p = Len(order')
    <3>1. i \in Members(order)
      BY <2>2, <1>2, <1>3, <1>8 DEF Inputs
    <3>2. PICK q \in DOMAIN order : order[q] = i
      BY <3>1 DEF Members
    <3> QED
      BY <3>2, <2>2, <1>4
  <2> QED
    BY <2>1, <2>2, <1>4
<1>10. ListOrdered'
  BY <1>7, <1>9 DEF ListOrdered, Inputs
<1> QED
  BY <1>3, <1>4, <1>5, <1>10

LEMMA FinishRead ==
    ASSUME TypeOK, ListOrdered, CallsNested, CallsAndList, Finish, NEW p \in DOMAIN order'
    PROVE  \/ p = Len(order') /\ Len(stack) = 1
           \/ ReadLater(p)'
           \/ \E j \in 1 .. Len(stack) - 1 : order'[p] \in Members(net'.ins[stack[j][1]])
<1> DEFINE k == Len(stack)
<1>1. k \in Nat \ {0} /\ DOMAIN stack = 1 .. k /\ Node = stack[k][1]
  BY TopCall DEF CallsNested
<1>2. net' = net
  BY DEF Finish
<1>3. CASE p \in DOMAIN order
  <2>1. order'[p] = order[p] /\ p < Len(order') /\ Len(order') \in DOMAIN order'
        /\ order'[Len(order')] = Node
    BY <1>3, FinishList DEF Finish, TypeOK
  <2>2. CASE ReadLater(p)
    <3>1. PICK q \in DOMAIN order : p < q /\ order[p] \in Inputs(order[q])
      BY <2>2 DEF ReadLater
    <3>2. q \in DOMAIN order' /\ order'[q] = order[q]
      BY FinishList
    <3> QED
      BY <3>1, <3>2, <2>1, <1>2 DEF ReadLater, Inputs
  <2>3. ASSUME NEW j \in DOMAIN stack, order[p] \in Inputs(stack[j][1])
        PROVE  ReadLater(p)'
               \/ \E i \in 1 .. k - 1 : order'[p] \in Members(net'.ins[stack[i][1]])
    <3>1. CASE j = k
      BY <3>1, <2>3, <2>1, <1>1, <1>2 DEF ReadLater, Inputs
    <3>2. CASE j # k
      <4>1. k \in Nat /\ j \in 1 .. k
        BY <1>1
      <4>2. j \in 1 .. k - 1
        BY <4>1, <3>2
      <4> QED
        BY <4>2, <2>3, <2>1, <1>2 DEF Inputs
    <3> QED
      BY <3>1, <3>2
  <2> QED
    BY <2>2, <2>3, <1>3 DEF CallsAndList
<1>4. CASE p = Len(order') /\ k # 1
  <2>1. order'[p] = Node
    BY <1>4, FinishList
  <2>2. k - 1 \in 1 .. k - 1 /\ k - 1 + 1 = k
    BY <1>1, <1>4
  <2>3. stack[k - 1][2] \in 1 .. Len(net.ins[stack[k - 1][1]])
        /\ Node = net.ins[stack[k - 1][1]][stack[k - 1][2]]
    BY <2>2, <1>1 DEF CallsNested
  <2>4. net.ins[stack[k - 1][1]] \in Lists
    BY <2>2, <1>1 DEF TypeOK
  <2>5. Node \in Members(net.ins[stack[k - 1][1]])
    BY <2>3, <2>4, ListIsSequence DEF Members
  <2> QED
    BY <2>1, <2>2, <2>5, <1>2
<1>5. p \in DOMAIN order \/ p = Len(order')
  BY FinishList
<1> QED
  BY <1>3, <1>4, <1>5

LEMMA FinishStep ==
    ASSUME IInv, Finish
    PROVE  /\ ListOrdered'
           /\ phase' = "visit" => (CallsNested /\ CallsAndList)'
           /\ phase' \in {"analyze", "built"} => Complete'
<1> DEFINE k == Len(stack)
<1>1. TypeOK /\ ListOrdered /\ CallsNested /\ CallsAndList
  BY DEF IInv, Finish
<1>2. /\ k \in Nat \ {0} /\ DOMAIN stack = 1 .. k /\ Node = stack[k][1]
      /\ stack \in Seq(Nodes \X (Nat \ {0}))
  BY <1>1, TopCall DEF CallsNested, TypeOK
<1>3. /\ net' = net /\ root' = root /\ uses' = uses /\ stack' = Pop
      /\ phase' = IF Pop = << >> THEN "analyze" ELSE "visit"
  BY DEF Finish
<1>4. /\ ListOrdered' /\ Members(order') = Members(order) \union {Node}
      /\ order'[Len(order')] = Node /\ Len(order') = Len(order) + 1
  BY <1>1, FinishList
<1>5. /\ Len(stack') = k - 1 /\ DOMAIN stack' = 1 .. k - 1
      /\ \A i \in 1 .. k - 1 : stack'[i] = stack[i]
  BY <1>2, <1>3 DEF Pop
<1>6. ASSUME phase' = "visit" PROVE CallsNested' /\ CallsAndList'
  <2>1. k # 1 /\ stack' # << >>
    BY <1>6, <1>3, <1>5
  <2>2. k \in Nat /\ \A i \in 1 .. k - 1 : i \in 1 .. k
    BY <1>2
  <2>3. CallsNested'
    <3>1. stack'[1][1] = root'
      <4>1. 1 \in 1 .. k - 1
        BY <2>1, <1>2
      <4> QED
        BY <4>1, <1>1, <1>3, <1>5 DEF CallsNested
    <3>2. \A i \in 1 .. k - 1 : stack'[i][2] \in 1 .. Len(net'.ins[stack'[i][1]]) + 1
      BY <1>1, <1>2, <1>3, <1>5, <2>2 DEF CallsNested
    <3>3. \A i \in 1 .. k - 2 :
             /\ stack'[i][2] <= Len(net'.ins[stack'[i][1]])
             /\ stack'[i + 1][1] = net'.ins[stack'[i][1]][stack'[i][2]]
      <4>1. \A i \in 1 .. k - 2 : i \in 1 .. k - 1 /\ i + 1 \in 1 .. k - 1
        BY <2>2
      <4> QED
        BY <4>1, <1>1, <1>3, <1>5 DEF CallsNested
    <3>4. \A i, j \in 1 .. k - 1 : stack'[i][1] = stack'[j][1] => i = j
      BY <1>1, <1>2, <1>5, <2>2 DEF CallsNested
    <3>5. Len(stack') - 1 = k - 2
      BY <1>5, <2>2
    <3> QED
      BY <3>1, <3>2, <3>3, <3>4, <3>5, <2>1, <1>5 DEF CallsNested
  <2>4. CallsAndList'
    <3>1. \A i \in 1 .. k - 1 : stack'[i][1] \notin Members(order)'
      <4> SUFFICES ASSUME NEW i \in 1 .. k - 1
                   PROVE  stack[i][1] \notin Members(order) /\ stack[i][1] # Node
        BY <1>4, <1>5
      <4>1. i # k /\ i \in 1 .. k
        BY <2>2
      <4>2. stack[i][1] \notin Members(order)
        BY <4>1, <1>1, <1>2 DEF CallsAndList
      <4>3. k \in DOMAIN stack /\ i \in DOMAIN stack
        BY <4>1, <1>2
      <4>4. stack[i][1] # stack[k][1]
        BY <4>1, <4>3, <1>1 DEF CallsNested
      <4> QED
        BY <4>2, <4>4, <1>2
    <3>2. \A n \in Nodes : uses'[n] # -1 =>
            n \in Members(order)' \/ \E i \in 1 .. k - 1 : stack'[i][1] = n
      <4> SUFFICES ASSUME NEW n \in Nodes, uses[n] # -1, n \notin Members(order), n # Node
                   PROVE  \E i \in 1 .. k - 1 : stack'[i][1] = n
        BY <1>3, <1>4
      <4>1. PICK i \in 1 .. k : stack[i][1] = n
        BY <1>1, <1>2 DEF CallsAndList
      <4>2. i \in 1 .. k - 1
        BY <4>1, <1>2, <2>2
      <4> QED
        BY <4>1, <4>2, <1>5
    <3>3. \A n \in Nodes : uses'[n] = -1 =>
            n \notin Members(order)' /\ \A i \in 1 .. k - 1 : stack'[i][1] # n
      BY <1>1, <1>2, <1>3, <1>4, <1>5, <2>2 DEF CallsAndList
    <3>4. \A i \in 1 .. k - 1 : \A a \in 1 .. stack'[i][2] - 1 :
            net'.ins[stack'[i][1]][a] \in Members(order)'
      BY <1>1, <1>2, <1>3, <1>4, <1>5, <2>2 DEF CallsAndList
    <3>5. \A p \in DOMAIN order' :
            ReadLater(p)' \/ \E i \in 1 .. k - 1 : order'[p] \in Members(net'.ins[stack'[i][1]])
      BY <1>1, <1>5, <2>1, FinishRead
    <3> QED
      BY <3>1, <3>2, <3>3, <3>4, <3>5, <1>5 DEF CallsAndList, Inputs
  <2> QED
    BY <2>3, <2>4
<1>7. ASSUME phase' # "visit" PROVE Complete'
  <2>1. k = 1
    BY <1>7, <1>2, <1>3, <1>5
  <2>2. Node = root'
    BY <2>1, <1>1, <1>2, <1>3 DEF CallsNested
  <2>3. order' # << >>
    <3>1. Node \in Nodes /\ order' = Append(order, Node) /\ order \in Seq(Nodes)
      BY <1>1, TopCall DEF Finish, TypeOK, CallsNested
    <3> QED
      BY <3>1
  <2>4. \A p \in DOMAIN order' : p = Len(order') \/ ReadLater(p)'
    BY <1>1, <2>1, FinishRead
  <2> QED
    BY <2>2, <2>3, <2>4, <1>4 DEF Complete
<1> QED
  BY <1>4, <1>6, <1>7

-----------------------------------------------------------------------------
LEMMA Induction == IInv /\ [Next]_vars => IInv'
<1> SUFFICES ASSUME IInv, [Next]_vars PROVE IInv'
  OBVIOUS
<1>1. TypeOK'
  <2>1. TypeOK /\ InCall
    BY DEF IInv, InCall, CallsNested
  <2> QED
    BY <2>1, StepTypes
<1>2. ASSUME NEW n \in Nodes, BuildGraph(n) PROVE IInv'
  BY <1>1, <1>2, BuildStep DEF IInv, BuildGraph
<1>3. ASSUME NEW n \in Nodes, AddNode(n) PROVE IInv'
  BY <1>1, <1>3 DEF IInv, AddNode, Acyclic
<1>4. ASSUME NEW n \in Nodes, NEW list \in Lists, Edit(n, list) PROVE IInv'
  BY <1>1, <1>4 DEF IInv, Edit
<1>5. ASSUME NEW m \in Nodes, NEW n \in Nodes, AddOutputNode(m, n) \/ RemoveOutputNode(m, n)
       PROVE  IInv'
  <2>1. net'.ins = net.ins /\ phase' = "idle"
    BY <1>5, OutputEffect DEF IInv
  <2> QED
    BY <1>1, <2>1 DEF IInv, Acyclic
<1>6. ASSUME Descend PROVE IInv'
  BY <1>1, <1>6, DescendStep DEF IInv, Descend, Acyclic
<1>7. ASSUME UseInput PROVE IInv'
  BY <1>1, <1>7, UseStep DEF IInv, UseInput
<1>8. ASSUME Finish PROVE IInv'
  <2>0. ListOrdered' /\ (phase' = "visit" => (CallsNested /\ CallsAndList)')
        /\ (phase' \in {"analyze", "built"} => Complete')
    BY <1>8, FinishStep
  <2>1. phase' \in {"visit", "analyze"} /\ Acyclic(net.ins)'
    BY <1>8 DEF IInv, Finish, Acyclic
  <2> QED
    BY <1>1, <2>0, <2>1 DEF IInv
<1>9. ASSUME AnalyzeLifetimes PROVE IInv'
  <2>1. ListOrdered' /\ Complete'
    BY <1>9 DEF IInv, AnalyzeLifetimes, ListOrdered, Complete, ReadLater, Inputs
  <2>2. phase' = "built" /\ Acyclic(net.ins)'
    BY <1>9 DEF IInv, AnalyzeLifetimes, Acyclic
  <2> QED
    BY <1>1, <2>1, <2>2 DEF IInv
<1>10. CASE UNCHANGED vars
  <2>1. net' = net /\ order' = order /\ stack' = stack /\ uses' = uses
        /\ root' = root /\ phase' = phase
    BY <1>10 DEF vars
  <2>2. (ListOrdered => ListOrdered') /\ (Complete => Complete')
    BY <2>1 DEF ListOrdered, Complete, ReadLater, Inputs, Members
  <2>3. CallsNested => CallsNested'
    BY <2>1 DEF CallsNested
  <2>4. CallsAndList => CallsAndList'
    BY <2>1 DEF CallsAndList, ReadLater, Inputs, Members
  <2>5. Acyclic(net.ins)'
    BY <2>1 DEF IInv, Acyclic
  <2> QED
    BY <1>1, <2>1, <2>2, <2>3, <2>4, <2>5 DEF IInv
<1> QED
  BY <1>2, <1>3, <1>4, <1>5, <1>6, <1>7, <1>8, <1>9, <1>10 DEF Next, Visit

LEMMA Invariant == Spec => []IInv
<1>1. Init => IInv
  BY InitTypes DEF Init, IInv
<1> QED
  BY <1>1, Induction, PTL DEF Spec

(* A graph that has been built lists the output last, no node twice, and   *)
(* every node behind its inputs.                                           *)
THEOREM InputsComeFirst == Spec => []InputsFirst
<1>1. IInv => InputsFirst
  BY DEF IInv, InputsFirst, ListOrdered, Complete
<1> QED
  BY <1>1, Invariant, PTL

(* It lists no node that nobody reads, the output apart.                   *)
THEOREM NothingElse == Spec => []OnlyReached
<1>1. IInv => OnlyReached
  BY DEF IInv, OnlyReached, Complete, ReadLater
<1> QED
  BY <1>1, Invariant, PTL

-----------------------------------------------------------------------------
(* The output lists while they grow: n is in what this build has put into  *)
(* the list of m, once, when a call for n has gone past the input m or has *)
(* returned; the use count is the number of these entries.  What is in     *)
(* front of them the callers have put there since clear() last reached the *)
(* node: a node it does not reach has not been counted either.             *)
Passed(n, m) ==
    \E i \in DOMAIN net.ins[n] :
        /\ net.ins[n][i] = m
        /\ n \in Members(order) \/ \E k \in DOMAIN stack : stack[k][1] = n /\ i < stack[k][2]

OutsSoFar ==
    \A m \in Nodes :
        /\ \A i, j \in Filled(m) : net.outs[m][i] = net.outs[m][j] => i = j
        /\ \A n \in Nodes : (\E i \in Filled(m) : net.outs[m][i] = n) <=> Passed(n, m)
        /\ Counted(m) <= Len(net.outs[m])

OInv ==
    /\ phase # "visit" => /\ stack = << >>
                         /\ \A m \in Nodes : uses[m] # -1 => m \in Members(order)
    /\ \A m \in Nodes : Len(net.outs[m]) <= Counted(m) + MaxOutputs
    /\ phase # "idle" => OutsSoFar
    /\ phase \in {"analyze", "built"} =>
          \A m \in Nodes : uses[m] = -1 => m \notin Members(order)

LEMMA NoMembers == Members(<< >>) = {}
  BY DEF Members

(* A node that is not counted or not used yet has nothing of this build.   *)
LEMMA NothingFilled ==
    ASSUME TypeOK, NEW m \in Nodes, uses[m] \in {-1, 0}
    PROVE  Filled(m) = {} /\ Counted(m) = 0
<1>1. net.outs[m] \in Seq(Nodes)
  BY DEF TypeOK
<1>2. DOMAIN net.outs[m] = 1 .. Len(net.outs[m]) /\ Len(net.outs[m]) \in Nat
  BY <1>1
<1> QED
  BY <1>2 DEF Filled, Counted

(* The next build begins with what clear() has not reached.                *)
LEMMA BuildOuts ==
    ASSUME TypeOK, TypeOK', OInv, NEW n \in Nodes, BuildGraph(n)
    PROVE  OInv'
<1> DEFINE o == [m \in DOMAIN net.outs |-> IF m \in Members(order) THEN << >> ELSE net.outs[m]]
<1>1. net.outs \in [Nodes -> Seq(Nodes)] /\ net.ins \in [Nodes -> Lists]
  BY DEF TypeOK
<1>2. o \in [Nodes -> Seq(Nodes)]
  BY <1>1
<1>3. net' = [net EXCEPT !.outs = o]
  BY DEF BuildGraph
<1>4. \A m \in Nodes : Len(o[m]) <= MaxOutputs
  <2> SUFFICES ASSUME NEW m \in Nodes PROVE Len(o[m]) <= MaxOutputs
    OBVIOUS
  <2>1. CASE m \in Members(order)
    BY <2>1, <1>1, MaxOutputsAssumption
  <2>2. CASE m \notin Members(order)
    <3>1. uses[m] = -1
      BY <2>2 DEF OInv, BuildGraph
    <3>2. Counted(m) = 0
      BY <3>1 DEF Counted
    <3>3. Len(net.outs[m]) <= 0 + MaxOutputs /\ Len(net.outs[m]) \in Nat
      BY <3>2, <1>1 DEF OInv
    <3> QED
      BY <2>2, <3>3, <1>1, MaxOutputsAssumption
  <2> QED
    BY <2>1, <2>2
<1> HIDE DEF o
<1>5. net'.outs = o
  BY <1>2, <1>3, OutsRecord DEF TypeOK
<1>6. net'.ins = net.ins
  BY BuildEffect
<1>7. /\ order' = << >> /\ stack' = << <<n, 1>> >> /\ phase' = "visit"
      /\ uses' = [m \in Nodes |-> IF m = n THEN 0 ELSE -1]
  BY <1>1 DEF BuildGraph
<1>8. ASSUME NEW x \in Nodes, NEW m \in Nodes PROVE ~ Passed(x, m)'
  <2>1. Members(order') = {}
    BY <1>7, NoMembers
  <2>2. net.ins[x] \in Lists
    BY <1>1
  <2>3. \A i \in DOMAIN net'.ins[x] : i >= 1 /\ i \in Nat
    BY <1>6, <2>2, ListIsSequence
  <2>4. \A k \in DOMAIN stack' : stack'[k][2] = 1
    BY <1>7
  <2> QED
    BY <2>1, <2>3, <2>4 DEF Passed
<1>9. ASSUME NEW m \in Nodes PROVE Filled(m)' = {} /\ Counted(m)' = 0
  <2>1. uses'[m] \in {-1, 0}
    BY <1>7
  <2>2. net'.outs[m] \in Seq(Nodes)
    BY <1>2, <1>5
  <2>3. DOMAIN net'.outs[m] = 1 .. Len(net'.outs[m]) /\ Len(net'.outs[m]) \in Nat
    BY <2>2
  <2> QED
    BY <2>1, <2>3 DEF Filled, Counted
<1>10. \A m \in Nodes : Len(net'.outs[m]) \in Nat
  BY <1>2, <1>5
<1>11. OutsSoFar'
  BY <1>8, <1>9, <1>10 DEF OutsSoFar
<1>12. \A m \in Nodes : Len(net'.outs[m]) <= Counted(m)' + MaxOutputs
  BY <1>4, <1>5, <1>9, MaxOutputsAssumption
<1> QED
  BY <1>7, <1>11, <1>12 DEF OInv

(* An input that is used for the first time by this call.                  *)
LEMMA UseOuts ==
    ASSUME IInv, OInv, UseInput
    PROVE  OInv'
<1> DEFINE k == Len(stack)
           o == [net.outs EXCEPT ![NextInput] = Append(@, Node)]
<1>1. TypeOK /\ CallsNested /\ CallsAndList /\ OutsSoFar /\ phase = "visit" /\ stack # << >>
  BY DEF IInv, OInv, UseInput, CallsNested
<1>2. /\ k \in Nat \ {0} /\ DOMAIN stack = 1 .. k
      /\ Node = stack[k][1] /\ Node \in Nodes /\ NextInput \in Nodes /\ Top = stack[k]
      /\ Top[2] \in Nat \ {0}
  BY <1>1, TopCall DEF UseInput
<1>3. net.outs \in [Nodes -> Seq(Nodes)] /\ net.ins \in [Nodes -> Lists]
  BY <1>1 DEF TypeOK
<1>4. o \in [Nodes -> Seq(Nodes)]
  BY <1>2, <1>3
<1>5. net'.outs = o
  <2>1. net' = [net EXCEPT !.outs = o]
    BY DEF UseInput
  <2> HIDE DEF o
  <2> QED
    BY <1>1, <1>4, <2>1, OutsRecord DEF TypeOK
<1>6. /\ net'.ins = net.ins /\ order' = order /\ phase' = "visit"
      /\ stack' = [stack EXCEPT ![k] = <<Node, Top[2] + 1>>]
      /\ uses' = [uses EXCEPT ![NextInput] = @ + 1]
  BY <1>1, UseEffect DEF UseInput
<1>7. /\ DOMAIN stack' = 1 .. k /\ \A j \in 1 .. k : j # k => stack'[j] = stack[j]
      /\ stack'[k][1] = Node /\ stack'[k][2] = Top[2] + 1
  BY <1>1, <1>2, <1>6 DEF TypeOK
<1>8. net.ins[Node] \in Lists /\ Len(net.ins[Node]) \in Nat
      /\ DOMAIN net.ins[Node] = 1 .. Len(net.ins[Node])
  BY <1>2, <1>3, ListIsSequence
<1>9. \A i, j \in DOMAIN net.ins[Node] : net.ins[Node][i] = net.ins[Node][j] => i = j
  BY <1>8 DEF Lists
<1>10. Top[2] \in DOMAIN net.ins[Node] /\ NextInput = net.ins[Node][Top[2]]
  <2>1. Top[2] <= Len(net.ins[Node]) /\ Top[2] >= 1 /\ Top[2] \in Nat
    BY <1>2 DEF UseInput, More
  <2> QED
    BY <2>1, <1>8 DEF NextInput
<1>11. Node \notin Members(order) /\ \A j \in 1 .. k : stack[j][1] = Node => j = k
  <2>1. k \in DOMAIN stack
    BY <1>2
  <2> QED
    BY <2>1, <1>1, <1>2 DEF CallsAndList, CallsNested
<1>12. ~ Passed(Node, NextInput)
  <2>1. SUFFICES ASSUME NEW i \in DOMAIN net.ins[Node], net.ins[Node][i] = NextInput,
                        NEW j \in DOMAIN stack, stack[j][1] = Node, i < stack[j][2]
                 PROVE  FALSE
    BY <1>11 DEF Passed
  <2>2. j = k /\ i = Top[2]
    BY <2>1, <1>2, <1>9, <1>10, <1>11
  <2> QED
    BY <2>1, <2>2, <1>2
<1>13. ASSUME NEW x \in Nodes, NEW m \in Nodes
       PROVE  Passed(x, m)' <=> Passed(x, m) \/ (x = Node /\ m = NextInput)
  <2>1. CASE x # Node
    <3>1. \A j \in DOMAIN stack : j # k \/ stack[j][1] # x
      BY <2>1, <1>2
    <3>2. \A j \in DOMAIN stack' : stack'[j][1] = x => j # k
      BY <2>1, <1>7
    <3>3. \A i : (\E j \in DOMAIN stack' : stack'[j][1] = x /\ i < stack'[j][2])
                 <=> (\E j \in DOMAIN stack : stack[j][1] = x /\ i < stack[j][2])
      BY <3>1, <3>2, <1>2, <1>7
    <3> QED
      BY <2>1, <3>3, <1>6 DEF Passed
  <2>2. CASE x = Node
    <3>1. ASSUME NEW i \in DOMAIN net.ins[Node]
          PROVE  /\ (\E j \in DOMAIN stack' : stack'[j][1] = x /\ i < stack'[j][2])
                    <=> i < Top[2] + 1
                 /\ (\E j \in DOMAIN stack : stack[j][1] = x /\ i < stack[j][2])
                    <=> i < Top[2]
      <4>1. k \in 1 .. k
        BY <1>2
      <4> QED
        BY <4>1, <2>2, <1>2, <1>7, <1>11
    <3>2. \A i \in DOMAIN net.ins[Node] : i < Top[2] + 1 <=> i < Top[2] \/ i = Top[2]
      BY <1>2, <1>8
    <3>3. Passed(x, m)' <=> \E i \in DOMAIN net.ins[Node] :
                                net.ins[Node][i] = m /\ i < Top[2] + 1
      BY <3>1, <2>2, <1>6, <1>11 DEF Passed
    <3>4. Passed(x, m) <=> \E i \in DOMAIN net.ins[Node] :
                               net.ins[Node][i] = m /\ i < Top[2]
      BY <3>1, <2>2, <1>11 DEF Passed
    <3> QED
      BY <3>2, <3>3, <3>4, <1>10, <2>2
  <2> QED
    BY <2>1, <2>2
<1>14. ASSUME NEW m \in Nodes
       PROVE  /\ \A i, j \in Filled(m)' : o[m][i] = o[m][j] => i = j
              /\ \A x \in Nodes : (\E i \in Filled(m)' : o[m][i] = x) <=> Passed(x, m)'
              /\ Counted(m)' <= Len(o[m])
              /\ Len(o[m]) <= Counted(m)' + MaxOutputs
  <2>1. CASE m # NextInput
    <3>1. o[m] = net.outs[m] /\ uses'[m] = uses[m]
      BY <2>1, <1>1, <1>2, <1>3, <1>6 DEF TypeOK
    <3>2. Filled(m)' = Filled(m) /\ Counted(m)' = Counted(m)
      BY <3>1, <1>5 DEF Filled, Counted
    <3>3. Len(net.outs[m]) <= Counted(m) + MaxOutputs
      BY DEF OInv
    <3> QED
      BY <3>1, <3>2, <3>3, <2>1, <1>1, <1>13 DEF OutsSoFar
  <2>2. CASE m = NextInput
    <3> DEFINE s == net.outs[m]
    <3>1. o[m] = Append(s, Node) /\ s \in Seq(Nodes)
      BY <2>2, <1>2, <1>3
    <3>2. \A i \in Filled(m) : s[i] # Node
      BY <2>2, <1>1, <1>2, <1>12 DEF OutsSoFar
    <3>3. Len(s) \in Nat /\ DOMAIN s = 1 .. Len(s) /\ Len(o[m]) = Len(s) + 1
          /\ DOMAIN o[m] = 1 .. Len(s) + 1
          /\ o[m][Len(s) + 1] = Node /\ \A i \in 1 .. Len(s) : o[m][i] = s[i]
      BY <3>1, <1>2
    <3>4. uses'[m] = uses[m] + 1 /\ uses[m] \in Nat
      BY <2>2, <1>1, <1>2, <1>6 DEF UseInput, TypeOK
    <3>5. Filled(m)' = Filled(m) \union {Len(s) + 1}
      <4>1. Filled(m) = {i \in 1 .. Len(s) : i > Len(s) - uses[m]}
        BY <3>3 DEF Filled
      <4>2. Filled(m)' = {i \in 1 .. Len(s) + 1 : i > Len(s) + 1 - (uses[m] + 1)}
        BY <3>3, <3>4, <1>5 DEF Filled
      <4> QED
        BY <4>1, <4>2, <3>3, <3>4
    <3>6. \A i \in Filled(m) : i \in 1 .. Len(s) /\ i # Len(s) + 1 /\ o[m][i] = s[i]
      BY <3>3 DEF Filled
    <3>7. \A i, j \in Filled(m) : s[i] = s[j] => i = j
      BY <1>1 DEF OutsSoFar
    <3>8. \A i, j \in Filled(m)' : o[m][i] = o[m][j] => i = j
      BY <3>2, <3>3, <3>5, <3>6, <3>7
    <3>9. \A x \in Nodes : (\E i \in Filled(m)' : o[m][i] = x) <=>
                            (\E i \in Filled(m) : s[i] = x) \/ x = Node
      BY <3>3, <3>5, <3>6
    <3>10. \A x \in Nodes : (\E i \in Filled(m)' : o[m][i] = x) <=> Passed(x, m)'
      <4>1. \A x \in Nodes : (\E i \in Filled(m) : s[i] = x) <=> Passed(x, m)
        BY <1>1 DEF OutsSoFar
      <4> QED
        BY <4>1, <3>9, <2>2, <1>13
    <3>11. Counted(m) = uses[m] /\ Counted(m)' = uses[m] + 1
      BY <3>4 DEF Counted
    <3>12. Counted(m) <= Len(s) /\ Len(s) <= Counted(m) + MaxOutputs
      BY <1>1 DEF OutsSoFar, OInv
    <3>13. Counted(m)' <= Len(o[m]) /\ Len(o[m]) <= Counted(m)' + MaxOutputs
      BY <3>3, <3>4, <3>11, <3>12, MaxOutputsAssumption
    <3> QED
      BY <3>8, <3>10, <3>13
  <2> QED
    BY <2>1, <2>2
<1>15. OutsSoFar' /\ \A m \in Nodes : Len(net'.outs[m]) <= Counted(m)' + MaxOutputs
  BY <1>5, <1>14 DEF OutsSoFar
<1> QED
  BY <1>6, <1>15 DEF OInv

(* A call that is opened has passed no input, ...                          *)
LEMMA DescendOuts ==
    ASSUME IInv, OInv, Descend
    PROVE  OInv'
<1> DEFINE k == Len(stack)
<1>1. TypeOK /\ CallsNested /\ CallsAndList /\ OutsSoFar /\ phase = "visit" /\ stack # << >>
  BY DEF IInv, OInv, Descend, CallsNested
<1>2. k \in Nat \ {0} /\ DOMAIN stack = 1 .. k /\ NextInput \in Nodes
  BY <1>1, TopCall DEF Descend
<1>3. /\ net' = net /\ order' = order /\ phase' = "visit"
      /\ stack' = Append(stack, <<NextInput, 1>>)
      /\ uses' = [uses EXCEPT ![NextInput] = 0] /\ uses[NextInput] = -1
  BY <1>1 DEF Descend
<1>4. /\ DOMAIN stack' = 1 .. k + 1 /\ stack'[k + 1] = <<NextInput, 1>>
      /\ \A j \in 1 .. k : stack'[j] = stack[j]
  BY <1>1, <1>2, <1>3 DEF TypeOK
<1>5. ASSUME NEW x \in Nodes, NEW m \in Nodes PROVE Passed(x, m)' <=> Passed(x, m)
  <2>1. net.ins[x] \in Lists
    BY <1>1 DEF TypeOK
  <2>2. \A i \in DOMAIN net.ins[x] : i \in Nat /\ i >= 1
    BY <2>1, ListIsSequence
  <2>3. \A j \in 1 .. k + 1 : j \in 1 .. k \/ j = k + 1
    BY <1>2
  <2>4. \A j \in 1 .. k : j \in 1 .. k + 1
    BY <1>2
  <2>5. \A i \in DOMAIN net.ins[x] :
           (\E j \in 1 .. k + 1 : stack'[j][1] = x /\ i < stack'[j][2])
           <=> (\E j \in 1 .. k : stack[j][1] = x /\ i < stack[j][2])
    <3>1. \A i \in DOMAIN net.ins[x] : ~ (i < stack'[k + 1][2])
      BY <1>4, <2>2
    <3> QED
      BY <3>1, <2>3, <2>4, <1>4
  <2> QED
    BY <2>5, <1>2, <1>3, <1>4 DEF Passed
<1>6. ASSUME NEW m \in Nodes PROVE Filled(m)' = Filled(m) /\ Counted(m)' = Counted(m)
  <2>1. CASE m # NextInput
    <3>1. uses'[m] = uses[m]
      BY <2>1, <1>1, <1>2, <1>3 DEF TypeOK
    <3> QED
      BY <3>1, <1>3 DEF Filled, Counted
  <2>2. CASE m = NextInput
    <3>1. uses[m] = -1 /\ uses'[m] = 0
      BY <2>2, <1>1, <1>2, <1>3 DEF TypeOK
    <3>2. net.outs[m] \in Seq(Nodes)
      BY <1>1 DEF TypeOK
    <3>3. DOMAIN net.outs[m] = 1 .. Len(net.outs[m]) /\ Len(net.outs[m]) \in Nat
      BY <3>2
    <3>4. Filled(m) = {} /\ Filled(m)' = {}
      BY <3>1, <3>3, <1>3 DEF Filled
    <3> QED
      BY <3>1, <3>4 DEF Counted
  <2> QED
    BY <2>1, <2>2
<1>7. OutsSoFar'
  BY <1>1, <1>3, <1>5, <1>6 DEF OutsSoFar
<1>8. \A m \in Nodes : Len(net'.outs[m]) <= Counted(m)' + MaxOutputs
  BY <1>3, <1>6 DEF OInv
<1> QED
  BY <1>3, <1>7, <1>8 DEF OInv

(* ... and one that returns has passed them all.                           *)
LEMMA FinishOuts ==
    ASSUME IInv, OInv, Finish
    PROVE  OInv'
<1> DEFINE k == Len(stack)
<1>1. TypeOK /\ ListOrdered /\ CallsNested /\ CallsAndList /\ OutsSoFar /\ stack # << >>
  BY DEF IInv, OInv, Finish, CallsNested
<1>2. /\ k \in Nat \ {0} /\ DOMAIN stack = 1 .. k /\ Node = stack[k][1] /\ Top = stack[k]
      /\ Top[2] \in Nat \ {0} /\ Node \in Nodes
  BY <1>1, TopCall
<1>3. /\ net' = net /\ uses' = uses /\ stack' = Pop
      /\ phase' = IF Pop = << >> THEN "analyze" ELSE "visit"
  BY DEF Finish
<1>4. Members(order') = Members(order) \union {Node}
  BY <1>1, FinishList
<1>5. DOMAIN stack' = 1 .. k - 1 /\ \A j \in 1 .. k - 1 : stack'[j] = stack[j]
  BY <1>1, <1>2, <1>3 DEF Pop, TypeOK
<1>6. /\ \A j \in 1 .. k - 1 : j \in 1 .. k /\ j # k
      /\ \A j \in 1 .. k : j \in 1 .. k - 1 \/ j = k
      /\ k \in 1 .. k
  <2>1. k \in Nat /\ k >= 1
    BY <1>2
  <2> QED
    BY <2>1
<1>7. ASSUME NEW x \in Nodes, NEW m \in Nodes PROVE Passed(x, m)' <=> Passed(x, m)
  <2>1. CASE x = Node
    <3>1. net.ins[x] \in Lists
      BY <1>1, <2>1, <1>2 DEF TypeOK
    <3>2. \A i \in DOMAIN net.ins[x] : i < stack[k][2]
      BY <3>1, ListIsSequence, <2>1, <1>2 DEF Finish, More
    <3> QED
      BY <3>2, <2>1, <1>2, <1>3, <1>4, <1>6 DEF Passed
  <2>2. CASE x # Node
    <3>1. x \in Members(order') <=> x \in Members(order)
      BY <2>2, <1>4
    <3>2. \A i : (\E j \in 1 .. k - 1 : stack'[j][1] = x /\ i < stack'[j][2])
                 <=> (\E j \in 1 .. k : stack[j][1] = x /\ i < stack[j][2])
      BY <2>2, <1>2, <1>5, <1>6
    <3> QED
      BY <3>1, <3>2, <1>2, <1>3, <1>5 DEF Passed
  <2> QED
    BY <2>1, <2>2
<1>8. OutsSoFar' /\ \A m \in Nodes : Len(net'.outs[m]) <= Counted(m)' + MaxOutputs
  <2>1. \A m \in Nodes : Filled(m)' = Filled(m) /\ Counted(m)' = Counted(m)
    BY <1>3 DEF Filled, Counted
  <2> QED
    BY <2>1, <1>1, <1>3, <1>7 DEF OutsSoFar, OInv
<1>9. \A m \in Nodes : uses'[m] = -1 => m \notin Members(order')
  BY <1>1, <1>2, <1>3, <1>4, <1>6 DEF CallsAndList
<1>10. phase' # "visit" =>
         stack' = << >> /\ \A m \in Nodes : uses'[m] # -1 => m \in Members(order')
  <2> SUFFICES ASSUME phase' # "visit", NEW m \in Nodes, uses'[m] # -1
               PROVE  stack' = << >> /\ m \in Members(order')
    BY <1>3
  <2>1. stack' = << >>
    BY <1>3
  <2>2. \A j \in 1 .. k : j = k
    <3>1. DOMAIN stack' = {}
      BY <2>1
    <3> QED
      BY <3>1, <1>5, <1>6
  <2>3. m \in Members(order) \/ \E j \in 1 .. k : stack[j][1] = m
    BY <1>1, <1>2, <1>3 DEF CallsAndList
  <2> QED
    BY <2>1, <2>2, <2>3, <1>2, <1>4
<1> QED
  BY <1>3, <1>8, <1>9, <1>10 DEF OInv

(* When the list is complete, nothing changes any more.                    *)
LEMMA AnalyzeOuts ==
    ASSUME OInv, AnalyzeLifetimes
    PROVE  OInv'
<1>1. /\ net' = net /\ order' = order /\ stack' = stack /\ uses' = uses
      /\ phase' = "built" /\ phase = "analyze"
  BY DEF AnalyzeLifetimes
<1> QED
  BY <1>1 DEF OInv, OutsSoFar, Passed, Filled, Counted

LEMMA OutsInduction == IInv /\ OInv /\ [Next]_vars => OInv'
<1> SUFFICES ASSUME IInv, OInv, [Next]_vars PROVE OInv'
  OBVIOUS
<1>0. TypeOK /\ TypeOK'
  <2>1. TypeOK /\ InCall
    BY DEF IInv, InCall, CallsNested
  <2> QED
    BY <2>1, StepTypes
<1>1. ASSUME NEW n \in Nodes, BuildGraph(n) PROVE OInv'
  BY <1>0, <1>1, BuildOuts
<1>2. ASSUME NEW n \in Nodes, AddNode(n) PROVE OInv'
  <2>1. Members(order) \subseteq Members(order')
    <3>1. order \in Seq(Nodes) /\ order' = Append(order, n)
      BY <1>0, <1>2 DEF TypeOK, AddNode
    <3>2. \A p \in DOMAIN order : p \in DOMAIN order' /\ order'[p] = order[p]
      BY <3>1
    <3> QED
      BY <3>2 DEF Members
  <2> QED
    BY <1>2, <2>1 DEF AddNode, OInv, Counted
<1>3. ASSUME NEW n \in Nodes, NEW list \in Lists, Edit(n, list) PROVE OInv'
  <2> DEFINE f == [net.ins EXCEPT ![n] = list]
  <2>1. net' = [net EXCEPT !.ins = f] /\ f \in [Nodes -> Lists]
    BY <1>0, <1>3 DEF Edit, TypeOK
  <2> HIDE DEF f
  <2>2. net'.outs = net.outs
    BY <1>0, <2>1 DEF TypeOK
  <2> QED
    BY <1>3, <2>2 DEF Edit, OInv, Counted
<1>4. ASSUME NEW m \in Nodes, NEW n \in Nodes, AddOutputNode(m, n) \/ RemoveOutputNode(m, n)
      PROVE  OInv'
  <2>1. /\ phase' = "idle" /\ phase \in {"idle", "built"}
        /\ order' = order /\ uses' = uses /\ stack' = stack
        /\ \A x \in Nodes : x # m => net'.outs[x] = net.outs[x]
        /\ \/ Len(net'.outs[m]) <= Len(net.outs[m])
           \/ Len(net'.outs[m]) <= Counted(m) + MaxOutputs
    BY <1>0, <1>4, OutputEffect
  <2>2. \A x \in Nodes : /\ Counted(x)' = Counted(x) /\ Counted(x) \in Nat
                         /\ Len(net.outs[x]) \in Nat /\ Len(net'.outs[x]) \in Nat
                         /\ Len(net.outs[x]) <= Counted(x) + MaxOutputs
    <3>1. \A x \in Nodes : net.outs[x] \in Seq(Nodes) /\ net'.outs[x] \in Seq(Nodes)
      BY <1>0 DEF TypeOK
    <3>2. \A x \in Nodes : uses[x] \in Nat \union {-1}
      BY <1>0 DEF TypeOK
    <3> QED
      BY <3>1, <3>2, <2>1 DEF Counted, OInv
  <2>3. \A x \in Nodes : Len(net'.outs[x]) <= Counted(x)' + MaxOutputs
    <3> SUFFICES ASSUME NEW x \in Nodes PROVE Len(net'.outs[x]) <= Counted(x) + MaxOutputs
      BY <2>2
    <3>1. CASE x = m
      BY <3>1, <2>1, <2>2, MaxOutputsAssumption
    <3>2. CASE x # m
      BY <3>2, <2>1, <2>2
    <3> QED
      BY <3>1, <3>2
  <2> QED
    BY <2>1, <2>3 DEF OInv
<1>5. ASSUME Descend PROVE OInv'
  BY <1>5, DescendOuts
<1>6. ASSUME UseInput PROVE OInv'
  BY <1>6, UseOuts
<1>7. ASSUME Finish PROVE OInv'
  BY <1>7, FinishOuts
<1>8. ASSUME AnalyzeLifetimes PROVE OInv'
  BY <1>8, AnalyzeOuts
<1>9. CASE UNCHANGED vars
  BY <1>9 DEF vars, OInv, OutsSoFar, Passed, Filled, Counted
<1> QED
  BY <1>1, <1>2, <1>3, <1>4, <1>5, <1>6, <1>7, <1>8, <1>9 DEF Next, Visit

(* In a graph that has been built every output list ends with the readers  *)
(* of its node, each once, and the use count is their number.  In front of *)
(* them there is only what callers have added since clear() last emptied   *)
(* the list: however often the graph is built, the builds add nothing up.  *)
THEOREM ReadersAreListed == Spec => []ReadersListed
<1>1. Init => OInv
  <2> SUFFICES ASSUME Init PROVE OInv
    OBVIOUS
  <2>1. net.outs = [n \in Nodes |-> << >>]
    BY DEF Init
  <2>2. \A m \in Nodes : Len(net.outs[m]) = 0 /\ Counted(m) = 0
    BY <2>1 DEF Init, Counted
  <2>3. \A m \in Nodes : Len(net.outs[m]) <= Counted(m) + MaxOutputs
    BY <2>2, MaxOutputsAssumption
  <2> QED
    BY <2>3 DEF Init, OInv
<1>2. IInv /\ OInv => ReadersListed
  <2> SUFFICES ASSUME IInv, OInv, phase = "built", NEW m \in Members(order)
               PROVE  /\ Len(net.outs[m]) - uses[m] \in 0 .. MaxOutputs
                      /\ \A i, j \in Filled(m) : net.outs[m][i] = net.outs[m][j] => i = j
                      /\ {net.outs[m][i] : i \in Filled(m)}
                           = {n \in Members(order) : m \in Inputs(n)}
    BY DEF ReadersListed
  <2>1. TypeOK /\ OutsSoFar /\ stack = << >>
    BY DEF IInv, OInv
  <2>2. m \in Nodes /\ Members(order) \subseteq Nodes
    <3>1. order \in Seq(Nodes)
      BY <2>1 DEF TypeOK
    <3> QED
      BY <3>1 DEF Members
  <2>3. Len(net.outs[m]) - uses[m] \in 0 .. MaxOutputs
    <3>1. uses[m] \in Nat /\ Counted(m) = uses[m]
      BY <2>1, <2>2 DEF OInv, TypeOK, Counted
    <3>2. net.outs[m] \in Seq(Nodes)
      BY <2>1, <2>2 DEF TypeOK
    <3>3. Len(net.outs[m]) \in Nat
      BY <3>2
    <3>4. Counted(m) <= Len(net.outs[m]) /\ Len(net.outs[m]) <= Counted(m) + MaxOutputs
      BY <2>1, <2>2 DEF OutsSoFar, OInv
    <3> QED
      BY <3>1, <3>3, <3>4, MaxOutputsAssumption
  <2>4. \A n \in Nodes : Passed(n, m) <=> n \in Members(order) /\ m \in Inputs(n)
    BY <2>1 DEF Passed, Members, Inputs
  <2>5. \A i \in Filled(m) : net.outs[m][i] \in Nodes
    <3>1. net.outs[m] \in Seq(Nodes)
      BY <2>1, <2>2 DEF TypeOK
    <3> QED
      BY <3>1 DEF Filled
  <2>6. \A n \in Nodes : (\E i \in Filled(m) : net.outs[m][i] = n)
                            <=> n \in Members(order) /\ m \in Inputs(n)
    BY <2>1, <2>2, <2>4 DEF OutsSoFar
  <2>7. {net.outs[m][i] : i \in Filled(m)} = {n \in Members(order) : m \in Inputs(n)}
    BY <2>2, <2>5, <2>6
  <2>8. \A i, j \in Filled(m) : net.outs[m][i] = net.outs[m][j] => i = j
    BY <2>1, <2>2 DEF OutsSoFar
  <2> QED
    BY <2>3, <2>7, <2>8
<1> QED
  BY <1>1, <1>2, Invariant, OutsInduction, PTL DEF Spec

=============================================================================
