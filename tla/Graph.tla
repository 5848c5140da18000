--------------------------------- MODULE Graph ---------------------------------
(***************************************************************************)
(* Graph: a directed graph of operators, held by its output node.          *)
(* build_graph walks the input lists depth first, puts every node it can   *)
(* reach behind its inputs, fills the output lists and the use counts, and *)
(* finds out when each result is used for the first and the last time.     *)
(* The recursion of visit() is a stack of calls <<node, next input>>.      *)
(* Between two builds the callers change input and output lists at will,   *)
(* also of nodes the next clear() does not know.                           *)
(***************************************************************************)
EXTENDS Integers, Sequences, FiniteSets, SequencesExt

CONSTANTS Nodes,      \* the nodes there may be
          MaxInputs,  \* bound on the inputs of a node
          MaxOutputs  \* bound on the outputs the callers add to those a build found

ASSUME MaxInputsAssumption == MaxInputs \in Nat
ASSUME MaxOutputsAssumption == MaxOutputs \in Nat

VARIABLES
    net,      \* of every node: _input_nodes and _output_nodes
    order,    \* _total_nodes
    inner,    \* _nodes: those of them that have inputs
    uses,     \* _use_counts, -1 for a node that is not _visited
    stack,    \* the calls of visit() that have not returned
    root,     \* _output_node
    life,     \* _first_use and _last_use
    phase     \* "idle", "visit", "analyze" or "built"

vars == <<net, order, inner, uses, stack, root, life, phase>>

Members(s) == {s[i] : i \in DOMAIN s}
Inputs(n) == Members(net.ins[n])

(* Every set of nodes has a node none of whose inputs is in the set.       *)
Acyclic(ins) ==
    \A S \in SUBSET Nodes : S # {} => \E n \in S : Members(ins[n]) \cap S = {}

(* add_input_node gives a node no input twice.                             *)
Lists ==
    UNION {{l \in [1 .. k -> Nodes] : \A i, j \in 1 .. k : l[i] = l[j] => i = j} :
           k \in 0 .. MaxInputs}

Init ==
    /\ net \in [ins : {f \in [Nodes -> Lists] : Acyclic(f)},
                outs : {[n \in Nodes |-> << >>]}]
    /\ order = << >> /\ inner = << >>
    /\ uses = [n \in Nodes |-> -1]
    /\ stack = << >>
    /\ root \in Nodes
    /\ life = << >>
    /\ phase = "idle"

-----------------------------------------------------------------------------
(* Mutant: clear() forgets the output lists. *)
MutBuildGraph(n) ==
    /\ phase \in {"idle", "built"}
    /\ UNCHANGED net
    /\ order' = << >> /\ inner' = << >> /\ life' = << >>
    /\ root' = n
    /\ uses' = [m \in DOMAIN net.ins |-> IF m = n THEN 0 ELSE -1]
    /\ stack' = << <<n, 1>> >>
    /\ phase' = "visit"

(* Mutant: clear() leaves the list of the last build. *)
MutClear(n) ==
    /\ phase \in {"idle", "built"}
    /\ net' = [net EXCEPT !.outs =
                  [m \in DOMAIN @ |-> IF m \in Members(order) THEN << >> ELSE @[m]]]
    /\ UNCHANGED <<order, inner, life>>
    /\ root' = n
    /\ uses' = [m \in DOMAIN net.ins |-> IF m = n THEN 0 ELSE -1]
    /\ stack' = << <<n, 1>> >>
    /\ phase' = "visit"

(* clear() knows only the nodes of the last build and those added since.   *)
BuildGraph(n) ==
    /\ phase \in {"idle", "built"}
    /\ net' = [net EXCEPT !.outs =
                  [m \in DOMAIN @ |-> IF m \in Members(order) THEN << >> ELSE @[m]]]
    /\ order' = << >> /\ inner' = << >> /\ life' = << >>
    /\ root' = n
    /\ uses' = [m \in DOMAIN net.ins |-> IF m = n THEN 0 ELSE -1]
    /\ stack' = << <<n, 1>> >>
    /\ phase' = "visit"

Top  == stack[Len(stack)]
Node == Top[1]
More == Top[2] <= Len(net.ins[Node])
NextInput == net.ins[Node][Top[2]]

(* Mutant: the loop over the inputs begins one place too early. *)
MutDescend ==
    /\ phase = "visit" /\ More /\ uses[NextInput] = -1
    /\ uses' = [uses EXCEPT ![NextInput] = 0]
    /\ stack' = Append(stack, <<NextInput, 0>>)
    /\ UNCHANGED <<net, order, inner, root, life, phase>>

(* Mutant: visit() returns at once from a node without inputs. *)
MutPassLeaf ==
    /\ phase = "visit" /\ More /\ uses[NextInput] = -1
    /\ net.ins[NextInput] # << >>
    /\ uses' = [uses EXCEPT ![NextInput] = 0]
    /\ stack' = Append(stack, <<NextInput, 1>>)
    /\ UNCHANGED <<net, order, inner, root, life, phase>>

(* visit() of an input that has not been visited, ...                      *)
Descend ==
    /\ phase = "visit" /\ More /\ uses[NextInput] = -1
    /\ uses' = [uses EXCEPT ![NextInput] = 0]
    /\ stack' = Append(stack, <<NextInput, 1>>)
    /\ UNCHANGED <<net, order, inner, root, life, phase>>

(* ... what the loop does when visit() of an input has returned, ...       *)
UseInput ==
    /\ phase = "visit" /\ More /\ uses[NextInput] # -1
    /\ net' = [net EXCEPT !.outs[NextInput] = Append(@, Node)]
    /\ uses' = [uses EXCEPT ![NextInput] = @ + 1]
    /\ stack' = [stack EXCEPT ![Len(stack)][2] = @ + 1]
    /\ UNCHANGED <<order, inner, root, life, phase>>

Pop == SubSeq(stack, 1, Len(stack) - 1)

(* Mutant: a node is appended before its inputs. *)
MutFinish ==
    /\ phase = "visit" /\ ~ More
    /\ order' = <<Node>> \o order
    /\ inner' = IF net.ins[Node] = << >> THEN inner ELSE Append(inner, Node)
    /\ stack' = Pop
    /\ phase' = IF Pop = << >> THEN "analyze" ELSE phase
    /\ UNCHANGED <<net, uses, root, life>>

(* ... and its end: the place in the list is the node's _exec_time.        *)
Finish ==
    /\ phase = "visit" /\ ~ More
    /\ order' = Append(order, Node)
    /\ inner' = IF net.ins[Node] = << >> THEN inner ELSE Append(inner, Node)
    /\ stack' = Pop
    /\ phase' = IF Pop = << >> THEN "analyze" ELSE phase
    /\ UNCHANGED <<net, uses, root, life>>

Places(n) == {p \in DOMAIN order : order[p] = n}
ConsumerPlaces(n) == {p \in DOMAIN order : n \in Inputs(order[p])}
Latest(S) == CHOOSE p \in S : \A q \in S : q <= p

(* analyze_lifetimes *)
AnalyzeLifetimes ==
    /\ phase = "analyze"
    /\ life' = [n \in Members(order) |->
                  [first |-> Latest(Places(n)),
                   last  |-> Latest(IF ConsumerPlaces(n) = {} THEN Places(n)
                                    ELSE ConsumerPlaces(n))]]
    /\ phase' = "built"
    /\ UNCHANGED <<net, order, inner, uses, stack, root>>

(* add_node, for a node that is not in the graph yet.                      *)
AddNode(n) ==
    /\ phase \in {"idle", "built"} /\ n \notin Members(order)
    /\ order' = Append(order, n) /\ inner' = Append(inner, n)
    /\ phase' = "idle"
    /\ UNCHANGED <<net, uses, stack, root, life>>

(* add_input_node, remove_input_node: the caller keeps the graph acyclic.  *)
Edit(n, list) ==
    /\ phase \in {"idle", "built"}
    /\ net' = [net EXCEPT !.ins[n] = list]
    /\ Acyclic(net'.ins)
    /\ phase' = "idle"
    /\ UNCHANGED <<order, inner, uses, stack, root, life>>

(* What visit() has counted for a node, and entered in its output list.    *)
Counted(m) == IF uses[m] = -1 THEN 0 ELSE uses[m]

(* add_output_node: a reader is entered, no matter who is listed already.  *)
AddOutputNode(m, n) ==
    /\ phase \in {"idle", "built"}
    /\ m \in Inputs(n)
    /\ Len(net.outs[m]) < Counted(m) + MaxOutputs
    /\ net' = [net EXCEPT !.outs[m] = Append(@, n)]
    /\ phase' = "idle"
    /\ UNCHANGED <<order, inner, uses, stack, root, life>>

(* remove_output_node: the first entry of the node only.                   *)
RemoveOutputNode(m, n) ==
    /\ phase \in {"idle", "built"}
    /\ \E i \in DOMAIN net.outs[m] :
         /\ net.outs[m][i] = n /\ \A j \in 1 .. i - 1 : net.outs[m][j] # n
         /\ net' = [net EXCEPT !.outs[m] = RemoveAt(@, i)]
    /\ phase' = "idle"
    /\ UNCHANGED <<order, inner, uses, stack, root, life>>

Visit == Descend \/ UseInput \/ Finish

Next ==
    \/ \E n \in Nodes : BuildGraph(n) \/ AddNode(n)
    \/ Visit
    \/ AnalyzeLifetimes
    \/ \E n \in Nodes, list \in Lists : Edit(n, list)
    \/ \E m, n \in Nodes : AddOutputNode(m, n) \/ RemoveOutputNode(m, n)

Spec == Init /\ [][Next]_vars

(* The caller of build_graph is busy until it returns.                     *)
FairSpec == Spec /\ WF_vars(Visit \/ AnalyzeLifetimes)

-----------------------------------------------------------------------------
(* The lists hold nodes, and each call of visit() stands at a place of the *)
(* input list of its node or behind it.                                    *)
TypeOK ==
    /\ net \in [ins : [Nodes -> Lists], outs : [Nodes -> Seq(Nodes)]]
    /\ order \in Seq(Nodes) /\ inner \in Seq(Nodes)
    /\ uses \in [Nodes -> Nat \union {-1}]
    /\ stack \in Seq(Nodes \X (Nat \ {0}))
    /\ root \in Nodes
    /\ phase \in {"idle", "visit", "analyze", "built"}

(* A graph that has just been built lists the output last, no node twice,  *)
(* and every node behind all of its inputs: whoever goes through the list  *)
(* (build_task_schedule, the optimizer) meets inputs first.                *)
InputsFirst ==
    phase = "built" =>
        /\ order # << >> /\ order[Len(order)] = root
        /\ \A p, q \in DOMAIN order : order[p] = order[q] => p = q
        /\ \A p \in DOMAIN order : \A i \in Inputs(order[p]) :
               \E q \in DOMAIN order : q < p /\ order[q] = i

(* It lists nothing else: every node but the output is used by a later one,*)
(* so what the optimizer has cut off is not in the list any more.          *)
OnlyReached ==
    phase = "built" =>
        \A p \in DOMAIN order : p = Len(order) \/
            \E q \in DOMAIN order : p < q /\ order[p] \in Inputs(order[q])

(* The places of the output list that this build has filled.               *)
Filled(m) == {i \in DOMAIN net.outs[m] : i > Len(net.outs[m]) - uses[m]}

(* The output list of a node ends with the nodes of the graph that read it,*)
(* each once, and the use count is their number, although nodes come and go*)
(* between builds.  clear() cannot empty the list of a node that the last  *)
(* build did not reach: what callers have put there stays in front, a      *)
(* reader may be listed once more, but no build adds to it for the next.   *)
ReadersListed ==
    phase = "built" => \A m \in Members(order) :
        /\ Len(net.outs[m]) - uses[m] \in 0 .. MaxOutputs
        /\ \A i, j \in Filled(m) : net.outs[m][i] = net.outs[m][j] => i = j
        /\ {net.outs[m][i] : i \in Filled(m)} = {n \in Members(order) : m \in Inputs(n)}

(* build_graph returns: the recursion ends on every acyclic graph.         *)
BuildReturns == phase = "visit" ~> phase = "built"

=============================================================================
