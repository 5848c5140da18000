----------------------------- MODULE GraphOptimizer -----------------------------
(***************************************************************************)
(* GraphOptimizer::optimize on the graph of a model: it puts each tensor   *)
(* on a device and copies between devices (device_placement_opt), folds    *)
(* operations into others and duplicates into one (fuse), lets the memory  *)
(* of a layer be reclaimed (mem_opt), and builds the graph again.          *)
(* A pass goes through a list of nodes; one step here is one node.         *)
(* net has, beside the input and output lists: the layer id of a node, the *)
(* tensors its kernel is given (params), what it knew of them when its     *)
(* shape was inferred last (known), the tensor it computes, whether it was *)
(* fused away, and the device of every tensor.                             *)
(***************************************************************************)
EXTENDS Graph, ModelGraph, SequencesExt

CONSTANT Frees     \* free memory of the GPUs: one graph is built for each

(* There is a GPU, and each has some memory left.                          *)
ASSUME FreesAssumption == Frees \subseteq Seq(Nat \ {0}) \ {<< >>}

VARIABLES
    setting,  \* what the graph is built for
    pass,     \* "create", "forward", "backward", "copy", "fuse", "recycle",
              \* "rebuild", "schedule", "done" or "undefined"
    walk,     \* the nodes the pass has yet to visit
    cur,      \* cur_device_id
    map,      \* _layer_device_map
    before    \* of every task: those that end before it starts

optVars == <<setting, pass, walk, cur, map, before>>
allVars == <<vars, optVars>>

Settings == [free : Frees, quant : BOOLEAN, fp16 : BOOLEAN, decode : BOOLEAN]
Logits == <<"logits", 0>>

(* Nodes there may be: those of the model, a copy of an operand for a      *)
(* reader, and a recycling node behind a node.                             *)
OptimizerNodes ==
    ModelNodes
    \union UNION {{<<"copy", n, i>> : i \in UNION {Members(ModelInputs(s, n)) : s \in
                       [free : {<<1>>}, quant : BOOLEAN, fp16 : BOOLEAN, decode : {FALSE}]}} :
                   n \in ModelNodes}
    \union {<<"recycle", n>> : n \in ModelNodes}

ASSUME NodesAssumption == Nodes = OptimizerNodes

ModelNet(s) ==
    LET params == [n \in ModelNodes |-> ModelParams(s, n)]
    IN  [ins    |-> [n \in ModelNodes |-> ModelInputs(s, n)],
         outs   |-> [n \in ModelNodes |-> << >>],
         layer  |-> [n \in ModelNodes |-> ModelLayer(n)],
         params |-> params,
         known  |-> params,
         tensor |-> [n \in ModelNodes |-> TensorOf(s, n)],
         fused  |-> {},
         dev    |-> [t \in ModelNodes \union {Table} |-> ModelDevice(s, t)]]

OptInit ==
    /\ setting \in {s \in Settings : ~ s.decode}
    /\ net = ModelNet(setting)
    /\ order = << >> /\ inner = << >> /\ life = << >> /\ stack = << >>
    /\ uses = [n \in ModelNodes |-> -1]
    /\ root = Logits /\ phase = "idle"
    /\ pass = "create" /\ walk = << >> /\ cur = CPU /\ map = << >> /\ before = << >>

-----------------------------------------------------------------------------
(* Edits of the graph g, as GraphNode does them *)

Name(n) == IF Op(n) \in {"MEM_CPY", "MEM_RECYCLE", "PRE_ROPE_TABLE"} THEN <<Op(n)>> ELSE n

(* The function f, but for its value at x.                                 *)
With(f, x, v) == [y \in DOMAIN f \union {x} |-> IF y = x THEN v ELSE f[y]]

(* ADD_NODE of a node that reads tensor t and computes own.                *)
NewNode(g, n, t, own) ==
    [g EXCEPT !.ins = With(@, n, << >>), !.outs = With(@, n, << >>), !.layer = With(@, n, 0),
              !.params = With(@, n, [in |-> t]), !.known = With(@, n, [in |-> t]),
              !.tensor = With(@, n, own)]

(* An input of the same name stays and the new one is dropped; else the    *)
(* node takes over the layer id of its input.                              *)
AddInput(g, n, m) ==
    IF \E i \in Members(g.ins[n]) : Name(i) = Name(m) THEN g
    ELSE [g EXCEPT !.ins[n] = Append(@, m), !.layer[n] = g.layer[m]]

(* The nodes of a list that are in a set, in their order.                  *)
Only(list, S) ==
    LET kept[k \in 0 .. Len(list)] ==
            IF k = 0 THEN << >>
            ELSE IF list[k] \in S THEN Append(kept[k - 1], list[k]) ELSE kept[k - 1]
    IN  kept[Len(list)]

RemoveInput(g, n, m)  == [g EXCEPT !.ins[n] = Only(@, Nodes \ {m})]
AddOutput(g, n, m)    == [g EXCEPT !.outs[n] = Append(@, m)]
RemoveOutput(g, n, m) == [g EXCEPT !.outs[n] = RemoveFirst(@, m)]

(* para_name: what a node called a tensor when its shape was inferred.     *)
ParaNames(g, n, t) == {p \in DOMAIN g.known[n] : g.known[n][p] = t}
SetParams(g, n, names, t) ==
    [g EXCEPT !.params[n] = [p \in DOMAIN @ |-> IF p \in names THEN t ELSE @[p]]]

Device(g, n) == g.dev[g.tensor[n]]
IsInputNode(n)  == Kind(n) \in {"embed", "mask", "tableq", "tablek"}
IsOutputNode(n) == Kind(n) \in {"mul3", "out", "logits"}

(* ins[n] loses old and gets new, which reads old.                         *)
InsertInput(g, n, new, old) ==
    LET g1 == AddOutput(AddInput(RemoveInput(g, n, old), n, new), new, n)
        g2 == AddOutput(AddInput(g1, new, old), old, new)
        g3 == SetParams(g2, n, ParaNames(g2, n, g.tensor[old]), g.tensor[new])
    IN  [g3 EXCEPT !.known[n] = g3.params[n]]

(* Mutant: the fused node is always asked for the name. *)
MutReplaceInput(g, n, new, old) ==
    LET g1 == RemoveOutput(RemoveInput(g, n, old), old, n)
        g2 == AddOutput(AddInput(g1, n, new), new, n)
    IN  SetParams(g2, n, ParaNames(g2, old, g.tensor[new]), g.tensor[new])

ReplaceInput(g, n, new, old) ==
    LET g1 == RemoveOutput(RemoveInput(g, n, old), old, n)
        g2 == AddOutput(AddInput(g1, n, new), new, n)
        names == IF g2.ins[new] = << >> THEN ParaNames(g2, old, g.tensor[new])
                 ELSE ParaNames(g2, n, g.tensor[old])
    IN  SetParams(g2, n, names, g.tensor[new])

-----------------------------------------------------------------------------
(* device_placement_opt: cur_device_id behind node n when it was d.        *)
DeviceAfter(g, d, n) ==
    IF Op(n) # "MEM_REF" /\ Device(g, n) # CPU THEN Device(g, n) ELSE d

(* What is on no GPU gets that of the nodes before it, or behind it.       *)
PlaceNode(g, d, n) ==
    IF \/ Op(n) = "MEM_REF" \/ Device(g, n) # CPU
       \/ d = CPU \/ IsInputNode(n) \/ IsOutputNode(n)
    THEN g ELSE [g EXCEPT !.dev[g.tensor[n]] = d]

CopyInput(g, n, i) ==
    LET c == <<"copy", n, i>>
        g1 == [NewNode(g, c, g.tensor[i], c) EXCEPT !.dev = With(@, c, Device(g, n))]
    IN  IF Device(g, n) = Device(g, i) \/ Op(i) = "MEM_REF" THEN g
        ELSE InsertInput(RemoveOutput(g1, i, n), n, c, i)

(* Mutant: only the first input is looked at. *)
MutCopyInputs(g, n) == IF g.ins[n] = << >> THEN g ELSE CopyInput(g, n, g.ins[n][1])

CopyInputs(g, n) ==
    LET h[k \in 0 .. Len(g.ins[n])] ==
            IF k = 0 THEN g ELSE CopyInput(h[k - 1], n, g.ins[n][k])
    IN  h[Len(g.ins[n])]

-----------------------------------------------------------------------------
(* fuse *)

(* Node::fuse(current): current gets the parameters of the fused node.     *)
TakeParams(g, n, m) ==
    LET Taken(p) == IF p \in DOMAIN g.params[m] THEN g.params[m][p] ELSE g.params[n][p]
    IN  [g EXCEPT !.fused = @ \union {m},
                  !.params[n] = [p \in DOMAIN g.params[m] \union DOMAIN @ |-> Taken(p)]]

Unfused(g, list) == Only(list, Nodes \ g.fused)

FuseMul(g, n, mul) ==
    LET g1 == [TakeParams(g, n, mul) EXCEPT !.tensor[n] = g.tensor[mul]]
        readers == Unfused(g, g.outs[mul])
        Turn(f, o) == RemoveInput(AddInput(AddOutput(f, n, o), o, n), o, mul)
        h[k \in 0 .. Len(readers)] ==
            IF k = 0 THEN RemoveOutput(g1, n, mul) ELSE Turn(h[k - 1], readers[k])
    IN  h[Len(readers)]

FuseRope(g, n, rope) ==
    LET read == Unfused(g, g.ins[rope])
        h[k \in 0 .. Len(read)] ==
            IF k = 0 THEN TakeParams(g, n, rope) ELSE ReplaceInput(h[k - 1], n, read[k], rope)
    IN  h[Len(read)]

FuseRopes(g, n, ropes) ==
    LET h[k \in 0 .. Len(ropes)] ==
            IF k = 0 THEN g ELSE FuseRope(h[k - 1], n, ropes[k])
    IN  h[Len(ropes)]

CanFuse(g, n, op, list) ==
    Only(list, {m \in Members(list) : Op(m) = op /\ Device(g, m) = Device(g, n)})

(* GraphNodeSemanticKey: the operation and all its parameters but out.     *)
SemanticKey(g, n) ==
    <<Op(n), g.params[n],
      CASE Op(n) = "MEM_CPY" -> Device(g, n)
        [] Op(n) \in {"SET_ROWS", "GET_ROWS"} -> n[2]
        [] OTHER -> 0>>

(* Mutant: the parameters of the readers stay. *)
MutMergeInto(g, n, keep, same) ==
    LET g1 == [g EXCEPT !.fused = @ \union {same}]
        readers == Unfused(g1, g.outs[same])
        Turn(f, o) == AddOutput(AddInput(RemoveInput(f, o, same), o, keep), keep, o)
        h[k \in 0 .. Len(readers)] ==
            IF k = 0 THEN RemoveOutput(RemoveInput(g1, same, n), n, same)
            ELSE Turn(h[k - 1], readers[k])
    IN  h[Len(readers)]

MergeInto(g, n, keep, same) ==
    LET g1 == [g EXCEPT !.fused = @ \union {same}]
        readers == Unfused(g1, g.outs[same])
        Turn(f, o) ==
            LET f1 == SetParams(f, o, ParaNames(f, o, g.tensor[same]), g.tensor[keep])
                f2 == AddInput(RemoveInput(f1, o, same), o, keep)
            IN  AddOutput(RemoveOutput(f2, same, o), keep, o)
        h[k \in 0 .. Len(readers)] ==
            IF k = 0 THEN RemoveOutput(RemoveInput(g1, same, n), n, same)
            ELSE Turn(h[k - 1], readers[k])
    IN  h[Len(readers)]

FuseSame(g, n) ==
    LET os == g.outs[n]
        Same(i, j) == i < j /\ SemanticKey(g, os[i]) = SemanticKey(g, os[j])
        First(j) == CHOOSE i \in DOMAIN os : Same(i, j) /\ \A k \in 1 .. i - 1 : ~ Same(k, j)
        h[j \in 0 .. Len(os)] ==
            IF j = 0 THEN g
            ELSE IF \E i \in DOMAIN os : Same(i, j)
                 THEN MergeInto(h[j - 1], n, os[First(j)], os[j]) ELSE h[j - 1]
    IN  IF \E i, j \in DOMAIN os : Same(i, j) /\ {os[i], os[j]} \cap g.fused = {}
        THEN h[Len(os)] ELSE g

FuseNode(g, n) ==
    LET muls  == CanFuse(g, n, "MUL", g.outs[n])
        ropes == CanFuse(g, n, "ROPE", g.ins[n])
    IN  CASE n \in g.fused -> g
          [] n \notin g.fused /\ Op(n) = "RMS_NORM" ->
                 IF muls = << >> THEN g
                 ELSE FuseSame(IF Len(muls) = 1 THEN FuseMul(g, n, muls[1]) ELSE g, n)
          [] n \notin g.fused /\ Op(n) = "FLASH_ATTN" ->
                 IF ropes = << >> THEN g
                 ELSE FuseSame(FuseRopes(g, n, ropes), n)
          [] OTHER -> FuseSame(g, n)

-----------------------------------------------------------------------------
(* Mutant: a layer is recycled in its middle. *)
MutShouldRecycle(g, n) ==
    /\ n \notin g.fused /\ Op(n) # "RESHAPE"
    /\ Device(g, n) # CPU
    /\ g.ins[n] # << >>
    /\ \A i \in Members(g.ins[n]) : ~ IsOutputNode(i)

(* mem_opt: should_optimize, and mem_optimize of a node for which it holds *)
ShouldRecycle(g, n) ==
    /\ n \notin g.fused /\ Op(n) # "RESHAPE"
    /\ Device(g, n) # CPU
    /\ g.ins[n] # << >>
    /\ \A i \in Members(g.ins[n]) : g.layer[i] # g.layer[n] /\ ~ IsOutputNode(i)

(* Mutant: the node is linked with the recycling node both ways. *)
MutRecycleNode(g, n) ==
    LET r == <<"recycle", n>>
        Turn(f, c) == AddInput(RemoveInput(f, c, n), c, r)
        g1 == AddInput(NewNode(g, r, g.tensor[n], g.tensor[n]), r, n)
        h[k \in 0 .. Len(g.outs[n])] ==
            IF k = 0 THEN AddInput(g1, n, r) ELSE Turn(h[k - 1], g.outs[n][k])
    IN  h[Len(g.outs[n])]

RecycleNode(g, n) ==
    LET r == <<"recycle", n>>
        Turn(f, c) == AddInput(RemoveInput([f EXCEPT !.layer[r] = f.layer[c]], c, n), c, r)
        h[k \in 0 .. Len(g.outs[n])] ==
            IF k = 0 THEN AddInput(NewNode(g, r, g.tensor[n], g.tensor[n]), r, n)
            ELSE Turn(h[k - 1], g.outs[n][k])
    IN  h[Len(g.outs[n])]

-----------------------------------------------------------------------------
Build ==
    /\ pass \in {"create", "rebuild"} /\ phase = "idle"
    /\ BuildGraph(Logits)
    /\ UNCHANGED optVars

Building == (Visit \/ AnalyzeLifetimes) /\ UNCHANGED optVars

StartPlacing ==
    /\ pass = "create" /\ phase = "built"
    /\ map' = << >>
    /\ pass' = "forward" /\ walk' = order /\ cur' = CPU
    /\ phase' = "idle"
    /\ UNCHANGED <<net, order, inner, uses, stack, root, life, setting, before>>

Current == Head(walk)
UnchangedLists == UNCHANGED <<order, inner, uses, stack, root, life, phase, setting, before>>

Place ==
    /\ pass \in {"forward", "backward"} /\ walk # << >>
    /\ net' = PlaceNode(net, cur, Current)
    /\ cur' = DeviceAfter(net, cur, Current)
    /\ walk' = Tail(walk)
    /\ UnchangedLists /\ UNCHANGED <<pass, map>>

(* The layer of a node that stores keys or values is on that node's device.*)
Copy ==
    /\ pass = "copy" /\ walk # << >>
    /\ map' = IF Op(Current) = "SET_ROWS"
              THEN With(map, net.layer[Current], Device(net, Current)) ELSE map
    /\ net' = CopyInputs(net, Current)
    /\ walk' = Tail(walk)
    /\ UnchangedLists /\ UNCHANGED <<pass, cur>>

Fuse ==
    /\ pass = "fuse" /\ walk # << >>
    /\ net' = FuseNode(net, Current)
    /\ walk' = Tail(walk)
    /\ UnchangedLists /\ UNCHANGED <<pass, map, cur>>

KeepNode ==
    /\ pass = "recycle" /\ walk # << >> /\ ~ ShouldRecycle(net, Current)
    /\ walk' = Tail(walk)
    /\ UNCHANGED <<vars, setting, pass, map, cur, before>>

(* add_node extends the vector the loop goes through, which ends where it  *)
(* ended before: when the vector has to move, the iterators are left       *)
(* behind and nothing is defined any more.                                 *)
Recycle ==
    /\ pass = "recycle" /\ walk # << >> /\ ShouldRecycle(net, Current)
    /\ net' = RecycleNode(net, Current)
    /\ order' = Append(order, <<"recycle", Current>>)
    /\ inner' = Append(inner, <<"recycle", Current>>)
    /\ walk' = Tail(walk)
    /\ pass' \in {"recycle", "undefined"}
    /\ UNCHANGED <<uses, stack, root, life, phase, setting, map, cur, before>>

NextPass ==
    /\ walk = << >>
    /\ \/ pass = "forward"  /\ pass' = "backward" /\ walk' = Reverse(order)
       \/ pass = "backward" /\ pass' = "copy"     /\ walk' = order
       \/ pass = "copy"     /\ pass' = "fuse"     /\ walk' = inner
       \/ pass = "fuse"     /\ pass' = "recycle"  /\ walk' = inner
       \/ pass = "recycle"  /\ pass' = "rebuild"  /\ UNCHANGED walk
       \/ pass = "rebuild"  /\ phase = "built" /\ pass' = "schedule" /\ walk' = order
       \/ pass = "schedule" /\ pass' = "done"     /\ UNCHANGED walk
    /\ cur' = CPU
    /\ UNCHANGED <<vars, setting, map, before>>

(* build_task_schedule: the task of an input precedes that of the node.    *)
Schedule ==
    /\ pass = "schedule" /\ walk # << >>
    /\ before' = With(before, Current, UNION {{i} \union before[i] : i \in Inputs(Current)})
    /\ walk' = Tail(walk)
    /\ UNCHANGED <<vars, setting, pass, cur, map>>

(* The next token: a graph of new nodes, with the mask there is already.   *)
NextToken ==
    /\ pass = "done"
    /\ setting' = [setting EXCEPT !.decode = TRUE]
    /\ net' = ModelNet(setting')
    /\ order' = << >> /\ inner' = << >> /\ life' = << >> /\ stack' = << >>
    /\ uses' = [n \in ModelNodes |-> -1]
    /\ root' = Logits /\ phase' = "idle"
    /\ pass' = "create" /\ walk' = << >> /\ before' = << >>
    /\ UNCHANGED <<map, cur>>

OptNext ==
    \/ Build \/ Building \/ StartPlacing \/ Place \/ Copy \/ Fuse
    \/ KeepNode \/ Recycle \/ NextPass \/ Schedule \/ NextToken

OptSpec == OptInit /\ [][OptNext]_allVars

-----------------------------------------------------------------------------
Done == pass = "done"

(* The tensors the kernel of a node reads: a fused norm also reads the     *)
(* weight of its product, and a fused attention turns q and k itself.      *)
Mul(n) == CHOOSE m \in ModelNodes : Op(m) = "MUL" /\ ModelInputs(setting, m)[1] = n
Rope(n, k) == <<k, n[2]>>
Reads(n) ==
    LET own == DOMAIN ModelParams(setting, n)
        read ==
             CASE Op(n) = "MEM_CPY" -> {"in"}
                  [] Op(n) = "MEM_RECYCLE" -> {}
                  [] Op(n) = "RMS_NORM" /\ Mul(n) \in net.fused -> own \union {"weight"}
                  [] Op(n) = "FLASH_ATTN" /\ Rope(n, "pq") \in net.fused -> own \union {"table"}
                  [] OTHER -> own
    IN  [p \in read \cap DOMAIN net.params[n] |-> net.params[n][p]]

(* What the node must read for the model to compute what it did before.    *)
Meant(n) ==
    LET own == ModelParams(setting, n)
    IN  CASE Op(n) = "RMS_NORM" /\ Mul(n) \in net.fused ->
                 [in |-> own.in, weight |-> ModelParams(setting, Mul(n)).weight]
          [] Op(n) = "FLASH_ATTN" /\ Rope(n, "pq") \in net.fused ->
                 With([own EXCEPT !.q = ModelParams(setting, Rope(n, "pq")).in,
                                  !.k = ModelParams(setting, Rope(n, "pk")).in],
                      "table", Table)
          [] OTHER -> own

(* The value in a tensor: a copy has that of its source, and quantizations *)
(* of one tensor all have the same.                                        *)
Source(t) == IF Kind(t) = "copy" THEN net.params[t].in ELSE t
Value(t) ==
    LET s == Source(t)
    IN  IF Kind(s) \in DOMAIN OpOf /\ OpOf[Kind(s)] = "QUANTIZE"
        THEN <<"QUANTIZE", ModelParams(setting, s).in>> ELSE s

Compute(n) == Op(n) \notin {"MEM_CPY", "MEM_RECYCLE"}

(* Whatever is fused, merged, copied and recycled, every node that is left *)
(* computes what the model says from the operands the model says, and the  *)
(* logits are the last of them.                                            *)
MeaningKept ==
    Done =>
        /\ \A n \in Members(order) : Compute(n) =>
             /\ DOMAIN Reads(n) = DOMAIN Meant(n)
             /\ \A p \in DOMAIN Meant(n) : Value(Reads(n)[p]) = Value(Meant(n)[p])
             /\ net.tensor[n] = IF Op(n) = "RMS_NORM" /\ Mul(n) \in net.fused
                                THEN net.tensor[Mul(n)] ELSE TensorOf(setting, n)
        /\ order[Len(order)] = Logits

Writers(t) == {n \in Members(order) : net.tensor[n] = t /\ Op(n) \notin {"RESHAPE", "MEM_RECYCLE"}}
ReadTensors(n) == {Reads(n)[p] : p \in DOMAIN Reads(n)}

(* The input lists become the edges of the task graph: every kernel waits  *)
(* for those that write what it reads.  Only the first layer has an edge   *)
(* from the mask and the table; the others rely on the layers before them. *)
ReadsOrdered ==
    Done =>
        \A n \in Members(order) : \A t \in ReadTensors(n) : Kind(t) # "weight" =>
            IF t = <<"mask", 0>> /\ setting.decode THEN Writers(t) = {}
            ELSE Writers(t) # {} /\ Writers(t) \subseteq before[n] \union {n}

(* The cache of a layer is asked for on the device where bind_device put   *)
(* the layer's weights and its part of the cache.                          *)
StoreDevices ==
    pass \in {"fuse", "recycle", "rebuild", "schedule", "done"} =>
        map = [l \in Layers |-> BindDevice(setting.free, l)]

(* What a node is given by an input that is not a weight is on the node's  *)
(* device, unless it is the copy itself; with one GPU all a kernel reads.  *)
OperandsAtHand ==
    Done => \A n \in Members(order) : Op(n) # "MEM_CPY" =>
        /\ \A i \in Inputs(n) : Op(i) = "MEM_REF" \/ Device(net, i) = Device(net, n)
        /\ Len(setting.free) = 1 =>
             \A t \in ReadTensors(n) : net.dev[t] = Device(net, n)

(* Work of a GPU that takes memory there.                                  *)
OnGPU(n) == Device(net, n) # CPU /\ Op(n) \notin {"MEM_REF", "MEM_RECYCLE", "RESHAPE"}
Resident(t) == Kind(t) \in {"weight", "mask", "table", "token"}
PlaceOf(n) == CHOOSE p \in DOMAIN order : order[p] = n

(* A recycling node reclaims the memory of what was placed before it while *)
(* the list is gone through, long before anything runs: with one GPU, all  *)
(* that work has ended before anything behind the node starts, and nothing *)
(* behind it reads a result from before, other than the one it hands on.   *)
ReclaimSafe ==
    Done /\ Len(setting.free) = 1 =>
        \A r, n \in Members(order) : Op(r) = "MEM_RECYCLE" /\ OnGPU(n) =>
            IF PlaceOf(n) < PlaceOf(r) THEN n \in before[r]
            ELSE /\ r \in before[n]
                 /\ \A t \in ReadTensors(n) :
                        \/ t = net.tensor[r] \/ Resident(t)
                        \/ \A w \in Writers(t) : PlaceOf(r) < PlaceOf(w)

(* The result that is handed on gets memory of its own after the reclaim:  *)
(* the lowest, where the first result since the last reclaim still is.     *)
(* Its node writes there only when nobody needs that first one any more.   *)
FirstSince(r) ==
    LET Recycles == {m \in Members(order) : Op(m) = "MEM_RECYCLE" /\ PlaceOf(m) < PlaceOf(r)}
        Taken == {m \in Members(order) : OnGPU(m) /\ ~ Resident(net.tensor[m])} \union Recycles
        since == {m \in Taken : \A o \in Recycles : PlaceOf(o) <= PlaceOf(m)}
    IN  net.tensor[CHOOSE m \in since : \A o \in since : PlaceOf(m) <= PlaceOf(o)]

HandedOnInPlace ==
    Done /\ Len(setting.free) = 1 =>
        \A r \in Members(order) : Op(r) = "MEM_RECYCLE" =>
            \A n \in Members(order) : FirstSince(r) \in ReadTensors(n) =>
                \A w \in Writers(net.tensor[r]) : n \in before[w]

=============================================================================
