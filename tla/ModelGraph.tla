------------------------------- MODULE ModelGraph -------------------------------
(***************************************************************************)
(* The graph that QWen3Creator::build_graph makes of a model: what each    *)
(* node reads, on which device its result is, and to which layer it        *)
(* counts.  A setting says what makes graphs differ:                       *)
(*   free    free memory of each GPU, by which bind_device splits layers   *)
(*   quant   the weights are quantized (Q8_0)                              *)
(*   fp16    _use_fp16                                                     *)
(*   decode  the second graph: the mask of the first one is still there    *)
(* A node is <<kind, layer>>, or <<"weight", kind, layer>> for the weight  *)
(* of one; the embedding and the tail of the model stand outside layers.   *)
(***************************************************************************)
EXTENDS Integers, Sequences

CONSTANT NLayers      \* repeating layers; build_graph makes none for one
ASSUME LayersAssumption == NLayers \in Nat \ {0, 1}

CPU == -1
Layers == 0 .. NLayers - 1

(* bind_device: the first GPU up to which the share of free memory is      *)
(* larger than the share of layers before this one.                        *)
BindDevice(free, l) ==
    LET upTo[i \in 0 .. Len(free)] == IF i = 0 THEN 0 ELSE upTo[i - 1] + free[i]
    IN  CHOOSE i \in DOMAIN free :
            /\ upTo[i] * NLayers > l * upTo[Len(free)]
            /\ \A j \in 1 .. i - 1 : upTo[j] * NLayers <= l * upTo[Len(free)]

-----------------------------------------------------------------------------
(* The nodes and their operations *)
OpOf == [embed |-> "EMBEDDING", norm1 |-> "RMS_NORM", mul1 |-> "MUL",
         qq |-> "QUANTIZE", qk |-> "QUANTIZE", qv |-> "QUANTIZE",
         mq |-> "MATMUL", mk |-> "MATMUL", mv |-> "MATMUL",
         rq |-> "RESHAPE", rk |-> "RESHAPE", rv |-> "RESHAPE",
         nq |-> "RMS_NORM", uq |-> "MUL", nk |-> "RMS_NORM", uk |-> "MUL",
         sk |-> "SET_ROWS", sv |-> "SET_ROWS", gk |-> "GET_ROWS", gv |-> "GET_ROWS",
         cq |-> "CONVERT", pq |-> "ROPE", pk |-> "ROPE",
         tableq |-> "PRE_ROPE_TABLE", tablek |-> "PRE_ROPE_TABLE", mask |-> "ATTN_MASK",
         att |-> "FLASH_ATTN", ra |-> "RESHAPE", qo |-> "QUANTIZE", mo |-> "MATMUL",
         inp |-> "BINARY", norm2 |-> "RMS_NORM", mul2 |-> "MUL",
         qu |-> "QUANTIZE", qg |-> "QUANTIZE", up |-> "MATMUL", gate |-> "MATMUL",
         act |-> "UNARY", qd |-> "QUANTIZE", down |-> "MATMUL", res |-> "BINARY",
         norm3 |-> "RMS_NORM", mul3 |-> "MUL", qout |-> "QUANTIZE", out |-> "MATMUL",
         weight |-> "MEM_REF", token |-> "MEM_REF", logits |-> "MEM_REF"]

HeadKinds == {"embed", "token", "mask", "tableq", "tablek"}
TailKinds == {"norm3", "mul3", "qout", "out", "logits"}
LayerKinds == DOMAIN OpOf \ (HeadKinds \union TailKinds \union {"weight"})
Weighted == {k \in DOMAIN OpOf : OpOf[k] \in {"MUL", "MATMUL"}}

ModelNodes ==
    {<<k, l>> : k \in LayerKinds, l \in Layers}
    \union {<<k, 0>> : k \in HeadKinds \union TailKinds}
    \union {<<"weight", k, l>> : k \in Weighted \ TailKinds, l \in Layers}
    \union {<<"weight", k, 0>> : k \in {"embed"} \union (Weighted \cap TailKinds)}

Kind(n) == n[1]
Op(n) == CASE Kind(n) = "copy"    -> "MEM_CPY"
           [] Kind(n) = "recycle" -> "MEM_RECYCLE"
           [] OTHER               -> OpOf[Kind(n)]

-----------------------------------------------------------------------------
(* What a node of kind k in layer l reads: its operand, ...                *)
Operand(s, k, l) ==
    LET Of(j) == <<j, l>>
        x == IF l = 0 THEN <<"embed", 0>> ELSE <<"res", l - 1>>
    IN  CASE k = "norm1" -> x
          [] k = "mul1"  -> Of("norm1")
          [] k \in {"qq", "qk", "qv"} -> Of("mul1")
          [] k = "mq"    -> IF s.quant THEN Of("qq") ELSE Of("mul1")
          [] k = "mk"    -> IF s.quant THEN Of("qk") ELSE Of("mul1")
          [] k = "mv"    -> IF s.quant THEN Of("qv") ELSE Of("mul1")
          [] k = "rq"    -> Of("mq")
          [] k = "rk"    -> Of("mk")
          [] k = "rv"    -> Of("mv")
          [] k = "nq"    -> Of("rq")
          [] k = "uq"    -> Of("nq")
          [] k = "nk"    -> Of("rk")
          [] k = "uk"    -> Of("nk")
          [] k = "sk"    -> Of("uk")
          [] k = "sv"    -> Of("rv")
          [] k = "gk"    -> Of("sk")
          [] k = "gv"    -> Of("sv")
          [] k = "cq"    -> Of("uq")
          [] k = "pq"    -> IF s.fp16 THEN Of("cq") ELSE Of("uq")
          [] k = "pk"    -> Of("gk")
          [] k = "ra"    -> Of("att")
          [] k = "qo"    -> Of("ra")
          [] k = "mo"    -> IF s.quant THEN Of("qo") ELSE Of("ra")
          [] k = "inp"   -> x
          [] k = "norm2" -> Of("inp")
          [] k = "mul2"  -> Of("norm2")
          [] k \in {"qu", "qg"} -> Of("mul2")
          [] k = "up"    -> IF s.quant THEN Of("qu") ELSE Of("mul2")
          [] k = "gate"  -> IF s.quant THEN Of("qg") ELSE Of("mul2")
          [] k = "qd"    -> Of("act")
          [] k = "down"  -> IF s.quant THEN Of("qd") ELSE Of("act")
          [] k = "norm3" -> <<"res", NLayers - 1>>
          [] k = "mul3"  -> Of("norm3")
          [] k = "qout"  -> Of("mul3")
          [] k = "out"   -> IF s.quant THEN Of("qout") ELSE Of("mul3")
          [] k = "logits" -> Of("out")

(* ... and all of its inputs, in the order of add_input_node.              *)
ModelInputs(s, n) ==
    LET k == Kind(n)
        l == n[2]
        Of(j) == <<j, l>>
    IN  CASE k \in {"weight", "token", "mask", "tableq", "tablek"} -> << >>
          [] k = "embed" -> <<<<"weight", "embed", 0>>, <<"token", 0>>>>
          [] k \in Weighted -> <<Operand(s, k, l), <<"weight", k, l>>>>
          [] k = "pq" /\ l = 0 -> <<<<"tableq", 0>>, Operand(s, k, l)>>
          [] k = "pk" /\ l = 0 -> <<<<"tablek", 0>>, Operand(s, k, l)>>
          [] k = "att" -> (IF l = 0 /\ ~ s.decode THEN <<<<"mask", 0>>>> ELSE << >>)
                          \o <<Of("pq"), Of("pk"), Of("gv")>>
          [] k = "inp" -> <<Of("mo"), Operand(s, k, l)>>
          [] k = "act" -> <<Of("gate"), Of("up")>>
          [] k = "res" -> <<Of("inp"), Of("down")>>
          [] OTHER -> <<Operand(s, k, l)>>

(* The tensor of a node, named after the node that computes it: a reshape  *)
(* has that of its input, and all tables are _rope_table.                  *)
Table == <<"table", 0>>
TensorOf(s, n) ==
    IF Op(n) = "RESHAPE" THEN Operand(s, Kind(n), n[2])
    ELSE IF Op(n) = "PRE_ROPE_TABLE" THEN Table ELSE n

(* The tensors among the parameters of a node's builder, by their names.   *)
ModelParams(s, n) ==
    LET k == Kind(n)
        T(m) == TensorOf(s, m)
        x == T(Operand(s, k, n[2]))
        Of(j) == T(<<j, n[2]>>)
    IN  CASE k \in {"weight", "token", "mask", "tableq", "tablek"} -> [p \in {} |-> n]
          [] k = "embed" -> [weight |-> <<"weight", "embed", 0>>, token |-> <<"token", 0>>]
          [] k \in Weighted -> [x |-> x, weight |-> <<"weight", k, n[2]>>]
          [] Op(n) = "ROPE" -> [in |-> x, table |-> Table]
          [] k = "att" -> [q |-> Of("pq"), k |-> Of("pk"), v |-> Of("gv"), mask |-> <<"mask", 0>>]
          [] k = "inp" -> [x1 |-> Of("mo"), x2 |-> x]
          [] k = "act" -> [x1 |-> Of("gate"), x2 |-> Of("up")]
          [] k = "res" -> [x1 |-> Of("inp"), x2 |-> Of("down")]
          [] OTHER -> [in |-> x]

(* Mutant: a product is computed where its operand is. *)
MutModelDevice(s, n) ==
    CASE Kind(n) \in {"mask", "table"} -> 1
      [] Kind(n) = "weight" /\ n # <<"weight", "embed", 0>> -> BindDevice(s.free, n[3])
      [] OTHER -> CPU

(* The device of the tensor a node computes: that of the weight for a      *)
(* product, else that of the first operand; mask and table are on the      *)
(* first GPU, the weights of the output where layer 0 is.                  *)
ModelDevice(s, n) ==
    LET k == Kind(n)
        l == n[IF Kind(n) = "weight" THEN 3 ELSE 2]
    IN  CASE k \in {"embed", "token", "logits"} \/ n = <<"weight", "embed", 0>> -> CPU
          [] k \in {"mask", "table"} -> 1
          [] k \in {"norm1", "mul1", "qq", "qk", "qv"} ->
                 IF l = 0 THEN CPU ELSE BindDevice(s.free, l - 1)
          [] k \in {"norm3", "mul3", "qout"} -> BindDevice(s.free, NLayers - 1)
          [] OTHER -> BindDevice(s.free, l)

(* The layer of a node is that of the last input it was given; the input   *)
(* of a layer is counted to it, the output and its weights to layer 0.     *)
ModelLayer(n) ==
    LET k == Kind(n)
    IN  CASE k = "weight" -> n[3]
          [] k = "norm3" -> NLayers - 1
          [] k = "res" /\ n[2] < NLayers - 1 -> n[2] + 1
          [] OTHER -> n[2]

=============================================================================
