---------------------------- MODULE MCGraphOptimizer ----------------------------
(* One GPU, two alike, and two that take different shares of the layers.  *)
EXTENDS GraphOptimizer

MCNodes == OptimizerNodes
GPUs == {<<1>>, <<1, 1>>, <<1, 2>>}
=============================================================================
