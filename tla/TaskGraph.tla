-------------------------------- MODULE TaskGraph --------------------------------
(***************************************************************************)
(* The task flow of LLMTaskFlowManager and HybridScheduler: one host task  *)
(* per node of a graph, run by the workers of an executor in the order of  *)
(* the edges.  The task of a device node only enqueues its kernel, on the  *)
(* node's own stream, between waits for the events of its inputs and the   *)
(* record of its own event; the task ends long before the kernel does.     *)
(* The task of a host node computes, and the CPU's MEM_CPY copies from the *)
(* device with a cudaMemcpy that waits for what is enqueued so far.  run() *)
(* waits for the host tasks and is called again and again (decode).        *)
(***************************************************************************)
EXTENDS Integers, FiniteSets

CONSTANTS Nodes,      \* nodes of the graph
          Inputs(_),  \* input_nodes() of a node
          Device,     \* nodes whose tensor is on the device
          Copies,     \* MEM_CPY nodes of the CPU
          Out,        \* the output node, the one infer reads
          Workers,    \* threads of the executor
          Runs        \* bound: calls of run()

ASSUME GraphAssumption ==
    /\ \A n \in Nodes : Inputs(n) \subseteq Nodes
    /\ Device \subseteq Nodes /\ Copies \subseteq Nodes \ Device

(* device_placement_opt puts a copy between a node of the CPU and what it  *)
(* reads of a device.  The output is the logits on the CPU.                *)
ASSUME PlacementAssumption ==
    /\ Out \in Nodes \ Device
    /\ \A n \in Nodes \ (Device \union Copies) : Inputs(n) \cap Device = {}

(* A graph is what can be reached from its output: a set of nodes with the *)
(* output in it and with the inputs of its nodes is the whole graph.       *)
ASSUME ReachedAssumption ==
    \A S \in SUBSET Nodes :
        (Out \in S /\ \A n \in S : Inputs(n) \subseteq S) => S = Nodes

ASSUME WorkersAssumption == Workers \in Nat \ {0}
ASSUME RunsAssumption    == Runs \in Nat

VARIABLES
    run,       \* calls of run() so far
    active,    \* a call of run() waits for its tasks
    phase,     \* where the host task of a node is in this run
    launched,  \* how often a node's computation was started or enqueued
    running,   \* a node's computation is being done
    done,      \* how often a node's computation was done
    recorded,  \* the kernel the event of a node was last recorded after
    captured,  \* captured[n][k][i]: what kernel k of n waits for of i's kernels
    fence      \* fence[n][m]: what the copy of n waits for of m's kernels

vars == <<run, active, phase, launched, running, done, recorded, captured, fence>>

Init ==
    /\ run = 0 /\ active = FALSE
    /\ phase = [n \in Nodes |-> "idle"]
    /\ launched = [n \in Nodes |-> 0]
    /\ running = [n \in Nodes |-> FALSE]
    /\ done = [n \in Nodes |-> 0]
    /\ recorded = [n \in Nodes |-> 0]
    /\ captured = [n \in Nodes |-> [k \in 1 .. Runs |-> [i \in Nodes |-> 0]]]
    /\ fence = [n \in Nodes |-> [m \in Nodes |-> 0]]

(* Mutant: a run more. *)
MutRunStart ==
    /\ ~ active
    /\ active' = TRUE /\ run' = run + 1
    /\ phase' = [n \in Nodes |-> "idle"]
    /\ UNCHANGED <<launched, running, done, recorded, captured, fence>>

RunStart ==
    /\ ~ active /\ run < Runs
    /\ active' = TRUE /\ run' = run + 1
    /\ phase' = [n \in Nodes |-> "idle"]
    /\ UNCHANGED <<launched, running, done, recorded, captured, fence>>

(* wait_until_completion *)
RunEnd ==
    /\ active /\ \A n \in Nodes : phase[n] = "ended"
    /\ active' = FALSE
    /\ UNCHANGED <<run, phase, launched, running, done, recorded, captured, fence>>

-----------------------------------------------------------------------------
(* Host tasks *)
Busy == {n \in Nodes : phase[n] \notin {"idle", "ended"}}

Ready(n) == \A i \in Inputs(n) : phase[i] = "ended"

(* Mutant: the stream waits for no event. *)
MutBeforeHook(n) ==
    /\ active /\ phase[n] = "idle" /\ Ready(n) /\ Cardinality(Busy) < Workers
    /\ phase' = [phase EXCEPT ![n] = "hooked"]
    /\ UNCHANGED <<run, active, launched, running, done, recorded, captured, fence>>

(* op_before_hook: a wait means the last record made so far, and no wait   *)
(* when there was none.  The events and streams of the CPU do nothing.     *)
BeforeHook(n) ==
    /\ active /\ phase[n] = "idle" /\ Ready(n) /\ Cardinality(Busy) < Workers
    /\ phase' = [phase EXCEPT ![n] = "hooked"]
    /\ captured' = [captured EXCEPT ![n][launched[n] + 1] =
                       [i \in Nodes |-> IF n \in Device /\ i \in Inputs(n) \cap Device
                                        THEN recorded[i] ELSE 0]]
    /\ UNCHANGED <<run, active, launched, running, done, recorded, fence>>

(* The computation of a device node is enqueued, ... *)
Enqueue(n) ==
    /\ n \in Device /\ phase[n] = "hooked"
    /\ phase' = [phase EXCEPT ![n] = "computed"]
    /\ launched' = [launched EXCEPT ![n] = @ + 1]
    /\ UNCHANGED <<run, active, running, done, recorded, captured, fence>>

(* ... a CPU node computes, ... *)
Compute(n) ==
    /\ n \notin Device \union Copies /\ phase[n] = "hooked"
    /\ phase' = [phase EXCEPT ![n] = "computing"]
    /\ launched' = [launched EXCEPT ![n] = @ + 1]
    /\ running' = [running EXCEPT ![n] = TRUE]
    /\ UNCHANGED <<run, active, done, recorded, captured, fence>>

(* Mutant: the copy waits for the kernel of this run of every device      *)
(* node, of those too whose task has not had a worker yet.                 *)
MutCallMemcpy(n) ==
    /\ n \in Copies /\ phase[n] = "hooked"
    /\ phase' = [phase EXCEPT ![n] = "fenced"]
    /\ launched' = [launched EXCEPT ![n] = @ + 1]
    /\ fence' = [fence EXCEPT ![n] = [m \in Nodes |-> IF m \in Device THEN run ELSE 0]]
    /\ UNCHANGED <<run, active, running, done, recorded, captured>>

(* ... and the CPU's MEM_CPY calls cudaMemcpy, which belongs to the legacy *)
(* default stream: what other streams were given before comes first.       *)
CallMemcpy(n) ==
    /\ n \in Copies /\ phase[n] = "hooked"
    /\ phase' = [phase EXCEPT ![n] = "fenced"]
    /\ launched' = [launched EXCEPT ![n] = @ + 1]
    /\ fence' = [fence EXCEPT ![n] = [m \in Nodes |-> IF m \in Device THEN launched[m] ELSE 0]]
    /\ UNCHANGED <<run, active, running, done, recorded, captured>>

(* Mutant: the copy does not wait, as memcpy_async would. *)
MutCopy(n) ==
    /\ phase[n] = "fenced"
    /\ phase' = [phase EXCEPT ![n] = "computing"]
    /\ running' = [running EXCEPT ![n] = TRUE]
    /\ UNCHANGED <<run, active, launched, done, recorded, captured, fence>>

Copy(n) ==
    /\ phase[n] = "fenced" /\ \A m \in Device : done[m] >= fence[n][m]
    /\ phase' = [phase EXCEPT ![n] = "computing"]
    /\ running' = [running EXCEPT ![n] = TRUE]
    /\ UNCHANGED <<run, active, launched, done, recorded, captured, fence>>

Computed(n) ==
    /\ phase[n] = "computing"
    /\ phase' = [phase EXCEPT ![n] = "computed"]
    /\ running' = [running EXCEPT ![n] = FALSE]
    /\ done' = [done EXCEPT ![n] = @ + 1]
    /\ UNCHANGED <<run, active, launched, recorded, captured, fence>>

(* op_after_hook, and the end of the task. *)
AfterHook(n) ==
    /\ phase[n] = "computed"
    /\ phase' = [phase EXCEPT ![n] = "ended"]
    /\ recorded' = [recorded EXCEPT ![n] = IF n \in Device THEN launched[n] ELSE @]
    /\ UNCHANGED <<run, active, launched, running, done, captured, fence>>

Task(n) ==
    \/ BeforeHook(n)
    \/ Enqueue(n)
    \/ Compute(n)
    \/ CallMemcpy(n)
    \/ Copy(n)
    \/ Computed(n)
    \/ AfterHook(n)

-----------------------------------------------------------------------------
(* Streams: the kernels of a node follow each other, each one after the    *)
(* kernels it waits for.                                                   *)
KernelStart(n) ==
    /\ n \in Device /\ ~ running[n] /\ done[n] < launched[n]
    /\ \A i \in Nodes : done[i] >= captured[n][done[n] + 1][i]
    /\ running' = [running EXCEPT ![n] = TRUE]
    /\ UNCHANGED <<run, active, phase, launched, done, recorded, captured, fence>>

KernelEnd(n) ==
    /\ n \in Device /\ running[n]
    /\ running' = [running EXCEPT ![n] = FALSE]
    /\ done' = [done EXCEPT ![n] = @ + 1]
    /\ UNCHANGED <<run, active, phase, launched, recorded, captured, fence>>

Stream(n) == KernelStart(n) \/ KernelEnd(n)

Finished == ~ active /\ run = Runs /\ UNCHANGED vars

Next ==
    \/ RunStart
    \/ RunEnd
    \/ \E n \in Nodes : Task(n)
    \/ \E n \in Nodes : Stream(n)
    \/ Finished

Spec == Init /\ [][Next]_vars

(* The workers take the tasks that are ready and go on with them, the      *)
(* device works on its streams, and the caller of run() waits.             *)
FairSpec ==
    /\ Spec
    /\ WF_vars(RunEnd)
    /\ \A n \in Nodes : WF_vars(Task(n)) /\ WF_vars(Stream(n))

-----------------------------------------------------------------------------
Phases == {"idle", "hooked", "fenced", "computing", "computed", "ended"}

(* A task is in a phase of its callback's wrapper; nothing is launched,    *)
(* recorded or done more often than there are runs.                        *)
TypeOK ==
    /\ run \in 0 .. Runs
    /\ active \in BOOLEAN
    /\ phase \in [Nodes -> Phases]
    /\ launched \in [Nodes -> 0 .. Runs]
    /\ running \in [Nodes -> BOOLEAN]
    /\ done \in [Nodes -> 0 .. Runs]
    /\ recorded \in [Nodes -> 0 .. Runs]
    /\ captured \in [Nodes -> [1 .. Runs -> [Nodes -> 0 .. Runs]]]
    /\ fence \in [Nodes -> [Nodes -> 0 .. Runs]]

(* While a node computes for the k-th time, on the host or on the device,  *)
(* each of its inputs has been computed k times and is not being computed  *)
(* again: a kernel reads the results of this run, complete, and nobody     *)
(* overwrites them under it, although no host task waits for a kernel and  *)
(* the events of a node are recorded anew in every run.                    *)
InputsReady ==
    \A n \in Nodes : running[n] =>
        \A i \in Inputs(n) : done[i] = done[n] + 1 /\ ~ running[i]

(* When run() returns everything it started is over, on the device too,    *)
(* and has been done once per run: infer may read the logits, fill the     *)
(* inputs of the next run and write over any tensor.                       *)
RunIsComplete ==
    ~ active => \A n \in Nodes : done[n] = run /\ ~ running[n]

(* run() returns: no task waits forever for its inputs, for a worker or,   *)
(* on the worker of a copy, for kernels, although copies may hold every    *)
(* worker while tasks that would enqueue further kernels have none.        *)
RunReturns == active ~> ~ active

=============================================================================
