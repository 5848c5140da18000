----------------------------- MODULE TaskGraphProofs -----------------------------
(***************************************************************************)
(* A node computes on the results of its inputs of the same run, and run() *)
(* returns when everything it started is over: for every graph, any number *)
(* of workers and of runs.                                                 *)
(*                                                                         *)
(* The inductive invariant follows one run.  It says how many computations *)
(* of a node were started and done at each phase of its host task, that a  *)
(* task which has begun comes after the tasks of its inputs, and that what *)
(* a kernel or a copy waits for is the inputs' kernels of this run.  The   *)
(* last part, Reads, is closed under inputs: a node whose computation of   *)
(* this run is done has inputs that are done.  When the output is done,    *)
(* ReachedAssumption makes that the whole graph, kernels that no host task *)
(* ever waited for included.                                               *)
(***************************************************************************)
EXTENDS TaskGraph, TLAPS

StartedAt(n) ==
    /\ phase[n] \in {"idle", "hooked"} =>
           launched[n] = run - 1 /\ done[n] = run - 1 /\ ~ running[n]
    /\ phase[n] = "fenced" =>
           n \in Copies /\ launched[n] = run /\ done[n] = run - 1 /\ ~ running[n]
    /\ phase[n] = "computing" =>
           n \notin Device /\ launched[n] = run /\ done[n] = run - 1 /\ running[n]
    /\ phase[n] \in {"computed", "ended"} =>
           /\ launched[n] = run
           /\ \/ done[n] = run /\ ~ running[n]
              \/ n \in Device /\ done[n] = run - 1
    /\ phase[n] = "ended" /\ n \in Device => recorded[n] = run

Started == \A n \in Nodes : StartedAt(n)

Ordered == \A n \in Nodes : phase[n] # "idle" => Ready(n)

Awaited ==
    /\ \A n \in Device : phase[n] # "idle" =>
           \A i \in Inputs(n) \cap Device : captured[n][run][i] = run
    /\ \A n \in Copies : phase[n] = "fenced" =>
           \A i \in Inputs(n) \cap Device : fence[n][i] = run

Reads == \A n \in Nodes : running[n] \/ done[n] = run => \A i \in Inputs(n) : done[i] = run

IInv ==
    /\ TypeOK
    /\ active => run > 0 /\ Started /\ Ordered /\ Awaited /\ Reads
    /\ ~ active => \A n \in Nodes : /\ phase[n] \in {"idle", "ended"}
                                   /\ launched[n] = run /\ done[n] = run /\ ~ running[n]

-----------------------------------------------------------------------------
(* What a host task that begins finds: its inputs are launched, and those  *)
(* that are not the device's are done.                                     *)
LEMMA InputsLaunched ==
    ASSUME TypeOK, Started, NEW n \in Nodes, Ready(n)
    PROVE  \A i \in Inputs(n) :
             /\ i \in Nodes /\ launched[i] = run
             /\ i \in Device => recorded[i] = run
             /\ i \notin Device => done[i] = run
  BY GraphAssumption DEF Started, StartedAt, Ready

LEMMA BeforeHookStep ==
    ASSUME IInv, NEW n \in Nodes, BeforeHook(n)
    PROVE  IInv'
<1>1. /\ active /\ active' = active /\ run > 0 /\ Started /\ Ordered /\ Awaited /\ Reads
      /\ phase[n] = "idle" /\ Ready(n) /\ phase' = [phase EXCEPT ![n] = "hooked"]
      /\ UNCHANGED <<run, launched, running, done, recorded, fence>>
  BY DEF IInv, BeforeHook
<1>2. run \in 1 .. Runs /\ launched[n] + 1 = run
  BY <1>1, RunsAssumption DEF Started, StartedAt, IInv, TypeOK
<1> DEFINE row == [i \in Nodes |-> IF n \in Device /\ i \in Inputs(n) \cap Device
                                   THEN recorded[i] ELSE 0]
<1>3. /\ \A m \in Nodes \ {n} : captured'[m] = captured[m] /\ phase'[m] = phase[m]
      /\ captured'[n][run] = row
      /\ phase'[n] = "hooked"
  <2>1. captured' = [captured EXCEPT ![n] = [captured[n] EXCEPT ![run] = row]]
    BY <1>2 DEF BeforeHook
  <2>2. /\ captured \in [Nodes -> [1 .. Runs -> [Nodes -> 0 .. Runs]]]
        /\ phase \in [Nodes -> Phases]
    BY DEF IInv, TypeOK
  <2>3. captured[n] \in [1 .. Runs -> [Nodes -> 0 .. Runs]]
    BY <2>2
  <2> HIDE DEF row
  <2>4. [captured[n] EXCEPT ![run] = row][run] = row
    BY <1>2, <2>3
  <2>5. captured'[n] = [captured[n] EXCEPT ![run] = row]
    BY <2>1, <2>2
  <2>6. \A m \in Nodes \ {n} : captured'[m] = captured[m]
    BY <2>1, <2>2
  <2> QED
    BY <1>1, <2>2, <2>4, <2>5, <2>6
<1>4. captured' \in [Nodes -> [1 .. Runs -> [Nodes -> 0 .. Runs]]]
  <2>1. row \in [Nodes -> 0 .. Runs]
    BY RunsAssumption DEF IInv, TypeOK
  <2>2. captured' = [captured EXCEPT ![n][run] = row]
    BY <1>2 DEF BeforeHook
  <2> QED
    BY <1>2, <2>1, <2>2 DEF IInv, TypeOK
<1>5. TypeOK'
  BY <1>1, <1>4 DEF IInv, TypeOK, Phases
<1>6. Started'
  BY <1>1, <1>3 DEF Started, StartedAt
<1>7. Ordered'
  BY <1>1, <1>3, GraphAssumption DEF Ordered, Ready
<1>8. Awaited'
  <2>1. \A m \in Device : phase'[m] # "idle" =>
            \A i \in Inputs(m) \cap Device : captured'[m][run][i] = run
    <3> SUFFICES ASSUME NEW m \in Device, phase'[m] # "idle",
                        NEW i \in Inputs(m) \cap Device
                 PROVE  captured'[m][run][i] = run
      OBVIOUS
    <3>1. CASE m = n
      BY <1>1, <1>3, <3>1, InputsLaunched DEF IInv
    <3>2. CASE m # n
      BY <1>1, <1>3, <3>2, GraphAssumption DEF Awaited
    <3> QED
      BY <3>1, <3>2
  <2>2. \A m \in Copies : phase'[m] = "fenced" =>
            \A i \in Inputs(m) \cap Device : fence'[m][i] = run
    BY <1>1, <1>3, GraphAssumption DEF Awaited
  <2> QED
    BY <1>1, <2>1, <2>2 DEF Awaited
<1>9. Reads'
  BY <1>1 DEF Reads
<1> QED
  BY <1>1, <1>5, <1>6, <1>7, <1>8, <1>9 DEF IInv

(* A task that has begun goes on only in a run. *)
LEMMA TaskInRun ==
    ASSUME IInv, NEW n \in Nodes, phase[n] \notin {"idle", "ended"}
    PROVE  /\ active /\ run \in 1 .. Runs /\ Ready(n)
           /\ Started /\ Ordered /\ Awaited /\ Reads
<1>1. active
  BY DEF IInv
<1> QED
  BY <1>1, RunsAssumption DEF IInv, TypeOK, Ordered

LEMMA OrderedStays ==
    ASSUME Ordered, phase \in [Nodes -> Phases], NEW n \in Nodes, NEW p,
           phase[n] \notin {"idle", "ended"}, phase' = [phase EXCEPT ![n] = p]
    PROVE  Ordered'
  BY GraphAssumption DEF Ordered, Ready

LEMMA EnqueueStep ==
    ASSUME IInv, NEW n \in Nodes, Enqueue(n)
    PROVE  IInv'
<1>1. /\ active' = active /\ n \in Device /\ phase[n] = "hooked"
      /\ phase' = [phase EXCEPT ![n] = "computed"]
      /\ launched' = [launched EXCEPT ![n] = launched[n] + 1]
      /\ UNCHANGED <<run, running, done, recorded, captured, fence>>
  BY DEF Enqueue
<1>2. /\ active /\ run \in 1 .. Runs /\ Started /\ Ordered /\ Awaited /\ Reads
  BY <1>1, TaskInRun
<1>3. launched[n] + 1 = run /\ done[n] = run - 1 /\ ~ running[n]
  BY <1>1, <1>2 DEF Started, StartedAt
<1>4. TypeOK'
  BY <1>1, <1>2, <1>3, RunsAssumption DEF IInv, TypeOK, Phases
<1>5. Started'
  BY <1>1, <1>2, <1>3, GraphAssumption DEF Started, StartedAt, IInv, TypeOK
<1>6. Ordered'
  BY <1>1, <1>2, OrderedStays DEF IInv, TypeOK
<1>7. Awaited' /\ Reads'
  BY <1>1, <1>2, GraphAssumption DEF Awaited, Reads, IInv, TypeOK
<1> QED
  BY <1>1, <1>2, <1>4, <1>5, <1>6, <1>7 DEF IInv

LEMMA ComputeStep ==
    ASSUME IInv, NEW n \in Nodes, Compute(n)
    PROVE  IInv'
<1>1. /\ active' = active /\ n \notin Device \union Copies /\ phase[n] = "hooked"
      /\ phase' = [phase EXCEPT ![n] = "computing"]
      /\ launched' = [launched EXCEPT ![n] = launched[n] + 1]
      /\ running' = [running EXCEPT ![n] = TRUE]
      /\ UNCHANGED <<run, done, recorded, captured, fence>>
  BY DEF Compute
<1>2. /\ active /\ run \in 1 .. Runs /\ Ready(n) /\ Started /\ Ordered /\ Awaited /\ Reads
  BY <1>1, TaskInRun
<1>3. launched[n] + 1 = run /\ done[n] = run - 1
  BY <1>1, <1>2 DEF Started, StartedAt
<1>4. TypeOK'
  BY <1>1, <1>2, <1>3, RunsAssumption DEF IInv, TypeOK, Phases
<1>5. Started'
  BY <1>1, <1>2, <1>3, GraphAssumption DEF Started, StartedAt, IInv, TypeOK
<1>6. Ordered'
  BY <1>1, <1>2, OrderedStays DEF IInv, TypeOK
<1>7. Awaited'
  BY <1>1, <1>2, GraphAssumption DEF Awaited, IInv, TypeOK
<1>8. \A i \in Inputs(n) : done[i] = run
  BY <1>1, <1>2, InputsLaunched, PlacementAssumption DEF IInv
<1>9. Reads'
  BY <1>1, <1>2, <1>8 DEF Reads, IInv, TypeOK
<1> QED
  BY <1>1, <1>2, <1>4, <1>5, <1>6, <1>7, <1>9 DEF IInv

LEMMA CallMemcpyStep ==
    ASSUME IInv, NEW n \in Nodes, CallMemcpy(n)
    PROVE  IInv'
<1>1. /\ active' = active /\ n \in Copies /\ phase[n] = "hooked"
      /\ phase' = [phase EXCEPT ![n] = "fenced"]
      /\ launched' = [launched EXCEPT ![n] = launched[n] + 1]
      /\ fence' = [fence EXCEPT ![n] = [m \in Nodes |-> IF m \in Device THEN launched[m] ELSE 0]]
      /\ UNCHANGED <<run, running, done, recorded, captured>>
  BY DEF CallMemcpy
<1>2. /\ active /\ run \in 1 .. Runs /\ Ready(n) /\ Started /\ Ordered /\ Awaited /\ Reads
  BY <1>1, TaskInRun
<1>3. launched[n] + 1 = run /\ done[n] = run - 1 /\ ~ running[n]
  BY <1>1, <1>2 DEF Started, StartedAt
<1>4. TypeOK'
  <2>1. [m \in Nodes |-> IF m \in Device THEN launched[m] ELSE 0] \in [Nodes -> 0 .. Runs]
    BY RunsAssumption DEF IInv, TypeOK
  <2>2. fence' \in [Nodes -> [Nodes -> 0 .. Runs]]
    BY <1>1, <2>1 DEF IInv, TypeOK
  <2> QED
    BY <1>1, <1>2, <1>3, <2>2, RunsAssumption DEF IInv, TypeOK, Phases
<1>5. Started'
  BY <1>1, <1>2, <1>3, GraphAssumption DEF Started, StartedAt, IInv, TypeOK
<1>6. Ordered'
  BY <1>1, <1>2, OrderedStays DEF IInv, TypeOK
<1>7. \A i \in Inputs(n) \cap Device : fence'[n][i] = run
  BY <1>1, <1>2, InputsLaunched DEF IInv, TypeOK
<1>8. Awaited'
  BY <1>1, <1>2, <1>7, GraphAssumption DEF Awaited, IInv, TypeOK
<1>9. Reads'
  BY <1>1, <1>2 DEF Reads
<1> QED
  BY <1>1, <1>2, <1>4, <1>5, <1>6, <1>8, <1>9 DEF IInv

LEMMA CopyStep ==
    ASSUME IInv, NEW n \in Nodes, Copy(n)
    PROVE  IInv'
<1>1. /\ active' = active /\ phase[n] = "fenced"
      /\ \A m \in Device : done[m] >= fence[n][m]
      /\ phase' = [phase EXCEPT ![n] = "computing"]
      /\ running' = [running EXCEPT ![n] = TRUE]
      /\ UNCHANGED <<run, launched, done, recorded, captured, fence>>
  BY DEF Copy
<1>2. /\ active /\ run \in 1 .. Runs /\ Ready(n) /\ Started /\ Ordered /\ Awaited /\ Reads
  BY <1>1, TaskInRun
<1>3. n \in Copies /\ n \notin Device /\ launched[n] = run /\ done[n] = run - 1
  BY <1>1, <1>2, GraphAssumption DEF Started, StartedAt
<1>4. TypeOK'
  BY <1>1 DEF IInv, TypeOK, Phases
<1>5. Started'
  BY <1>1, <1>2, <1>3, GraphAssumption DEF Started, StartedAt, IInv, TypeOK
<1>6. Ordered'
  BY <1>1, <1>2, OrderedStays DEF IInv, TypeOK
<1>7. Awaited'
  BY <1>1, <1>2, GraphAssumption DEF Awaited, IInv, TypeOK
<1>8. \A i \in Inputs(n) : done[i] = run
  <2> SUFFICES ASSUME NEW i \in Inputs(n) PROVE done[i] = run
    OBVIOUS
  <2>1. i \in Nodes /\ launched[i] = run /\ (i \notin Device => done[i] = run)
    BY <1>2, InputsLaunched DEF IInv
  <2>2. phase[i] = "ended"
    BY <1>2 DEF Ready
  <2>3. done[i] = run \/ done[i] = run - 1
    BY <1>2, <2>1, <2>2 DEF Started, StartedAt
  <2>4. i \in Device => done[i] >= run
    BY <1>1, <1>2, <1>3 DEF Awaited
  <2> QED
    BY <1>2, <2>1, <2>3, <2>4
<1>9. Reads'
  BY <1>1, <1>2, <1>8 DEF Reads, IInv, TypeOK
<1> QED
  BY <1>1, <1>2, <1>4, <1>5, <1>6, <1>7, <1>9 DEF IInv

LEMMA ComputedStep ==
    ASSUME IInv, NEW n \in Nodes, Computed(n)
    PROVE  IInv'
<1>1. /\ active' = active /\ phase[n] = "computing"
      /\ phase' = [phase EXCEPT ![n] = "computed"]
      /\ running' = [running EXCEPT ![n] = FALSE]
      /\ done' = [done EXCEPT ![n] = done[n] + 1]
      /\ UNCHANGED <<run, launched, recorded, captured, fence>>
  BY DEF Computed
<1>2. /\ active /\ run \in 1 .. Runs /\ Started /\ Ordered /\ Awaited /\ Reads
  BY <1>1, TaskInRun
<1>3. n \notin Device /\ launched[n] = run /\ done[n] + 1 = run /\ running[n]
  BY <1>1, <1>2 DEF Started, StartedAt
<1>4. TypeOK'
  BY <1>1, <1>2, <1>3, RunsAssumption DEF IInv, TypeOK, Phases
<1>5. Started'
  <2>1. \A m \in Nodes \ {n} : /\ phase'[m] = phase[m] /\ running'[m] = running[m]
                                /\ done'[m] = done[m]
    BY <1>1 DEF IInv, TypeOK
  <2>2. phase'[n] = "computed" /\ ~ running'[n] /\ done'[n] = run
    BY <1>1, <1>3 DEF IInv, TypeOK
  <2>3. UNCHANGED <<run, launched, recorded>> /\ Started
    BY <1>1, <1>2
  <2> SUFFICES ASSUME NEW m \in Nodes
               PROVE  StartedAt(m)'
    BY DEF Started
  <2>4. CASE m = n
    BY <1>1, <1>3, <2>2, <2>3, <2>4 DEF Started, StartedAt
  <2>5. CASE m # n
    BY <1>1, <2>1, <2>3, <2>5 DEF Started, StartedAt
  <2> QED
    BY <2>4, <2>5
<1>6. Ordered'
  BY <1>1, <1>2, OrderedStays DEF IInv, TypeOK
<1>7. Awaited'
  BY <1>1, <1>2, GraphAssumption DEF Awaited, IInv, TypeOK
<1>8. Reads'
  BY <1>1, <1>2, <1>3, GraphAssumption DEF Reads, IInv, TypeOK
<1> QED
  BY <1>1, <1>2, <1>4, <1>5, <1>6, <1>7, <1>8 DEF IInv

LEMMA AfterHookStep ==
    ASSUME IInv, NEW n \in Nodes, AfterHook(n)
    PROVE  IInv'
<1>1. /\ active' = active /\ phase[n] = "computed"
      /\ phase' = [phase EXCEPT ![n] = "ended"]
      /\ recorded' = [recorded EXCEPT ![n] = IF n \in Device THEN launched[n] ELSE recorded[n]]
      /\ UNCHANGED <<run, launched, running, done, captured, fence>>
  BY DEF AfterHook
<1>2. /\ active /\ run \in 1 .. Runs /\ Started /\ Ordered /\ Awaited /\ Reads
  BY <1>1, TaskInRun
<1>3. launched[n] = run
  BY <1>1, <1>2 DEF Started, StartedAt
<1>4. TypeOK'
  BY <1>1 DEF IInv, TypeOK, Phases
<1>5. Started'
  BY <1>1, <1>2, <1>3, GraphAssumption DEF Started, StartedAt, IInv, TypeOK
<1>6. Ordered'
  BY <1>1, <1>2, OrderedStays DEF IInv, TypeOK
<1>7. Awaited' /\ Reads'
  BY <1>1, <1>2, GraphAssumption DEF Awaited, Reads, IInv, TypeOK
<1> QED
  BY <1>1, <1>2, <1>4, <1>5, <1>6, <1>7 DEF IInv

-----------------------------------------------------------------------------
(* A kernel that starts is the one enqueued in this run, and the kernels   *)
(* it has waited for are those of its inputs in this run.                  *)
LEMMA KernelStartStep ==
    ASSUME IInv, NEW n \in Nodes, KernelStart(n)
    PROVE  IInv'
<1>1. /\ active' = active /\ n \in Device /\ ~ running[n] /\ done[n] < launched[n]
      /\ \A i \in Nodes : done[i] >= captured[n][done[n] + 1][i]
      /\ running' = [running EXCEPT ![n] = TRUE]
      /\ UNCHANGED <<run, phase, launched, done, recorded, captured, fence>>
  BY DEF KernelStart
<1>2. active /\ run \in 1 .. Runs /\ Started /\ Ordered /\ Awaited /\ Reads
  <2>1. active
    BY <1>1 DEF IInv, TypeOK
  <2> QED
    BY <2>1, RunsAssumption DEF IInv, TypeOK
<1>3. phase[n] \in {"computed", "ended"} /\ launched[n] = run /\ done[n] = run - 1
  <2>1. phase[n] \in Phases
    BY DEF IInv, TypeOK
  <2>2. phase[n] \in {"computed", "ended"}
    BY <1>1, <1>2, <2>1, GraphAssumption DEF Started, StartedAt, Phases
  <2> QED
    BY <1>1, <1>2, <2>2 DEF Started, StartedAt
<1>4. TypeOK'
  BY <1>1 DEF IInv, TypeOK
<1>5. Started'
  BY <1>1, <1>2, <1>3 DEF Started, StartedAt, IInv, TypeOK
<1>6. Ordered' /\ Awaited'
  BY <1>1, <1>2 DEF Ordered, Ready, Awaited
<1>7. \A i \in Inputs(n) : done[i] = run
  <2> SUFFICES ASSUME NEW i \in Inputs(n) PROVE done[i] = run
    OBVIOUS
  <2>1. Ready(n)
    BY <1>2, <1>3 DEF Ordered
  <2>2. i \in Nodes /\ launched[i] = run /\ (i \notin Device => done[i] = run)
    BY <1>2, <2>1, InputsLaunched DEF IInv
  <2>3. done[i] = run \/ done[i] = run - 1
    BY <1>2, <2>1, <2>2 DEF Started, StartedAt, Ready
  <2>4. i \in Device => captured[n][run][i] = run
    BY <1>1, <1>2, <1>3 DEF Awaited
  <2>5. done[n] + 1 = run
    BY <1>2, <1>3
  <2> QED
    BY <1>1, <1>2, <2>2, <2>3, <2>4, <2>5
<1>8. Reads'
  BY <1>1, <1>2, <1>7 DEF Reads, IInv, TypeOK
<1> QED
  BY <1>1, <1>2, <1>4, <1>5, <1>6, <1>8 DEF IInv

LEMMA KernelEndStep ==
    ASSUME IInv, NEW n \in Nodes, KernelEnd(n)
    PROVE  IInv'
<1>1. /\ active' = active /\ n \in Device /\ running[n]
      /\ running' = [running EXCEPT ![n] = FALSE]
      /\ done' = [done EXCEPT ![n] = done[n] + 1]
      /\ UNCHANGED <<run, phase, launched, recorded, captured, fence>>
  BY DEF KernelEnd
<1>2. active /\ run \in 1 .. Runs /\ Started /\ Ordered /\ Awaited /\ Reads
  <2>1. active
    BY <1>1 DEF IInv
  <2> QED
    BY <2>1, RunsAssumption DEF IInv, TypeOK
<1>3. phase[n] \in {"computed", "ended"} /\ launched[n] = run /\ done[n] + 1 = run
  <2>1. phase[n] \in Phases
    BY DEF IInv, TypeOK
  <2>2. phase[n] \in {"computed", "ended"}
    BY <1>1, <1>2, <2>1 DEF Started, StartedAt, Phases
  <2> QED
    BY <1>1, <1>2, <2>2 DEF Started, StartedAt
<1>4. TypeOK'
  BY <1>1, <1>2, <1>3, RunsAssumption DEF IInv, TypeOK
<1>5. Started'
  <2>1. \A m \in Nodes \ {n} : running'[m] = running[m] /\ done'[m] = done[m]
    BY <1>1 DEF IInv, TypeOK
  <2>2. ~ running'[n] /\ done'[n] = run
    BY <1>1, <1>3 DEF IInv, TypeOK
  <2>3. UNCHANGED <<run, launched, recorded>> /\ Started
    BY <1>1, <1>2
  <2> SUFFICES ASSUME NEW m \in Nodes
               PROVE  StartedAt(m)'
    BY DEF Started
  <2>4. CASE m = n
    BY <1>1, <1>3, <2>2, <2>3, <2>4 DEF Started, StartedAt
  <2>5. CASE m # n
    BY <1>1, <2>1, <2>3, <2>5 DEF Started, StartedAt
  <2> QED
    BY <2>4, <2>5
<1>6. Ordered' /\ Awaited'
  BY <1>1, <1>2 DEF Ordered, Ready, Awaited
<1>7. Reads'
  BY <1>1, <1>2, <1>3, GraphAssumption DEF Reads, IInv, TypeOK
<1> QED
  BY <1>1, <1>2, <1>4, <1>5, <1>6, <1>7 DEF IInv

-----------------------------------------------------------------------------
LEMMA RunStartStep ==
    ASSUME IInv, RunStart
    PROVE  IInv'
<1>1. /\ ~ active /\ active' /\ run < Runs /\ run' = run + 1
      /\ phase' = [n \in Nodes |-> "idle"]
      /\ UNCHANGED <<launched, running, done, recorded, captured, fence>>
  BY DEF RunStart
<1>2. run \in Nat /\ \A n \in Nodes : launched[n] = run /\ done[n] = run /\ ~ running[n]
  BY <1>1 DEF IInv, TypeOK
<1>3. TypeOK'
  BY <1>1, <1>2, RunsAssumption DEF IInv, TypeOK, Phases
<1>4. Started' /\ Ordered' /\ Awaited' /\ Reads'
  BY <1>1, <1>2, GraphAssumption DEF Started, StartedAt, Ordered, Awaited, Reads
<1> QED
  BY <1>1, <1>2, <1>3, <1>4 DEF IInv

(* When all tasks have ended the output is done, and with it all there is. *)
LEMMA RunEndStep ==
    ASSUME IInv, RunEnd
    PROVE  IInv'
<1>1. /\ active /\ active' = FALSE /\ \A n \in Nodes : phase[n] = "ended"
      /\ UNCHANGED <<run, phase, launched, running, done, recorded, captured, fence>>
  BY DEF RunEnd, IInv, TypeOK
<1>2. run \in 1 .. Runs /\ Started /\ Reads
  BY <1>1, RunsAssumption DEF IInv, TypeOK
<1> DEFINE Complete == {n \in Nodes : done[n] = run}
<1>3. Out \in Complete
  BY <1>1, <1>2, PlacementAssumption DEF Started, StartedAt
<1>4. \A n \in Complete : Inputs(n) \subseteq Complete
  BY <1>2, GraphAssumption DEF Reads
<1>5. Complete = Nodes
  BY <1>3, <1>4, ReachedAssumption
<1>6. \A n \in Nodes : launched[n] = run /\ done[n] = run /\ ~ running[n]
  BY <1>1, <1>2, <1>5 DEF Started, StartedAt
<1>7. TypeOK'
  BY <1>1 DEF IInv, TypeOK
<1> QED
  BY <1>1, <1>6, <1>7 DEF IInv

LEMMA IInvInit == Init => IInv
<1> SUFFICES ASSUME Init PROVE IInv
  OBVIOUS
<1>1. run \in 0 .. Runs /\ 0 \in 0 .. Runs
  BY RunsAssumption DEF Init
<1>2. /\ [i \in Nodes |-> 0] \in [Nodes -> 0 .. Runs]
      /\ [k \in 1 .. Runs |-> [i \in Nodes |-> 0]] \in [1 .. Runs -> [Nodes -> 0 .. Runs]]
  BY <1>1
<1>3. captured \in [Nodes -> [1 .. Runs -> [Nodes -> 0 .. Runs]]]
  BY <1>2 DEF Init
<1>4. fence \in [Nodes -> [Nodes -> 0 .. Runs]]
  BY <1>2 DEF Init
<1>5. TypeOK
  BY <1>1, <1>3, <1>4 DEF Init, TypeOK, Phases
<1> QED
  BY <1>5 DEF Init, IInv

LEMMA IInvNext == IInv /\ [Next]_vars => IInv'
<1> SUFFICES ASSUME IInv, [Next]_vars PROVE IInv'
  OBVIOUS
<1>1. CASE RunStart
  BY <1>1, RunStartStep
<1>2. CASE RunEnd
  BY <1>2, RunEndStep
<1>3. ASSUME NEW n \in Nodes, Task(n) PROVE IInv'
  BY <1>3, BeforeHookStep, EnqueueStep, ComputeStep, CallMemcpyStep, CopyStep,
     ComputedStep, AfterHookStep DEF Task
<1>4. ASSUME NEW n \in Nodes, Stream(n) PROVE IInv'
  BY <1>4, KernelStartStep, KernelEndStep DEF Stream
<1>5. CASE UNCHANGED vars
  BY <1>5 DEF vars, IInv, TypeOK, Started, StartedAt, Ordered, Ready, Awaited, Reads
<1> QED
  BY <1>1, <1>2, <1>3, <1>4, <1>5 DEF Next, Finished

LEMMA IInvAlways == Spec => []IInv
  BY IInvInit, IInvNext, PTL DEF Spec

(* The variables keep their types. *)
THEOREM TypeCorrect == Spec => []TypeOK
<1>1. IInv => TypeOK
  BY DEF IInv
<1> QED
  BY <1>1, IInvAlways, PTL

(* A computation reads what its inputs computed in the same run, in full,  *)
(* and none of them is computed again meanwhile.                           *)
THEOREM InputsAreReady == Spec => []InputsReady
<1>1. IInv => InputsReady
  <2> SUFFICES ASSUME IInv, NEW n \in Nodes, running[n], NEW i \in Inputs(n)
               PROVE  done[i] = done[n] + 1 /\ ~ running[i]
    BY DEF InputsReady
  <2>1. active /\ run \in 1 .. Runs /\ Started /\ Reads
    BY RunsAssumption DEF IInv, TypeOK
  <2>2. i \in Nodes /\ done[i] = run
    BY <2>1, GraphAssumption DEF Reads
  <2>3. phase[n] \in Phases /\ phase[i] \in Phases
    BY <2>2 DEF IInv, TypeOK
  <2>4. done[n] = run - 1
    BY <2>1, <2>3 DEF Started, StartedAt, Phases
  <2>5. ~ running[i]
    BY <2>1, <2>2, <2>3 DEF Started, StartedAt, Phases
  <2> QED
    BY <2>1, <2>2, <2>4, <2>5
<1> QED
  BY <1>1, IInvAlways, PTL

(* run() leaves nothing behind that is still to be computed. *)
THEOREM RunsAreComplete == Spec => []RunIsComplete
<1>1. IInv => RunIsComplete
  BY DEF IInv, RunIsComplete
<1> QED
  BY <1>1, IInvAlways, PTL

=============================================================================
