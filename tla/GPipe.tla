-------------------------------- MODULE GPipe --------------------------------
(****************************************************************************)
(* GpipeAsync.sgd_iter (pipeline_parallel/dist_gpipe_pipeline_async.py) with *)
(* the optimizer steps of data_parallel/.                                    *)
(*                                                                          *)
(* A rank is <<d, r>>: stage r of replica d.  On the accelerator path its    *)
(* device runs four streams: "recv", "comp", "send" and "dp", each in the    *)
(* order of the calls; streams meet only through events.  On the Gloo path   *)
(* the host makes the sends and receives itself and waits for the device in  *)
(* each.  The work of an iteration is numbered by slots: for every           *)
(* accumulation step the forward micro-batches, then the backward ones.      *)
(* next[w][s] is the slot that stream s of rank w does next.                 *)
(*                                                                          *)
(* A gradient is abstracted to how often it contains what each accumulation  *)
(* step computed of the micro-batch; under Garbage it counts what was        *)
(* computed from a buffer that held something else.                          *)
(****************************************************************************)
EXTENDS Integers, Sequences, FiniteSets, FiniteSetsExt, Functions

CONSTANTS Shapes,     \* the topologies and settings to run, see ShapeOK
          Iterations  \* iterations before the run ends

ASSUME GPipeAssumption ==
  /\ Iterations \in Nat \ {0}
  /\ \A s \in Shapes :
       /\ {s.stages, s.replicas, s.micros, s.accumulate} \subseteq Nat \ {0}
       /\ s.streams \in BOOLEAN /\ s.serial \in BOOLEAN /\ s.buffered \in BOOLEAN
       /\ s.mode \in {"allreduce", "central_ps", "sharded_ps"}

VARIABLES shape,    \* which of Shapes this run uses; never changes
          iter,     \* iteration, from 1
          next,     \* next[w][s]: the next slot of stream s
          input,    \* input_micro_batches: the step whose activation is held
          output,   \* the step whose activation a forward slot was computed from
          wire,     \* tensors on their way to a rank's forward or backward receives
          ingrad,   \* input_micro_batches[i].grad
          outgrad,  \* output_micro_batches_grad
          grad,     \* gradients of the parameters, by chunk and micro-batch
          applied   \* the gradients the last optimizer step used

gpipeVars == <<shape, iter, next, input, output, wire, ingrad, outgrad, grad, applied>>
------------------------------------------------------------------------------
LastStage == shape.stages - 1
PipeRanks == (0 .. shape.replicas - 1) \X (0 .. LastStage)
Micros == 1 .. shape.micros
Steps == 1 .. shape.accumulate
Streams == {"recv", "comp", "send", "dp"}

\* Slots of an iteration; the optimizer and the reductions come after them.
Slots == 1 .. 2 * shape.accumulate * shape.micros
Update == 2 * shape.accumulate * shape.micros + 1
StepOf(j) == ((j - 1) \div (2 * shape.micros)) + 1
Backward(j) == ((j - 1) \div shape.micros) % 2 = 1
MicroOf(j) == ((j - 1) % shape.micros) + 1
EndOfForward(j) == (2 * StepOf(j) - 1) * shape.micros

\* Collectives of the reduction: all-reduce is one, the parameter servers two.
Reductions ==
  IF shape.replicas = 1 THEN {}
  ELSE IF shape.mode = "allreduce" THEN {Update} ELSE {Update, Update + 1}

\* What each stream of stage r has to do.
WorkOf(r, s) ==
  CASE s = "comp" -> Slots \cup {Update}
    [] s = "recv" -> {j \in Slots : IF Backward(j) THEN r < LastStage ELSE r > 0}
    [] s = "send" -> {j \in Slots : IF Backward(j) THEN r > 0 ELSE r < LastStage}
    [] s = "dp"   -> Reductions

End == Update + 2
NextSlot(r, s, j) == Min({i \in WorkOf(r, s) : i > j} \cup {End})
\* All the work of the stream up to slot j is finished.
Through(w, s, j) == next[w][s] > j
------------------------------------------------------------------------------
\* Mutant of EventsReady: computation does not wait for its receive.
EventsReadyAtOnce(w, s, j) == s = "send" => Through(w, "comp", j)

\* wait_event: computation waits for its receive, a send for its computation.
EventsReady(w, s, j) ==
  /\ s = "comp" => Through(w, "recv", j)
  /\ s = "send" => Through(w, "comp", j)

\* NCCL may execute the calls on one communicator in the order of the calls.
SerialReady(w, s, j) ==
  shape.serial =>
    /\ s = "recv" => Through(w, "send", j - 1)
    /\ s = "send" => Through(w, "recv", j)

\* On the Gloo path the host waits for the device in every send and receive,
\* and backward starts after a barrier of all ranks.
HostReady(w, s, j) ==
  /\ \A t \in {"recv", "comp", "send"} : Through(w, t, j - 1)
  /\ Backward(j) => \A v \in PipeRanks : Through(v, "recv", EndOfForward(j)) /\ Through(v, "send", EndOfForward(j))

Ready(w, s, j) ==
  /\ next[w][s] = j
  /\ EventsReady(w, s, j)
  /\ IF shape.streams THEN SerialReady(w, s, j) ELSE HostReady(w, s, j)

\* The reduction waits for the event recorded on the computing stream after
\* the last backward slot.  On the Gloo path nobody records it: only the host's
\* own order is left, which waits for the last send or receive.
ReductionReady(w, j) ==
  /\ next[w]["dp"] = j
  /\ IF shape.streams THEN Through(w, "comp", Update - 1)
     ELSE Through(w, "send", Update - 1) /\ Through(w, "recv", Update - 1)
------------------------------------------------------------------------------
Garbage == 0
Gradients == [{Garbage} \cup Steps -> Nat]
NoGradient == [k \in {Garbage} \cup Steps |-> 0]
Plus(g, h) == [k \in DOMAIN g |-> g[k] + h[k]]
Spoiled(g) == [NoGradient EXCEPT ![Garbage] = MapThenSumSet(LAMBDA k : g[k], DOMAIN g)]
SumOver(S, g) == [k \in {Garbage} \cup Steps |-> SumFunctionOnSet([x \in S |-> g[x][k]], S)]

\* _declare_grad_buffer: the sharded server cuts the gradients into a chunk
\* per replica; a chunk is summed by its owner.
Chunks == IF shape.mode = "sharded_ps" THEN 0 .. shape.replicas - 1 ELSE {0}

NewGradients == [w \in PipeRanks |-> [c \in Chunks |-> [i \in Micros |-> NoGradient]]]
FirstSlots == [w \in PipeRanks |-> [s \in Streams |-> NextSlot(w[2], s, 0)]]
NewBuffers(v) == [w \in PipeRanks |-> [i \in Micros |-> v]]

GPipeInit ==
  /\ shape \in Shapes
  /\ iter = 1
  /\ next = FirstSlots
  /\ input = NewBuffers(0)
  /\ output = [w \in PipeRanks |-> [j \in Slots |-> 0]]
  /\ wire = [w \in PipeRanks |-> [b \in BOOLEAN |-> <<>>]]
  /\ ingrad = NewBuffers(NoGradient)
  /\ outgrad = NewBuffers(NoGradient)
  /\ grad = NewGradients
  /\ applied = NewGradients

Advance(w, s, j) == next' = [next EXCEPT ![w][s] = NextSlot(w[2], s, j)]

\* comm.send reads the output of the forward slot, or the gradient of the input
\* as it then is; comm.recv fills the buffer.  The calls of a pair match in their
\* order.  The transport may hold what was sent, or make the calls meet.
Peer(w, j) == <<w[1], IF Backward(j) THEN w[2] - 1 ELSE w[2] + 1>>
Payload(w, j) == IF Backward(j) THEN ingrad[w][MicroOf(j)] ELSE output[w][j]
Fill(v, i, data) ==
  IF Backward(i)
  THEN outgrad' = [outgrad EXCEPT ![v][MicroOf(i)] = data] /\ UNCHANGED input
  ELSE input' = [input EXCEPT ![v][MicroOf(i)] = data] /\ UNCHANGED outgrad

Meet(w, j, v, i) ==
  /\ ~shape.buffered /\ {i, j} \subseteq Slots /\ v = Peer(w, j) /\ Backward(i) = Backward(j)
  /\ Ready(w, "send", j) /\ Ready(v, "recv", i)
  /\ next' = [next EXCEPT ![w]["send"] = NextSlot(w[2], "send", j),
                          ![v]["recv"] = NextSlot(v[2], "recv", i)]
  /\ Fill(v, i, Payload(w, j))
  /\ UNCHANGED <<shape, iter, output, wire, ingrad, grad, applied>>

Send(w, j) ==
  /\ shape.buffered /\ j \in Slots /\ Ready(w, "send", j)
  /\ Advance(w, "send", j)
  /\ wire' = [wire EXCEPT ![Peer(w, j)][Backward(j)] = Append(@, Payload(w, j))]
  /\ UNCHANGED <<shape, iter, input, output, ingrad, outgrad, grad, applied>>

Receive(v, i) ==
  /\ shape.buffered /\ i \in Slots /\ Ready(v, "recv", i)
  /\ wire[v][Backward(i)] # <<>>
  /\ Advance(v, "recv", i)
  /\ Fill(v, i, Head(wire[v][Backward(i)]))
  /\ wire' = [wire EXCEPT ![v][Backward(i)] = Tail(@)]
  /\ UNCHANGED <<shape, iter, output, ingrad, grad, applied>>

\* The first stage reads its own data and keeps it.
Held(w, j) == IF w[2] = 0 THEN StepOf(j) ELSE input[w][MicroOf(j)]

ComputeForward(w, j) ==
  /\ j \in Slots /\ ~Backward(j) /\ Ready(w, "comp", j)
  /\ Advance(w, "comp", j)
  /\ output' = [output EXCEPT ![w][j] = Held(w, j)]
  /\ UNCHANGED <<shape, iter, input, wire, ingrad, outgrad, grad, applied>>

\* What backward() adds to the gradients of the stage's input and parameters.
\* The activation saved by the forward slot is the buffer itself.
Contribution(w, j) ==
  LET g == IF w[2] = LastStage THEN [NoGradient EXCEPT ![StepOf(j)] = 1]
           ELSE outgrad[w][MicroOf(j)]
      forward == j - shape.micros
  IN IF Held(w, j) = StepOf(j) /\ output[w][forward] = StepOf(j) THEN g ELSE Spoiled(g)

ComputeBackward(w, j) ==
  /\ j \in Slots /\ Backward(j) /\ Ready(w, "comp", j)
  /\ Advance(w, "comp", j)
  /\ LET i == MicroOf(j) IN
     /\ ingrad' = [ingrad EXCEPT ![w][i] = Plus(@, Contribution(w, j))]
     /\ grad' = [grad EXCEPT ![w] = [c \in Chunks |->
                   [grad[w][c] EXCEPT ![i] = Plus(grad[w][c][i], Contribution(w, j))]]]
  /\ UNCHANGED <<shape, iter, input, output, wire, outgrad, applied>>

Group(r) == {w \in PipeRanks : w[2] = r}
Total(r, c) == [i \in Micros |-> SumOver(Group(r), [w \in Group(r) |-> grad[w][c][i]])]
ChunkOwner(c, r) == <<c, r>>

\* The collectives of a stage's replicas, on the gradients as they then are.
AllReduce(r) ==
  [w \in PipeRanks |-> IF w[2] = r THEN [c \in Chunks |-> Total(r, c)] ELSE grad[w]]
ReduceToOwners(r) ==
  [w \in PipeRanks |-> [c \in Chunks |-> IF w = ChunkOwner(c, r) THEN Total(r, c) ELSE grad[w][c]]]
SpreadFromOwners(r) ==
  [w \in PipeRanks |-> [c \in Chunks |-> IF w[2] = r THEN grad[ChunkOwner(c, r)][c] ELSE grad[w][c]]]

Reduce(r, j) ==
  /\ j \in Reductions
  /\ \A w \in Group(r) : ReductionReady(w, j)
  /\ next' = [w \in PipeRanks |-> IF w[2] = r THEN [next[w] EXCEPT !["dp"] = NextSlot(r, "dp", j)] ELSE next[w]]
  /\ grad' = IF shape.mode = "allreduce" THEN AllReduce(r)
             ELSE IF j = Update THEN ReduceToOwners(r) ELSE SpreadFromOwners(r)
  /\ UNCHANGED <<shape, iter, input, output, wire, ingrad, outgrad, applied>>

\* optimizer.step() on the computing stream, after the reduction's event.
OptimizerStep(w) ==
  /\ Ready(w, "comp", Update)
  /\ Through(w, "dp", Update + 1)
  /\ Advance(w, "comp", Update)
  /\ applied' = [applied EXCEPT ![w] = grad[w]]
  /\ UNCHANGED <<shape, iter, input, output, wire, ingrad, outgrad, grad>>

IterationDone(w) == \A s \in Streams : Through(w, s, Update + 1)

\* The device is synchronized, all ranks meet in the barriers of two sgd_iter,
\* and the next one clears the gradients.  The buffers keep what they hold.
NextIteration ==
  /\ iter <= Iterations
  /\ \A w \in PipeRanks : IterationDone(w)
  /\ iter' = iter + 1
  /\ next' = FirstSlots
  /\ input' = NewBuffers(0)
  /\ output' = [w \in PipeRanks |-> [j \in Slots |-> 0]]
  /\ ingrad' = NewBuffers(NoGradient)
  /\ grad' = NewGradients
  /\ UNCHANGED <<shape, wire, outgrad, applied>>

GPipeNext ==
  \/ /\ iter <= Iterations
     /\ \/ \E w, v \in PipeRanks : Meet(w, next[w]["send"], v, next[v]["recv"])
        \/ \E w \in PipeRanks : \/ Send(w, next[w]["send"])
                             \/ Receive(w, next[w]["recv"])
                             \/ ComputeForward(w, next[w]["comp"])
                             \/ ComputeBackward(w, next[w]["comp"])
                             \/ OptimizerStep(w)
        \/ \E r \in 0 .. LastStage, j \in Reductions : Reduce(r, j)
  \/ NextIteration

GPipeSpec == GPipeInit /\ [][GPipeNext]_gpipeVars
------------------------------------------------------------------------------
\* The optimizer of every rank steps with the gradients of all micro-batches of
\* all replicas, each once, and with accumulation at least once.  None was
\* computed from a buffer that held another slot's data: no stream waits before
\* it overwrites a buffer, but the data flow through the neighbours keeps the
\* previous use in front of the next (forward_stage and backward_stage, the
\* optimizer_step of the data-parallel modules).
UpdateIsWhole ==
  \A w \in PipeRanks : next[w]["comp"] = End =>
    \A c \in Chunks, i \in Micros :
      /\ applied[w][c][i][Garbage] = 0
      /\ \A k \in Steps : IF shape.accumulate = 1 THEN applied[w][c][i][k] = shape.replicas
                          ELSE applied[w][c][i][k] >= shape.replicas

\* Every iteration ends: the sends and receives of neighbours, posted in the
\* order of the loops, never wait in a circle.
IterationsDone == iter > Iterations
=============================================================================
