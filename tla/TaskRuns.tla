------------------------------- MODULE TaskRuns -------------------------------
(****************************************************************************)
(* The two task runners, scripts/train_qa_pipeline.py ("qa") and             *)
(* scripts/train_mt5_pipeline.py ("mt5"), from launch to exit: every rank's  *)
(* program of collectives, sends and receives, with the data they move.      *)
(* Rank w is stage w % stages of replica w \div stages.                      *)
(*                                                                          *)
(* An activation, and the gradient of one, is the micro-batch it belongs to: *)
(* <<replica, batch, micro>>, batches numbered through the launch.  A sum   *)
(* is the set of its terms; Spoiled is in it when a term is wrong or twice.  *)
(* The qa runner's checkpoints are in Checkpoint; the mt5 runner keeps one,  *)
(* written when its steps are done.                                          *)
(****************************************************************************)
EXTENDS Collectives, FiniteSets, FiniteSetsExt, SequencesExt

CONSTANTS
  Jobs,         \* what to run: task, topology, sizes, launches and steps
  MaxFailures   \* bound: ranks that fail by themselves

ASSUME TaskAssumption ==
  /\ MaxFailures \in Nat
  /\ \A j \in Jobs :
       /\ j.task \in {"qa", "mt5"} /\ {j.stages, j.replicas, j.micros} \subseteq Nat \ {0}
       /\ {j.validation, j.steps, j.sessions} \subseteq Nat

VARIABLES
  job,      \* one of Jobs; never changes
  launch,  \* number, settings, target step, whether it resumes
  mem,      \* what a rank's process holds
  saved,    \* the run and the step in a rank's checkpoint.pt (mt5)
  failures

taskVars == <<job, launch, mem, saved, failures>>
------------------------------------------------------------------------------
World == 0 .. job.stages * job.replicas - 1
Stage(w) == w % job.stages
Replica(w) == w \div job.stages
Leader(w) == Replica(w) * job.stages
LastOf(w) == Leader(w) + job.stages - 1
Pipeline(w) == {v \in World : Replica(v) = Replica(w)}
Replicas(w) == {v \in World : Stage(v) = Stage(w)}
First(w) == Stage(w) = 0
Final(w) == Stage(w) = job.stages - 1

\* Calls of the world, the pipeline and the replicas' group; the mt5 runner has
\* no groups of one.
All(what) == <<Together(what, World)>>
Pipe(w, what) ==
  IF job.task = "mt5" /\ job.stages = 1 THEN <<>> ELSE <<Together(what, Pipeline(w))>>
Data(w, what) == IF job.replicas = 1 THEN <<>> ELSE <<Together(what, Replicas(w))>>
When(condition, calls) == IF condition THEN calls ELSE <<>>

Forward(w, i) ==
  When(~First(w), <<RecvFrom(w - 1, "activation", i)>>) \o
  IF Final(w) THEN <<Alone("loss", i)>> ELSE <<SendTo(w + 1, "activation", i)>>
Backward(w, i) ==
  When(~Final(w), <<RecvFrom(w + 1, "gradient", i)>>) \o <<Alone("backward", i)>> \o
  When(~First(w), <<SendTo(w - 1, "gradient", i)>>)

\* Mutant of DrainOrder: the last stage starts with the first micro-batch.
DrainAscending(w, n) == [k \in 1 .. n |-> IF Final(w) THEN k ELSE n + 1 - k]

\* "drain backward in reverse order"
DrainOrder(w, n) == [k \in 1 .. n |-> n + 1 - k]

\* Mutant of QABatch: replicas meet in validation as well.
QABatchAlwaysCounted(w, n, training) ==
  Pipe(w, "header") \o Pipe(w, "values") \o Data(w, "count")
  \o FlattenSeq([i \in 1 .. n |-> Forward(w, i)])
  \o When(training, FlattenSeq([k \in 1 .. n |-> Backward(w, DrainOrder(w, n)[k])]))
  \o When(Final(w) /\ training, Data(w, "loss"))
  \o Pipe(w, "report") \o When(~training, Pipe(w, "logits"))

\* pipeline_batch of the qa runner on n micro-batches.
QABatch(w, n, training) ==
  Pipe(w, "header") \o Pipe(w, "values") \o When(training, Data(w, "count"))
  \o FlattenSeq([i \in 1 .. n |-> Forward(w, i)])
  \o When(training, FlattenSeq([k \in 1 .. n |-> Backward(w, DrainOrder(w, n)[k])]))
  \o When(Final(w) /\ training, Data(w, "loss"))
  \o Pipe(w, "report") \o When(~training, Pipe(w, "logits"))

\* pipeline_batch of the mt5 runner: a micro-batch comes back before the next.
MT5Batch(w, n, training) ==
  Pipe(w, "header") \o <<Alone("tokens", 0)>> \o Data(w, "count") \o Pipe(w, "mask")
  \o FlattenSeq([i \in 1 .. n |-> Forward(w, i) \o When(training, Backward(w, i))])
  \o Pipe(w, "report") \o Data(w, "loss")

Batch(w, training) ==
  <<Alone("load", 0)>> \o
  IF job.task = "qa" THEN QABatch(w, IF training THEN job.micros ELSE 1, training)
  ELSE MT5Batch(w, job.micros, training)

TrainingStep(w) ==
  Batch(w, TRUE) \o Data(w, "gradients") \o Pipe(w, "norm") \o <<Alone("update", 0)>>
  \o When(job.task = "qa", All("collect") \o All("collect"))

\* The validation batches of w's replica.
Share(w) == {f \in 0 .. job.validation - 1 : f % job.replicas = Replica(w)}

\* Mutant of Batches: every replica takes the same number of batches.
BatchesOfEqualShares(w) == job.validation \div IF job.task = "qa" THEN job.replicas ELSE 1

Batches(w) == IF job.task = "qa" THEN Cardinality(Share(w)) ELSE job.validation

QAProgram(w, steps) ==
  <<Alone("device", 0)>> \o All("join") \o All("groups") \o All("settings")
  \o When(First(w), <<Alone("data", 0)>>) \o All("data_errors")
  \o Pipe(w, "counts") \o All("lengths") \o All("run_id") \o Pipe(w, "hash")
  \o All("identities") \o <<Alone("directory", 0)>> \o All("collect")
  \o FlattenSeq(Times(steps, TrainingStep(w)))
  \o All("wall") \o Pipe(w, "batches") \o FlattenSeq(Times(Batches(w), Batch(w, FALSE)))
  \o All("gather") \o When(w = 0, <<Alone("score", 0)>>) \o All("scores")

MT5Program(w, resume, steps) ==
  <<Alone("device", 0)>> \o All("join") \o All("layout") \o All("groups")
  \o When(First(w), <<Alone("data", 0)>>) \o When(resume, <<Alone("load_checkpoint", 0)>>)
  \o All("signature") \o All("run_id")
  \o FlattenSeq(Times(steps, TrainingStep(w)))
  \o Pipe(w, "batches") \o FlattenSeq(Times(Batches(w), Batch(w, FALSE)))
  \o <<Alone("save", 0)>> \o All("barrier")
------------------------------------------------------------------------------
Spoiled == <<-1, -1, -1>>
Nothing == [run |-> 0, step |-> 0]

\* The sum of terms that must be different.
Sum(terms) ==
  UNION {terms[x] : x \in DOMAIN terms} \cup
  IF \E x, y \in DOMAIN terms : x # y /\ terms[x] \cap terms[y] # {} THEN {Spoiled} ELSE {}
Added(set, x) == IF x \in set THEN set \cup {Spoiled} ELSE set \cup {x}

Fresh(w, start) ==
  [start |-> start,           \* the checkpoint the state was loaded from
   run |-> 0, step |-> start.step,
   batch |-> 0,               \* the batch being worked on
   act |-> [i \in 1 .. job.micros |-> Spoiled],
   out |-> [i \in 1 .. job.micros |-> Spoiled],
   grad |-> {}, loss |-> {}, count |-> {}, norm |-> {},
   error |-> FALSE,
   answers |-> {}]

FirstLaunch == [number |-> 1, settings |-> "same", steps |-> job.steps, resume |-> FALSE]

ProgramOf(w, s) ==
  IF job.task = "qa" THEN QAProgram(w, s.steps)
  ELSE MT5Program(w, s.resume, IF s.resume THEN Max({0, s.steps - saved[w].step}) ELSE s.steps)

TaskInit ==
  /\ job \in Jobs
  /\ launch \in {[FirstLaunch EXCEPT !.settings = x] : x \in {"same", "model", "dataset"}}
  /\ mem = [w \in World |-> Fresh(w, Nothing)]
  /\ saved = [w \in World |-> Nothing]
  /\ failures = 0
  /\ NewChannels(World)
  /\ todo = [w \in World |-> ProgramOf(w, launch)]

\* All ranks are launched again, from the start or from their checkpoints.
LaunchAgain(resume, more) ==
  /\ job.task = "mt5" /\ launch.number < job.sessions /\ Gone = World
  /\ launch' = [number |-> launch.number + 1, settings |-> "same", resume |-> resume,
                 steps |-> launch.steps + more]
  /\ mem' = [w \in World |-> Fresh(w, Nothing)]
  /\ todo' = [w \in World |-> ProgramOf(w, launch')]
  /\ raised' = {} /\ wire' = [w \in World |-> [v \in World |-> <<>>]]
  /\ UNCHANGED <<buffered, job, saved, failures>>
------------------------------------------------------------------------------
Held(w, i) == IF First(w) THEN <<Replica(w), mem[w].batch, i>> ELSE mem[w].act[i]
Payload(w) == IF Current(w).what = "activation" THEN Held(w, Current(w).slot) ELSE mem[w].out[Current(w).slot]
Received(w, data) ==
  mem' = IF Current(w).what = "activation" THEN [mem EXCEPT ![w].act[Current(w).slot] = data]
         ELSE [mem EXCEPT ![w].out[Current(w).slot] = data]

Exchange(w, v) == Pass(w, v) /\ Received(v, Payload(w)) /\ UNCHANGED <<job, launch, saved, failures>>
Sending(w, v) == Post(w, v, Payload(w)) /\ UNCHANGED taskVars
Receiving(w, v) ==
  /\ Take(w, v)
  /\ Received(w, Head(wire[v][w]))
  /\ UNCHANGED <<job, launch, saved, failures>>

Own(w, what) == Work(w, what) /\ Leave({w}) /\ UNCHANGED <<job, launch, failures>>

\* The next batch, with its gradients, loss and counts at nothing.
LoadBatch(w) ==
  /\ Own(w, "load") /\ UNCHANGED saved
  /\ mem' = [mem EXCEPT ![w].batch = @ + 1, ![w].grad = {}, ![w].loss = {}, ![w].norm = {},
                        ![w].count = {Replica(w)}]

AddLoss(w) ==
  /\ Own(w, "loss") /\ UNCHANGED saved
  /\ mem' = [mem EXCEPT ![w].loss = Added(@, Held(w, Current(w).slot))]

\* The gradient has to be the one of the activation the stage holds.
ComputeGradient(w) ==
  LET i == Current(w).slot
      g == IF Final(w) \/ mem[w].out[i] = Held(w, i) THEN Held(w, i) ELSE Spoiled
  IN /\ Own(w, "backward") /\ UNCHANGED saved
     /\ mem' = [mem EXCEPT ![w].grad = Added(@, g), ![w].out[i] = g]

\* optimizer.step
Update(w) ==
  /\ Own(w, "update") /\ UNCHANGED saved
  /\ mem' = [mem EXCEPT ![w].step = @ + 1]

\* "batch contains no target tokens": the ranks of a replica find it each by itself.
CheckTokens(w) ==
  /\ Work(w, "tokens")
  /\ UNCHANGED <<taskVars>>
  /\ IF <<Replica(w), mem[w].batch>> \in job.empty THEN Raise({w}) ELSE Leave({w})

LoadCheckpoint(w) ==
  /\ Work(w, "load_checkpoint")
  /\ IF saved[w] = Nothing THEN Raise({w}) /\ UNCHANGED mem
     ELSE Leave({w}) /\ mem' = [mem EXCEPT ![w].start = saved[w], ![w].step = saved[w].step]
  /\ UNCHANGED <<job, launch, saved, failures>>

SaveCheckpoint(w) ==
  /\ Own(w, "save")
  /\ saved' = [saved EXCEPT ![w] = [run |-> mem[w].run, step |-> launch.steps]]
  /\ UNCHANGED mem

\* What has no effect but that it may fail.
Prepare(w) ==
  /\ \E what \in {"device", "data", "directory", "score"} : Own(w, what)
  /\ UNCHANGED <<mem, saved>>

\* A failure that is caught and brought to the next collective (qa only).
CaughtFailure(w) ==
  /\ failures < MaxFailures /\ failures' = failures + 1
  /\ job.task = "qa" /\ \E what \in {"data", "directory", "score"} : Work(w, what)
  /\ Leave({w})
  /\ mem' = [mem EXCEPT ![w].error = TRUE]
  /\ UNCHANGED <<job, launch, saved>>

\* A rank raises, or is killed, anywhere.
Failure(w) ==
  /\ failures < MaxFailures /\ failures' = failures + 1
  /\ todo[w] # <<>>
  /\ Raise({w})
  /\ UNCHANGED <<job, launch, mem, saved>>
------------------------------------------------------------------------------
\* Collectives: what their members have when they leave.
Joint(w, what) == Gathered(w) /\ Current(w).what = what
Members(w) == Current(w).with
JointDone(w) == Leave(Members(w)) /\ UNCHANGED <<job, launch, saved, failures>>
Each(S, new(_)) == mem' = [v \in World |-> IF v \in S THEN new(v) ELSE mem[v]]

ShareCount(w) ==
  /\ Joint(w, "count") /\ JointDone(w)
  /\ Each(Members(w), LAMBDA v : [mem[v] EXCEPT !.count = UNION {mem[u].count : u \in Members(w)}])

Gradients(S) == Sum([u \in S |-> mem[u].grad])
ReduceGradients(w) ==
  /\ Joint(w, "gradients") /\ JointDone(w)
  /\ Each(Members(w), LAMBDA v : [mem[v] EXCEPT !.grad = Gradients(Members(w))])

\* The norm over the stages of a replica, for clipping.
ReduceNorm(w) ==
  /\ Joint(w, "norm") /\ JointDone(w)
  /\ Each(Members(w), LAMBDA v : [mem[v] EXCEPT !.norm = {<<Stage(u), mem[u].grad>> : u \in Members(w)}])

Losses(S) == Sum([u \in S |-> mem[u].loss])
ReduceLoss(w) ==
  /\ Joint(w, "loss") /\ JointDone(w)
  /\ Each(Members(w), LAMBDA v : [mem[v] EXCEPT !.loss = Losses(Members(w))])

\* The last stage tells the others of its replica.
ReportLoss(w) ==
  /\ Joint(w, "report") /\ JointDone(w)
  /\ Each(Members(w), LAMBDA v : [mem[v] EXCEPT !.loss = mem[LastOf(v)].loss])

\* The first stage gets the logits of its features.
TakeLogits(w) ==
  /\ Joint(w, "logits") /\ JointDone(w)
  /\ Each(Members(w) \cap {Leader(w)}, LAMBDA v :
       [mem[v] EXCEPT !.answers = @ \cup
          (IF mem[LastOf(v)].act[1] = <<Replica(v), mem[v].batch, 1>> \/ job.stages = 1
           THEN {Replica(v) + (mem[v].batch - launch.steps - 1) * job.replicas} ELSE {-1})])

GatherAnswers(w) ==
  /\ Joint(w, "gather") /\ JointDone(w)
  /\ Each({0}, LAMBDA v : [mem[v] EXCEPT !.answers = UNION {mem[u].answers : u \in World}])

TakeRunId(w) ==
  /\ Joint(w, "run_id") /\ JointDone(w)
  /\ Each(World, LAMBDA v : [mem[v] EXCEPT !.run = launch.number])

\* Mutant of Signed: without resume_run_id.
SignedWithoutRun(v) == mem[v].start.step

\* What the mt5 runner compares of the loaded checkpoints.
Signed(v) == mem[v].start

\* The collectives in which all ranks find the same reason to raise.
Refused(what) ==
  \/ what \in {"settings", "layout"} /\ launch.settings = "model"
  \/ what \in {"lengths", "identities"} /\ launch.settings = "dataset"
  \/ what = "signature" /\ \E u, v \in World : Signed(u) # Signed(v)
  \/ what = "signature" /\ \E v \in World : mem[v].start.step >= launch.steps
  \/ what \in {"data_errors", "collect", "scores"} /\ \E v \in World : mem[v].error

Effective == {"count", "gradients", "norm", "loss", "report", "logits", "gather", "run_id"}
Agree(w) ==
  /\ Gathered(w) /\ Current(w).what \notin Effective
  /\ IF Refused(Current(w).what) THEN Raise(Members(w)) ELSE Leave(Members(w))
  /\ UNCHANGED taskVars

GiveUp(w) == Desert(w) /\ UNCHANGED taskVars

TaskStep(w) ==
  \/ \E v \in World : Exchange(w, v) \/ Sending(w, v) \/ Receiving(w, v)
  \/ LoadBatch(w) \/ AddLoss(w) \/ ComputeGradient(w) \/ Update(w) \/ CheckTokens(w)
  \/ LoadCheckpoint(w) \/ SaveCheckpoint(w) \/ Prepare(w)
  \/ ShareCount(w) \/ ReduceGradients(w) \/ ReduceNorm(w) \/ ReduceLoss(w) \/ ReportLoss(w)
  \/ TakeLogits(w) \/ GatherAnswers(w) \/ TakeRunId(w) \/ Agree(w)
  \/ GiveUp(w)

TaskNext ==
  \/ \E w \in World : TaskStep(w) \/ CaughtFailure(w) \/ Failure(w)
  \/ \E resume \in BOOLEAN, more \in {0, 1} : LaunchAgain(resume, more)
TaskSpec == TaskInit /\ [][TaskNext]_<<taskVars, channelVars>>
------------------------------------------------------------------------------
Every(s) == {<<d, s, i>> : d \in 0 .. job.replicas - 1, i \in 1 .. job.micros}
Trained(w) == todo[w] # <<>> /\ mem[w].batch > 0 /\ Current(w) = Alone("update", 0)

\* The gradient a rank updates with is the sum over all replicas and their
\* micro-batches, each once, scaled by the count of all and clipped by a norm of
\* all stages: replicas stay equal and stages agree.  The loss every rank reports
\* is that of all replicas, although the two runners reduce and broadcast it in
\* different orders (pipeline_batch, synchronize_gradients, clip_gradients).
UpdateIsShared ==
  \A w \in World : Trained(w) =>
    /\ mem[w].grad = Every(mem[w].batch)
    /\ mem[w].loss = Every(mem[w].batch)
    /\ mem[w].count = 0 .. job.replicas - 1
    /\ job.stages > 1 => mem[w].norm = {<<s, Every(mem[w].batch)>> : s \in 0 .. job.stages - 1}

\* Nobody updates a model unless all ranks agreed on settings and data, and all
\* started or resumed from the same run and step.
TrainsAsOne ==
  (\E w \in World : Trained(w) \/ mem[w].step > mem[w].start.step) =>
    /\ launch.settings # "model"
    /\ job.task = "qa" => launch.settings = "same"
    /\ \A u, v \in World : mem[u].start = mem[v].start

\* Rank 0 scores every validation feature, whatever its share is.
ValidationIsWhole ==
  (job.task = "qa" /\ todo[0] = <<>> /\ 0 \notin raised) => mem[0].answers = 0 .. job.validation - 1
=============================================================================
