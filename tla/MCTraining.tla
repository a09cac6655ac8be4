------------------------------ MODULE MCTraining ------------------------------
(* Four components of the training side for TLC, side by side in one run:     *)
(* Checkpoint, TaskRuns, ClassificationRun and Compression.  They do not      *)
(* interact here; a behaviour is of one of them, and the others' variables    *)
(* stay as they were.  TaskRuns and ClassificationRun use the same channels.  *)
EXTENDS Checkpoint, TaskRuns, ClassificationRun, Compression

CONSTANTS r1, r2   \* the ranks of Checkpoint

VARIABLE part      \* the component; never changes

\* Jobs of TaskRuns.  QA: two stages of two replicas, three validation batches.
QA == [task |-> "qa", stages |-> 2, replicas |-> 2, micros |-> 2, validation |-> 3,
       empty |-> {}, steps |-> 1, sessions |-> 1]
MT == [QA EXCEPT !.task = "mt5", !.validation = 1]
TheJobs ==
  {QA, [QA EXCEPT !.stages = 3, !.replicas = 1, !.validation = 1, !.steps = 2],
   MT, [MT EXCEPT !.empty = {<<1, 1>>}], [MT EXCEPT !.stages = 3, !.replicas = 1],
   [MT EXCEPT !.stages = 1, !.steps = 2],
   [MT EXCEPT !.replicas = 1, !.micros = 1, !.validation = 0, !.sessions = 3]}

\* Plans of ClassificationRun.  The vocabularies are those of rank 0 and of the others.
Vocabularies(n, first, others) == [w \in 0 .. n - 1 |-> IF w = 0 THEN first ELSE others]
Basic == [stages |-> 3, replicas |-> 1, comm |-> "gloo", probe |-> FALSE, dynamic |-> FALSE,
          epochs |-> 1, perEpoch |-> 2, loader |-> 3, spawned |-> TRUE,
          expected |-> 0, vocabulary |-> Vocabularies(3, 1, 1)]
Two == [Basic EXCEPT !.stages = 2, !.vocabulary = Vocabularies(2, 1, 1)]
Dynamic == [Two EXCEPT !.dynamic = TRUE, !.spawned = FALSE]
ThePlans ==
  {Basic, [Two EXCEPT !.probe = TRUE, !.perEpoch = 1],
   [Basic EXCEPT !.comm = "auto", !.perEpoch = 1],
   [Two EXCEPT !.comm = "nccl"],
   [Two EXCEPT !.comm = "auto", !.replicas = 2, !.perEpoch = 1, !.vocabulary = Vocabularies(4, 1, 1)],
   [Two EXCEPT !.vocabulary = Vocabularies(2, 1, 2), !.perEpoch = 1],
   [Two EXCEPT !.vocabulary = Vocabularies(2, 1, 2), !.expected = 1],
   Dynamic, [Dynamic EXCEPT !.vocabulary = Vocabularies(2, 2, 1)],
   [Two EXCEPT !.loader = 1, !.epochs = 2],
   [Basic EXCEPT !.loader = 1, !.epochs = 2, !.spawned = FALSE, !.expected = 1]}

\* Synchronizers of Compression: two parameters of two and three coordinates,
\* in buckets of four or three; half of a bucket kept, then a quarter.
TopKSync == [mode |-> "topk", sizes |-> <<2, 3>>, bucket |-> 4, keep |-> <<2, 4>>,
         gradients |-> {<< <<0, 4>>, <<4, -8, 0>> >>, << <<4, 4>>, <<0, 4, 8>> >>}]
TheSynchronizers ==
  {TopKSync, [TopKSync EXCEPT !.mode = "dgc"], [TopKSync EXCEPT !.bucket = 3, !.keep = <<4>>]}

\* A component that is not the one of the behaviour: one of its initial states,
\* or no ranks at all.
Some(S) == CHOOSE x \in S : TRUE
CheckpointIdle == Init /\ every = Some(Intervals)
CompressionIdle == CompressionInit /\ synchronizer = Some(Synchronizers)
TasksIdle ==
  /\ job = [QA EXCEPT !.task = "none", !.replicas = 0]
  /\ launch = FirstLaunch /\ mem = <<>> /\ saved = <<>> /\ failures = 0
ClassificationIdle ==
  /\ plan = [Basic EXCEPT !.replicas = 0, !.spawned = FALSE]
  /\ differs = "nothing" /\ noNccl = {} /\ nccl = <<>> /\ tensors = <<>>
  /\ listening = {} /\ measured = <<>> /\ matrix = <<>> /\ updates = <<>>
  /\ flawed = {} /\ mishaps = MaxMishaps
ChannelsIdle == todo = <<>> /\ raised = {} /\ wire = <<>> /\ buffered = TRUE

TrainingInit ==
  \/ part = "checkpoint" /\ Init /\ TasksIdle /\ ClassificationIdle /\ ChannelsIdle /\ CompressionIdle
  \/ part = "tasks" /\ CheckpointIdle /\ TaskInit /\ ClassificationIdle /\ CompressionIdle
  \/ part = "classification" /\ CheckpointIdle /\ TasksIdle /\ ClassInit /\ CompressionIdle
  \/ part = "compression" /\ CheckpointIdle /\ TasksIdle /\ ClassificationIdle /\ ChannelsIdle /\ CompressionInit

TrainingNext ==
  \/ /\ part = "checkpoint" /\ Next
     /\ UNCHANGED <<part, taskVars, classVars, channelVars, compressionVars>>
  \/ /\ part = "tasks" /\ TaskNext
     /\ UNCHANGED <<part, vars, classVars, compressionVars>>
  \/ /\ part = "classification" /\ ClassNext
     /\ UNCHANGED <<part, vars, taskVars, compressionVars>>
  \/ /\ part = "compression" /\ CompressionNext
     /\ UNCHANGED <<part, vars, taskVars, classVars, channelVars>>

trainingVars == <<part, vars, taskVars, classVars, channelVars, compressionVars>>

\* A process that can go on does so, unless it is killed.
TaskGoesOn == \E w \in World : TaskStep(w)
ClassGoesOn == \E w \in Launched : ClassStep(w)
TrainingSpec ==
  /\ TrainingInit /\ [][TrainingNext]_trainingVars
  /\ WF_<<taskVars, channelVars>>(part = "tasks" /\ TaskGoesOn)
  /\ WF_<<classVars, channelVars>>(part = "classification" /\ ClassGoesOn)
------------------------------------------------------------------------------
\* Every program that is launched ends on all ranks, at the latest when each has
\* raised: no two of them wait in calls that do not match (the order of the
\* collectives, sends and receives in the runners).  A rank that has entered NCCL
\* alone waits for ever.
EveryProgramEnds == []<>(Gone = Peers \/ Stranded)
=============================================================================
