-------------------------- MODULE ClassificationRun --------------------------
(****************************************************************************)
(* dist_runner.py, the runner of the pipelined classification task, from     *)
(* launch to exit: rank 0 may start the other ranks as its children; the     *)
(* ranks join, set up NCCL or fall back to Gloo, compare what they were      *)
(* told, negotiate a layer plan, probe the network and train.                *)
(* utils/dist_train_utils.py, comm/comm_utils.py, comm/comm_probe.py and     *)
(* scheduler/dynamic_runtime.py are the parts.                               *)
(*                                                                          *)
(* Rank w is stage w % stages of replica w \div stages.  One micro-batch     *)
(* stands for an iteration's transfers; GPipe has them all.  Runs of one rank *)
(* and runs without a step to make are left out.  NCCL sets no time limit: a  *)
(* rank in one of its calls stays there if another member does not come.      *)
(****************************************************************************)
EXTENDS Collectives, FiniteSets, FiniteSetsExt, SequencesExt

CONSTANTS
  Plans,      \* topology and settings of a run
  MaxMishaps  \* bound: errors raised or caught by a single rank

ASSUME ClassificationAssumption ==
  /\ MaxMishaps \in Nat
  /\ \A p \in Plans :
       /\ {p.stages, p.replicas, p.epochs, p.perEpoch} \subseteq Nat \ {0}
       /\ p.stages * p.replicas > 1
       /\ {p.loader, p.expected} \subseteq Nat   \* expected: --schedule-vocab-size, 0 if not given
       /\ p.vocabulary \in [0 .. p.stages * p.replicas - 1 -> Nat \ {0}]   \* at the ends
       /\ p.comm \in {"auto", "nccl", "gloo"} /\ {p.probe, p.dynamic, p.spawned} \subseteq BOOLEAN
       /\ p.dynamic => p.comm = "gloo" /\ p.replicas = 1

VARIABLES
  plan,       \* one of Plans; never changes
  differs,    \* what only some ranks were told or computed, or nothing; never changes
  noNccl,     \* the ranks without a usable NCCL; never changes
  nccl,       \* whether a rank's pipeline communicator could be made
  tensors,    \* the transport of its activations
  listening,  \* the ranks that listen for a probe
  measured,   \* the directions a rank has measured
  matrix,     \* the available directions of its matrix
  updates,    \* the iterations it has made
  flawed,     \* the ranks that bring an error to the next collect
  mishaps

settings == <<plan, differs, noNccl>>
probing == <<listening, measured, matrix>>
classVars == <<settings, nccl, tensors, probing, updates, flawed, mishaps>>
------------------------------------------------------------------------------
Launched == 0 .. plan.stages * plan.replicas - 1
StageOf(w) == w % plan.stages
PipelineOf(w) == {v \in Launched : v \div plan.stages = w \div plan.stages}
ReplicasOf(w) == {v \in Launched : StageOf(v) = StageOf(w)}
IsFirst(w) == StageOf(w) = 0
IsLast(w) == StageOf(w) = plan.stages - 1
Ends == {w \in Launched : IsFirst(w) \/ IsLast(w)}

Everyone(what) == <<Together(what, Launched)>>
Optional(condition, calls) == IF condition THEN calls ELSE <<>>

UsesNccl == plan.comm \in {"auto", "nccl"}   \* on CUDA; auto is gloo elsewhere

Communicators(w) ==
  Optional(UsesNccl, <<Alone("import_nccl", 0), Together("nccl", PipelineOf(w))>> \o Everyone("consensus"))
  \o Optional(plan.replicas > 1, <<Alone("require_nccl", 0), Together("data_nccl", ReplicasOf(w))>>)

\* collect: an error of one rank is brought to all.
Collected == <<Alone("attempt", 0)>> \o Everyone("collect")

\* negotiate: the ranks calibrate one after the other.
Negotiation ==
  Collected \o Everyone("vocabularies") \o Collected
  \o FlattenSeq(Times(Cardinality(Launched), Collected))
  \o Collected \o Everyone("plans") \o Collected

\* measure_comm_matrix for a source and a destination.
Probe(w, s, d) ==
  Optional(w = d, <<Alone("listen", s)>>) \o Everyone("barrier")
  \o Optional(w = s, <<Alone("measure", d)>>) \o Optional(w = d, <<Alone("serve", s)>>)
  \o Everyone("barrier")

Probes(w) ==
  LET n == Cardinality(Launched)
  IN Everyone("barrier")
     \o FlattenSeq([k \in 1 .. n * n |->
          LET s == (k - 1) \div n
              d == (k - 1) % n
          IN IF s = d THEN Everyone("barrier") \o Everyone("barrier") ELSE Probe(w, s, d)])
     \o Everyone("measurements")

\* sgd_iter
Iteration(w) ==
  Everyone("barrier")
  \o Optional(~IsFirst(w), <<RecvFrom(w - 1, "activation", 1)>>)
  \o Optional(~IsLast(w), <<SendTo(w + 1, "activation", 1)>>)
  \o Everyone("barrier")
  \o Optional(~IsLast(w), <<RecvFrom(w + 1, "gradient", 1)>>)
  \o Optional(~IsFirst(w), <<SendTo(w - 1, "gradient", 1)>>)
  \o Optional(plan.replicas > 1, <<Together("reduce", ReplicasOf(w))>>)
  \o <<Alone("update", 0)>> \o Everyone("barrier")

\* Mutant of IterationsOf: the last stage looks at its budget after the step.
IterationsLate(w) ==
  IF IsLast(w) /\ ~IsFirst(w) THEN plan.epochs * Min({plan.perEpoch + 1, plan.loader})
  ELSE plan.epochs * Min({plan.perEpoch, plan.loader})

\* distributed_train_foo_iter: the ends of the pipeline stop an epoch with their
\* data, the stages between count the steps.
IterationsOf(w) ==
  plan.epochs * IF IsFirst(w) \/ IsLast(w) THEN Min({plan.perEpoch, plan.loader}) ELSE plan.perEpoch

ClassProgram(w) ==
  <<Alone("setup", 0)>> \o Everyone("join") \o Communicators(w) \o Everyone("assignments")
  \o Optional(IsFirst(w) \/ IsLast(w), <<Alone("setup", 0)>>) \o Everyone("vocabulary")
  \o Optional(plan.dynamic, Negotiation)
  \o <<Alone("setup", 0)>> \o Everyone("barrier") \o Optional(plan.probe, Probes(w)) \o Everyone("barrier")
  \o FlattenSeq(Times(IterationsOf(w), Iteration(w)))
  \o <<Alone("setup", 0), Alone("attempt", 0)>>
  \o Optional(plan.spawned /\ w = 0, <<Alone("wait", 0)>>)
------------------------------------------------------------------------------
ClassInit ==
  /\ plan \in Plans
  /\ differs \in {"nothing", "assignment"} \cup (IF plan.dynamic THEN {"plan"} ELSE {})
  /\ noNccl \in SUBSET Launched
  /\ (~UsesNccl /\ plan.replicas = 1) => noNccl = {}
  /\ nccl = [w \in Launched |-> FALSE]
  /\ tensors = [w \in Launched |-> "gloo"]
  /\ listening = {}
  /\ measured = [w \in Launched |-> {}]
  /\ matrix = [w \in Launched |-> {}]
  /\ updates = [w \in Launched |-> 0]
  /\ flawed = {}
  /\ mishaps = 0
  /\ NewChannels(Launched)
  /\ todo = [w \in Launched |-> ClassProgram(w)]

Does(w, what) == Work(w, what) /\ Leave({w}) /\ UNCHANGED <<settings, mishaps>>

\* device, arguments, data, model, metrics file
SetUp(w) == Does(w, "setup") /\ UNCHANGED <<nccl, tensors, probing, updates, flawed>>

\* An error of a step that collect guards, or of saving the model, is caught.
Attempt(w) ==
  /\ Work(w, "attempt") /\ Leave({w})
  /\ \/ UNCHANGED <<flawed, mishaps>>
     \/ mishaps < MaxMishaps /\ mishaps' = mishaps + 1 /\ flawed' = flawed \cup {w}
  /\ UNCHANGED <<settings, nccl, tensors, probing, updates>>

\* _try_nccl_communicator: where the import fails, the rank skips the rendezvous.
ImportNccl(w) ==
  /\ Work(w, "import_nccl")
  /\ todo' = [todo EXCEPT ![w] = IF w \in noNccl THEN Tail(Tail(@)) ELSE Tail(@)]
  /\ UNCHANGED <<raised, wire, buffered, classVars>>

\* The members meet; NcclCommunicator may still fail in one of them.
MakeNccl(w) ==
  /\ Gathered(w) /\ Current(w).what = "nccl"
  /\ Leave(Current(w).with)
  /\ \E failing \in SUBSET Current(w).with :
       /\ nccl' = [v \in Launched |-> v \in Current(w).with \ failing \/ nccl[v]]
       /\ mishaps' = mishaps + Cardinality(failing) /\ mishaps' <= MaxMishaps
  /\ UNCHANGED <<settings, tensors, probing, updates, flawed>>

RequireNccl(w) ==
  /\ Work(w, "require_nccl")
  /\ IF w \in noNccl THEN Raise({w}) ELSE Leave({w})
  /\ UNCHANGED classVars

\* Mutant of NcclOk: every rank trusts its own communicator.
NcclOkAlone(w) == nccl[w]

\* _nccl_ok_consensus
NcclOk(w) == \A v \in Launched : nccl[v]

ChooseTransport(w) ==
  /\ Gathered(w) /\ Current(w).what = "consensus"
  /\ tensors' = [v \in Launched |-> IF NcclOk(v) THEN "nccl" ELSE "gloo"]
  /\ IF plan.comm = "nccl" /\ \E v \in Launched : ~NcclOk(v)
     THEN Raise({v \in Launched : ~NcclOk(v)}) ELSE Leave(Launched)
  /\ UNCHANGED <<settings, nccl, probing, updates, flawed, mishaps>>

\* Each rank compares its own data with --schedule-vocab-size, if that is given;
\* only negotiate, in a dynamic run, compares the two ends with each other.
VocabularyAccepted == plan.expected = 0 \/ \A w \in Ends : plan.vocabulary[w] = plan.expected
VocabulariesAgree == plan.dynamic => plan.vocabulary[0] = plan.vocabulary[Max(Launched)]

Disagreement(what) ==
  \/ what = "assignments" /\ differs = "assignment"
  \/ what = "vocabulary" /\ ~VocabularyAccepted
  \/ what = "vocabularies" /\ ~VocabulariesAgree
  \/ what = "plans" /\ differs = "plan"
  \/ what = "collect" /\ flawed # {}

Compare(w) ==
  /\ Gathered(w) /\ Current(w).what \notin {"nccl", "consensus", "measurements"}
  /\ IF Disagreement(Current(w).what) THEN Raise(Current(w).with) ELSE Leave(Current(w).with)
  /\ UNCHANGED classVars

\* The listener is bound, or it is not and the source is told.
Listen(w) ==
  /\ Does(w, "listen")
  /\ \/ listening' = listening \cup {w}
     \/ UNCHANGED listening
  /\ UNCHANGED <<nccl, tensors, measured, matrix, updates, flawed>>

\* Both ends of a working link, until the source has its figures.
Measure(s, d) ==
  /\ Work(s, "measure") /\ Current(s).slot = d
  /\ Work(d, "serve") /\ d \in listening
  /\ Leave({s, d})
  /\ measured' = [measured EXCEPT ![s] = @ \cup {<<s, d>>}]
  /\ listening' = listening \ {d}
  /\ UNCHANGED <<settings, nccl, tensors, matrix, updates, flawed, mishaps>>

\* Any failure and the 20 seconds at either end are caught.
MeasureFails(w) ==
  /\ Does(w, "measure") \/ Does(w, "serve")
  /\ listening' = listening \ {w}
  /\ UNCHANGED <<nccl, tensors, measured, matrix, updates, flawed>>

\* aggregate_probe_results
ShareMatrix(w) ==
  /\ Gathered(w) /\ Current(w).what = "measurements"
  /\ Leave(Launched)
  /\ matrix' = [v \in Launched |-> UNION {measured[u] : u \in Launched}]
  /\ UNCHANGED <<settings, nccl, tensors, listening, measured, updates, flawed, mishaps>>

Transfers(w, v) ==
  /\ Pass(w, v) \/ Post(w, v, "tensor") \/ Take(v, w)
  /\ UNCHANGED classVars

UpdateModel(w) ==
  /\ Does(w, "update")
  /\ updates' = [updates EXCEPT ![w] = @ + 1]
  /\ UNCHANGED <<nccl, tensors, probing, flawed>>

\* An exception anywhere.
Error(w) ==
  /\ mishaps < MaxMishaps /\ mishaps' = mishaps + 1
  /\ todo[w] # <<>> /\ ~Work(w, "wait")
  /\ Raise({w})
  /\ UNCHANGED <<settings, nccl, tensors, probing, updates, flawed>>

\* Rank 0 terminates the children it started when it raises.
Terminate(w) ==
  /\ plan.spawned /\ 0 \in raised /\ todo[w] # <<>>
  /\ Raise({w})
  /\ UNCHANGED classVars

AnyFailed == raised # {}

\* wait_local_ranks: the parent exits with a child's code if it is not 0.
AwaitChildren(w) ==
  /\ Work(w, "wait")
  /\ \A v \in Launched \ {w} : todo[v] = <<>>
  /\ IF AnyFailed THEN Raise({w}) ELSE Leave({w})
  /\ UNCHANGED classVars

\* The calls of NCCL, which a member that is gone does not fail.
OverNccl(w) ==
  \/ Current(w).what \in {"nccl", "data_nccl", "reduce"}
  \/ Current(w).what \in {"activation", "gradient"} /\ tensors[w] = "nccl"

Quit(w) == Desert(w) /\ ~OverNccl(w) /\ UNCHANGED classVars

ClassStep(w) ==
  \/ SetUp(w) \/ Attempt(w) \/ ImportNccl(w) \/ MakeNccl(w) \/ RequireNccl(w)
  \/ ChooseTransport(w) \/ Compare(w)
  \/ Listen(w) \/ MeasureFails(w) \/ ShareMatrix(w)
  \/ \E v \in Launched : Measure(w, v) \/ Transfers(w, v)
  \/ UpdateModel(w) \/ Terminate(w) \/ AwaitChildren(w) \/ Quit(w)

ClassNext == \E w \in Launched : ClassStep(w) \/ Error(w)
ClassSpec == ClassInit /\ [][ClassNext]_<<classVars, channelVars>>
------------------------------------------------------------------------------
\* Nobody updates a model unless all ranks have the same assignment and the same
\* transport, the ends have the vocabulary that was expected, if one was, and the
\* matrix is the same everywhere and has all that was measured.  Under a dynamic
\* schedule the two ends also have one vocabulary, and all ranks one layer plan.
AgreedBeforeTraining ==
  (\E w \in Launched : updates[w] > 0) =>
    /\ differs = "nothing"
    /\ VocabularyAccepted
    /\ VocabulariesAgree
    /\ \A v \in Launched : tensors[v] = tensors[0] /\ matrix[v] = matrix[0] /\ measured[v] \subseteq matrix[0]

\* Rank 0 exits with success only when every rank it started has.
SuccessIsOfAll ==
  (plan.spawned /\ todo[0] = <<>> /\ 0 \notin raised) =>
    \A w \in Launched : todo[w] = <<>> /\ w \notin raised

\* NCCL is on all ranks or, where that is no error, on none.
NcclIsUniform ==
  noNccl = {} \/ (noNccl = Launched /\ plan.comm = "auto" /\ plan.replicas = 1)

\* When rank 0 exits with success, every rank it started has (main,
\* wait_local_ranks).  And without an error, a disagreement or an NCCL that some
\* ranks have and others lack, no rank raises: failed probes are contained, and
\* the ranks make the same number of iterations, as long as the ends of a longer
\* pipeline do not run out of data (measure_comm_matrix, distributed_train_foo_iter).
OutcomesAreTrue ==
  /\ SuccessIsOfAll
  /\ (mishaps = 0 /\ differs = "nothing" /\ VocabularyAccepted /\ VocabulariesAgree /\
      NcclIsUniform /\ (plan.stages > 2 => plan.loader >= plan.perEpoch)) => raised = {}

\* A rank waits in NCCL for a member that is gone or that never joins.
Stranded ==
  \E w \in Launched :
    /\ todo[w] # <<>> /\ OverNccl(w)
    /\ Current(w).with \cap Gone # {} \/ (Current(w).what = "nccl" /\ Current(w).with \cap noNccl # {})
=============================================================================
