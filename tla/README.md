# DT-FM in TLA+

Specifications, model-checking runs and machine-checked proofs for DT-FM:
decentralised training of language models on a cluster of borrowed computers.
Source paths below are relative to the repository (`src/` in `PROJECT.json`).

Contents: [inventory](#1-the-system) · [modules](#2-modules) ·
[runs](#3-what-the-runs-show) · [proofs](#4-what-is-proved) ·
[findings](#5-where-code-and-documentation-part) ·
[left out](#6-what-is-not-modelled) · [plan](#7-plan)

## 1. The system

A contributor pairs a computer with a cluster; the cluster's owner composes a
training job out of devices the contributors share; a control service reserves
the devices and hands out commands; a worker program on each computer obeys
them by starting a training process per rank; the processes form a pipeline
(times data replicas), talk to each other through `torch.distributed`, and save
checkpoints on their own disks.  A second, older way to run is a GPipe trainer
that measures its stages and moves layers between them while it trains.

| Component | State | Operations | Interaction | Hard behaviours | What makes it correct |
|---|---|---|---|---|---|
| Control service `cluster_control/service.py`, `store.py`, `server.py` | SQLite tables: memberships, pairing codes, agents, jobs, assignments | join, approve, reject, revoke, pair, share, remove, heartbeat; create, start, cancel a job; poll, report; reconcile | HTTP calls of browsers and workers, each one serialized transaction; reconcile() from the accept loop | calls in any order; clocks of 30 s, 600 s and the job's timeout; withdrawal in the middle of a job; late reports | a device, a physical GPU and a coordinator address are reserved once; rows agree with the job's status; only consenting computers run; nothing stays reserved for ever |
| Worker `cluster_control/worker.py` | executions with their subprocess, `lost`, last contact, a shared-device list of its own | poll, obey prepare/wait/run/stop, expire its lease, report | polls the service every second, reports in the middle of obeying a reply | lost requests and replies, stale commands, restarts, a lease of 10 s against the service's 30 s, slow termination | a live process is covered by a reservation; one process per device; training after all are ready, and once; a stop is obeyed |
| Checkpoints `utils/qa_checkpoints.py` in `scripts/train_qa_pipeline.py` | per rank: versions on disk, `metrics.jsonl`, step | save with two votes, prune, resume from a common step, trim metrics | collectives over all ranks | crash between any two steps, a disk that refuses a version or a record, different versions on different ranks | a confirmed step can be resumed from; nothing is recorded twice; an error in saving takes all ranks down together |
| Task runners `scripts/train_qa_pipeline.py`, `scripts/train_mt5_pipeline.py` | activations, gradients, losses, answers, one checkpoint (mT5) | launch, agree on settings and data, train, validate, save, resume | blocking send/recv between neighbours, collectives of the world, a pipeline, the replicas of a stage | order of blocking calls; a rank that fails alone; sets of checkpoints of different runs | no deadlock; a gradient meets its activation; replicas update alike; every validation feature is scored |
| Classification runner `dist_runner.py`, `utils/dist_train_utils.py` | assignment, transport, iterations | start ranks, choose NCCL or Gloo, compare plans, probe, train, await children | collectives; child processes of rank 0 | NCCL on some ranks only; different data; ends of a pipeline with fewer batches | nobody trains before all agree; the exit code tells the truth |
| Communication probe `comm/comm_probe.py`, `probe_aggregation.py` | listening ranks, measured directions | listen, measure, serve, aggregate | point-to-point between barriers | a listener that is not there, a link that fails | failures are contained; all ranks get the same matrix |
| GPipe pipeline `pipeline_parallel/`, back ends in `data_parallel/` | streams, events, buffers, accumulated gradients | forward, backward, reduce, optimizer step | NCCL/gloo between neighbours, reductions between replicas | streams that meet only through events; buffers used again | one update is the sum of its micro-batches, each once |
| Layer migration `scheduler/migration.py`, `rebalance.py`, `dynamic_runtime.py` | boundaries, modules, optimizer state | validate, prepare, exchange, build, swap | collectives, ordered send/recv | one rank fails half way; order of blocking calls | every layer has one owner; all or none swap |
| Allocation `scheduler/pipeline_scheduler.py`, `resource_scheduler.py` | layers of each stage, memory pools | partition layers | called at launch and by rebalancing | pools that overlap; ties; boundary cases | the fastest possible plan is found, or there is none |
| Launch plan `utils/launch_manifest.py`, `scripts/profile_to_launch_manifest.py` | profile, best paths, launch file | search an order, write, validate, launch | a file people may edit | unmeasured links, ties, edits | the cheapest order is launched, unchanged |
| Model partitions `modules/mt5_partition.py`, `bert_qa_partition.py` | units of a stage, tensors passed on | run units, hand over | tensors known by position only | every place a cut can be | the receiver names the tensors as the sender does |
| Gradient compression `utils/gradient_compression.py` | residuals, momentum, steps | top-k per bucket, error feedback, save, load | sparse exchange between replicas | ceilings, ties, dense fallback, restart | nothing of a gradient is lost or applied twice |
| Placement search `scheduler/heuristic_evolutionary_solver/` | population, cycle of moves, locks | crossover, cyclic moves, rollback, replacement, ranks | offline | moves taken back | candidates stay balanced; the best is kept; ranks are a permutation |
| Laboratory `scripts/lab_demo.py` | session: members, results, error, acknowledgements | register, poll, train, report, fail, acknowledge, close | HTTP to the coordinator, jobs across computers | lost replies, late results, a port that closes, restarts | trials do not mix; a report has all results; every program ends |
| Mixed precision `optimizer/` | dynamic loss scale | scale, check overflow, update | – | hysteresis counters | an overflowed step is skipped |
| Sessions, throttle `cluster_control/security.py`, `server.py` | sessions, attempts | sign in, sign out, limit | HTTP | windows | – |

`PROJECT.json` lists every component with its status, and the hazards each is
exposed to, at their lines, with the properties that watch them.

## 2. Modules

```
Reservations <==refined by== ClusterControl <==refined by== ClusterWorkers --> MCClusterWorkers
                                   |                                |
                            MCClusterControl                        |
                          ClusterControlProofs --> ClusterWorkersProofs

                        Collectives
                         |       |
Checkpoint          TaskRuns  ClassificationRun  Compression                 --> MCTraining
    |                    \       |       /
CheckpointProofs          TrainingProofs --> TaskScheduleProofs
MCCheckpoint

LayerOwners <==refined by== Migration  StagePartitions  PlacementSearch  LaunchPlan  GPipe  LayerAllocation  Lab  --> MCPipelines
                                  \         |             |            /        \         /         |
                                             PipelineProofs                  GPipeProofs       LabProofs
```

MCTraining and MCPipelines put components side by side: the variable `part` says
whose behaviour it is, and the variables of the others keep an initial value.
They do not interact, so a run is the union of the components' own, with the
properties of all; a property speaks of its component's variables and is the
weaker for no other.  The modules named Proofs hold theorems and their lemmas
only ([section 4](#4-what-is-proved)).

### ClusterControl – the service

Every call runs in one `BEGIN IMMEDIATE` transaction which is rolled back when
it raises (`store.py`), so each handler is one atomic action, and a refused call
is a stutter.  An action contains everything the handler does: a poll contains
`_reconcile`, a withdrawal contains `_stop` of the jobs hit, `report_worker`
contains the promotion of the job.

| Variable | Code |
|---|---|
| `membership` | rows of `memberships`; the owner's exists iff the cluster does |
| `codes` | rows of `pairing_codes` with the ticks they are valid for |
| `agent` | rows of `agents`: token validity, `enabled`, shared devices, inventory, and how long the agent has been silent (`last_seen`) |
| `job` | rows of `jobs` with the frozen `spec` (placement), coordinator URL, the rows of `assignments` by rank, and the age of a preparation (`updated`) |

Time: the service compares the clock only with `last_seen`, `updated` and
`expires`; the model keeps those ages and saturates each where no comparison can
change any more, so `Tick` is bounded without losing behaviour.  Names, hashes,
e-mails, the training configuration, progress figures and log tails are data no
property tells apart and are left out.  A machine is a member of `Hosts`; the
sets in `Reports` are the inventories (`capabilities`) a computer may report.

`Reservations` is the abstract promise ("Starting atomically reserves devices
and the coordinator endpoint"): a client acquires all it needs at once, only what
nobody holds, never again, and afterwards its holdings shrink.  The refinement
mapping takes jobs for clients; the resources of a held rank are its device, the
physical GPU behind it, and its job's URL.

### ClusterWorkers – the workers beside the service

Extends ClusterControl.  `phase` and `inbox` are the program counter of
`Worker.run`: *loop* (about to check the lease and poll), *polled* (the service
has answered, the worker does not know yet), *commands* (obeying the reply's
commands one after the other; a reply is a sequence, one command for each rank that
waits on the computer, in any order).  `task` is `Worker.executions` with the
subprocess of each; `lost` is `Worker.lost`; `contact` is the age of
`last_contact`; `late` holds reports whose sender gave up but which the service
will handle.  Each command is an action: its local part, its request, and what
the worker does with the outcome – accepted, 409, 401/403, no answer (the
request is lost, the reply is lost, or the request is late).  A failed request
drops the rest of the reply, as the `except` clauses around the loop do.
`begun` and `faults` are history and a bound.

Faults: lost requests and replies, Ctrl+C or a crash of a computer, preflight or
training processes that exit with any code, `Popen` raising.  `Timely` bounds how
long a request and the termination of a process take (`Slack` ticks); a computer
that is suspended with its processes alive is outside it, and so are processes
that survive a worker killed outright (they have a session of their own).

### Checkpoint – saving and resuming

One `pc` per rank through the training loop; collectives (`collect_errors`) are
joint actions no rank leaves before all have entered.  A version is named by its
step; `files` is what is on each rank's disk, `log` the steps in
`metrics.jsonl`.  A version may fail to be written or removed: the rank brings the
error to the vote.  The metrics may fail too, when they are rewritten or opened
(`Trim`) and when a step is recorded (`Train`); that is outside `collect_errors`, so the
rank leaves alone (`Leaves`) and the others go on to a collective it does not come to.
So does a rank whose process crashes, between any two steps, even in the middle of
rewriting the metrics.  All ranks are launched again, to resume or, where there are no
versions, from scratch.  `alone` says whether somebody has left alone in this session:
FailTogether speaks of the sessions in which nobody has, MetricsInOrder and
ConfirmedIsRecoverable of all.
Budgets grow from session to session, as QA_TAILSCALE.md says they have to.  What a
version contains and `checkpoint.pt` (which only the export reads) are left out.

### Migration – layers moving between stages

After a completed step, when rebalancing is due, all ranks pass through the phases
of `maybe_rebalance` and `migrate`: *reports* (memory snapshots and the calibration
of one rank after the other), *plan*, *validate*, *metadata*, *headroom*, *prepare*,
*exchange*, *build*, *swap*, *settled*.  In a phase ended by `collect` each rank
votes; `Raises` is what it learns there.  The barrier after *validate* joins the
same ranks once more and is part of that phase; the phases without an effect of
their own share the action `Gather`.  `stage` is the active model, a function from
layers to their states (identity and number of updates), `incoming` the storage
allocated for received layers, `candidate` the stage built from both.  A transfer is
a send and a receive that meet (the least a blocking call may do); calls of a pair
match in their order, so an order that differs between ranks deadlocks or delivers
the wrong layer.  Any partition may be planned.  A partition is kept as the running sums of its counts,
so a rank's layers are an interval between two of them.

`LayerOwners` is the abstract promise: every layer has one owner, owners form a
pipeline, a layer moves only between two steps and keeps its updates.  Under the
refinement mapping a rank that has voted but not swapped yet already owns its
candidate stage, so the last vote is the step Move.

### Collectives, TaskRuns, ClassificationRun – programs of blocking calls

`Collectives` is `torch.distributed` over Gloo, the external part: each rank has a
program, `todo`, the sequence of its calls – collectives of a group, sends and
receives of a pair, work of its own.  A collective is left when all members are in
it; sends either block until received or are buffered (`buffered`, both are checked);
calls of a pair match in their order; a process that ends fails the calls that need
it (`Desert`).  Ranks that wait in calls that do not match wait for ever.

`TaskRuns` builds these programs for the question-answering (`QAProgram`) and the
translation runner (`MT5Program`) from the code, in its order, with what is called on
some ranks only, and gives each call its effect on `mem`, what a process holds.  An
activation and its gradient are the micro-batch they belong to; a sum is the set of its
terms, so a term twice or missing shows.  `launch` holds what the ranks were told;
`saved` is the one checkpoint of the mT5 runner, which may be launched again from it or
anew; those of the question-answering runner are in `Checkpoint`.  A rank may fail
anywhere; errors the code catches and brings to the next collective are
`CaughtFailure`.

`ClassificationRun` does the same for `dist_runner.py`: the choice of transport, the
comparisons before training, the negotiation of a layer plan (one `collect` per
phase), the probe of every pair of ranks, the iterations – the first and last stage
end an epoch with their data, those between count steps – and the exit code of rank 0.
All ranks compare their assignments; each compares what it found in its data with
`--schedule-vocab-size`, if that is given (`VocabularyAccepted`); and only a dynamic run
compares the two ends with each other (`VocabulariesAgree`).  NCCL has no time limit: a
rank in one of its calls neither gives up nor notices that a member is gone (`OverNccl`),
and one whose NCCL cannot be imported never comes.  An iteration is its barriers and one
micro-batch; GPipe has the whole of it.

### GPipe – one iteration

`next[w][s]` is the next slot of stream *s* of rank *w*: forward micro-batches, then
backward ones, per accumulation step.  On the accelerator path streams advance by
themselves and meet only in events (`EventsReady`); NCCL may or may not run the calls
of one communicator one after the other (`serial`), sends may be held by the transport
(`buffered`).  On the Gloo path the host waits for the device in every call.  Buffers keep
what they hold until overwritten; a gradient counts how often it contains each
micro-batch, and what was computed from a buffer with other data counts as garbage.
Afterwards come the reduction of one of the three back ends and the optimizer step.

### Planning: LayerAllocation, LaunchPlan, StagePartitions, PlacementSearch

`LayerAllocation` runs the greedy assignment under shared memory pools and the static
search (binary search for the bottleneck, then the smallest allocation), one pass per
action, and compares with the best of all allocations.  `LaunchPlan` runs the dynamic
program over subsets of ranks in the order of their bit masks, writes the launch file,
lets somebody edit it, and validates it before launching.  `StagePartitions` runs the units of an mT5 or BERT
model stage by stage; at each cut the receiver derives names of tensors by position.
`PlacementSearch` is the genetic search with its cycles of moves and rollback; choices
that depend on floating-point sums (how much of a cycle is kept, which matching a
solver returns) are nondeterministic, so its invariants hold for all of them.

### Compression

Two replicas accumulate gradients of small integers in buckets, exchange any largest
*k* of each bucket – a coordinate's bucket is its position divided by the bucket
size, so large parameters are cut – and keep the rest; `stored` is what a checkpoint has, from which all replicas may
start again at any point.  `given` and `received` are histories.

### Lab

`session` is the `Coordinator` object, `doing[c]` the place of computer *c*'s program.
A call is answered, takes effect and loses its answer, is lost, or is handled late.
Whatever the code does after a time it may do once something went wrong, or as a
misfortune of its own.

## 3. What the runs show

| Run | Instance | Shows |
|---|---|---|
| `cluster_jobs` | 2 one-CPU agents, 2 jobs of ≤ 2 ranks, one port | type correctness; a device and an address are reserved once; rows follow the job's status; statuses and ranks only move forward; a reservation ends only for a reason |
| `cluster_gpu` | 2 agent identities of one machine with one GPU, which one may report under another machine identity | a physical GPU is reserved once; ClusterControl implements Reservations |
| `cluster_members` | an empty database, an owner and a contributor, pairing codes, one job | consent of all who run; credentials need membership; revocation is for ever; preparation ends and locked-out ranks are released by time alone |
| `workers_two_ranks` | 2 computers, 1 job of ≤ 2 ranks, 2 faults | no rank trains before all are ready, whatever stale command it obeys |
| `workers_two_jobs` | 1 computer, 2 jobs on 1 device, slow requests, 2 faults, withdrawals | a live process is covered by a reservation, so the next job never finds it on its device |
| `workers_one_rank` | 1 member's computer, 1 job, 2 faults, a late report, withdrawals, fairness | a rank trains once; workers make only calls ClusterControl allows; every stop completes |
| `workers_removed`, `workers_restarted`, `workers_starved`, `checkpoint_changed` | see [findings](#5-where-code-and-documentation-part) | violations of what is documented |
| `training` | Checkpoint: 2 ranks, 4 steps, intervals 0, 1, 2, 3 faults. TaskRuns: 7 jobs of up to 2 × 2 or 3 × 1 ranks, 1 failure. ClassificationRun: 11 plans of 2 to 4 ranks, 1 mishap. Compression: 3 configurations of 2 updates | confirmed steps are recoverable, metrics in order, errors in saving are shared; no order of blocking calls deadlocks, except in NCCL; replicas update alike and from one run; nobody trains before all agree; outcomes are true; nothing of a gradient is lost |
| `pipelines` | Migration: 3 stages, 5 layers, 3 steps with a session after each but the last, 2 faults. GPipe: 9 shapes, up to 4 stages, 3 micro-batches, 2 accumulation steps, 2 iterations. Allocation: 3 ranks, 4 or 6 layers. Launch: 3 and 4 ranks. Partitions: up to 7 stages. Placement: 6 devices, 2 trails. Lab: 2 computers, 4 jobs, 2 misfortunes, 1 restart | every layer has one owner, training stages agree and have all updates; updates are whole; plans are the best there are; stages fit; placements are sound; trials do not mix; every session, iteration and experiment ends |

**Bounds.**  Every conflict of the service is between two jobs or two agents, and
every check compares two, so two of each meet all pairs; two ranks are enough for
"all others are ready" to be both true and false.  `OfflineAfter`,
`PrepTimeout` and `CodeLife` of one or two ticks keep every order of the timeouts;
`workers_two_jobs` uses a longer one because it relates `Lease + 2 * Slack` to it.
Two faults let a fault hit the recovery from the first one; three are used for
checkpoints because two orphaned versions and a last failure are what pruning two
versions can go wrong with.  Four steps contain two of every interval.  Five layers
are the fewest with which a layer goes from stage 0 to 1, one from 0 to 2 and one from
1 to 2 at a time, so that blocking transfers in a wrong order wait in a circle; two
sessions let one fail and the next succeed, or move layers back.
Two replicas of two stages are the smallest topology with every group of the task
runners; the classification runner has vocabularies that agree and that differ, with an
expected one and without, in static and in dynamic runs; a third stage is one that is neither first nor last, and a fourth in GPipe one
whose neighbours are both such.  Three micro-batches let a buffer be used again while an
earlier use may be pending.  Two misfortunes in the laboratory let something go wrong
in the recovery; its four jobs are one round of the code with `--all-single`, and a
third computer adds no kind of job.  Buckets of four with ratios of a half and a quarter meet
both the sparse and the dense branch, and a parameter that is cut in two.
`workers_starved` restricts the placement of its two jobs (a constraint, in
MCClusterWorkers) only to be found quickly.

**Fairness.**  `FairSpec`: `Reconcile` (the accept loop calls it at every poll
interval, `server.py:27-28`) and `Tick`; nothing is assumed of people or
workers, so PreparationEnds and LockedOutIsReleased hold even if no computer ever
answers.  `WorkersFairSpec` adds that the loop of a running worker goes on: it is
a `while` whose requests all have timeouts.  Of the training
side it is assumed that a process that can go on does so, and that a blocking call
returns once what it waits for is there (`TaskGoesOn`, `ClassGoesOn`, Migration's
`Next`, `GPipeNext`): every such step uses up a call, a slot or a phase, so this excludes
only standing still.  In the laboratory each program is fair by itself, because one that
polls for ever must not keep another from going on, and the watchdog, a thread with a timer of its own, is
fair too.  Faults, failures, exits of processes, restarts, owners and contributors are never assumed to
act.

**Deadlock** is not checked by TLC: with all jobs settled, all faults used, every
computer removed or every program ended, there is nothing left to do.  That ranks do
not wait in a circle is stated as `EveryProgramEnds` and `RunsEnd`.  The first (in
MCTraining) excepts states in which a rank of the classification runner waits in NCCL for
one that has ended or has no NCCL (`Stranded`): nothing in the code ends that wait.

**Late requests.**  ReservationCoversProcess and OneProcessPerDevice are checked with
`MaxLate = 0`.  With reports that the service handles after their sender gave up
and polled again they do not hold: a "failed" report of the first preparation may
settle the row while the worker is preparing the rank anew.  The proofs make this exact:
both hold for any number of late reports as long as none of them ends a rank
(`NoLateEnds`), which `MaxLate = 0` implies.

## 4. What is proved

Each theorem holds for every value of the constants that satisfies the assumption its
module names: `ConstantsAssumption` (how agents, users and clusters relate, non-empty
reports, positive time-outs), `WorkersAssumption` (the lease and two requests are shorter
than the service's patience), `CheckpointAssumption`, `LabAssumption` (two or three
computers, as the program demands), `MigrationAssumption` (no more ranks than layers),
`LaunchPlanAssumption` (square matrices of at least two ranks), `AllocationAssumption`
(a layer takes time, every stage can be given one, no memory is negative),
`SearchAssumption` (at least two partitions of at least two devices, a balanced first
population), `GPipeAssumption`, `LayoutAssumption`, `ClassificationAssumption`,
`TaskAssumption` and `CompressionAssumption` (types of the settings; a classification run
has more than one rank and at least one step and epoch, a dynamic one neither NCCL nor
replicas).  Every one is
evaluated by the runs.  A premise of a theorem of its own is named in the table.

| Theorem | Property | Inductive invariant |
|---|---|---|
| `ClusterControlProofs!InductiveInvariant`, `TypeCorrect`, `RowsAlwaysFollowStatus`, `DevicesAreExclusive`, `GpusAreExclusive`, `CoordinatorsAreExclusive` | the invariants of `cluster_jobs`, `cluster_gpu` | `IInv` |
| `ClusterControlProofs!CoordinatorReservesAtomically` | ReservesAtomically (refinement) | `IInv` |
| `ClusterControlProofs!ReservationsAreExclusive` | exclusive use of any resource, from the refinement and `AcquiringIsExclusive` alone | `HeldBy`'s type and the property |
| `ClusterControlProofs!JobsFollowTheirOrder`, `RanksNeverRestart`, `ReleasesAreJustified` | StatusOrder, RankNeverRestarts, ReleaseIsJustified | `IInv`; `Winds` for a step |
| `ClusterControlProofs!RevocationsArePermanent`, `CredentialsBelongToMembers` | RevocationIsPermanent, CredentialsNeedMembership | `CInv` |
| `ClusterControlProofs!JobsRunOnConsent` | RunsOnConsent | `IInv`, `CInv`, `SharedAreReported`, `Consent` |
| `ClusterWorkersProofs!WorkersKeepTypes`, `WorkersImplementControl` | WorkersTypeOK, WorkersObeyControl (refinement) | `WInv` |
| `ClusterWorkersProofs!TrainingFollowsReadiness`, `TrainingStartsOnce` | TrainsAfterAllReady, TrainsOnce | `WInv` |
| `ClusterWorkersProofs!ReservationsCoverProcesses`, `DevicesRunOneProcess` | ReservationCoversProcess, OneProcessPerDevice, both from `[]NoLateEnds`; `NothingLateEnds` shows that premise for `MaxLate = 0` | `WInv`, `Covered` |
| `CheckpointProofs!CheckpointKeepsTypes`, `MetricsKeepOrder`, `RanksFailTogether` | CheckpointTypeOK, MetricsInOrder, FailTogether | `SInv` |
| `CheckpointProofs!ConfirmedStaysRecoverable` | ConfirmedIsRecoverable, if `KeepInterval` | `RInv` |
| `TrainingProofs!RanksAgreeFirst` | AgreedBeforeTraining | `ClassInv` |
| `TrainingProofs!SuccessNeedsAll` | SuccessIsOfAll, the first half of OutcomesAreTrue | `AwaitInv` |
| `TrainingProofs!OutcomesStayTrue` | OutcomesAreTrue | `HealthInv`, `AwaitInv` |
| `TrainingProofs!RanksTrainAsOne` | TrainsAsOne | `TaskInv` |
| `TaskScheduleProofs!UpdatesStayShared` | UpdateIsShared | `SharedInv` |
| `TaskScheduleProofs!ValidationStaysWhole` | ValidationIsWhole | `SharedInv` |
| `TrainingProofs!GradientsAreConserved` | NothingIsLost | `BalanceInv` |
| `PipelineProofs!LayersHaveOneOwner`, `StagesStayTrained`, `MigrationKeepsTypes` | OneOwner, TrainedStages, MigrationTypeOK | `MInv` |
| `PipelineProofs!SessionsAreMoves` | MovesBetweenSteps (refinement) | `MInv` |
| `PipelineProofs!CutsFit` | StagesFit | `PartitionInv` |
| `PipelineProofs!LaunchesStayBest` | LaunchesBestOrder | `PlanInv` |
| `GPipeProofs!PlansStayBest` | PlanIsBest | `AllocationInv` |
| `PipelineProofs!PlacementStaysSound` | PlacementIsSound | `SearchInv` |
| `GPipeProofs!UpdatesStayWhole` | UpdateIsWhole, if `ReplicasOnStreams` | `GInv` |
| `LabProofs!TrialsStaySound` | TrialsAreSound | `LInv` |

Types that no run spends an invariant on (`WorkersTypeOK`, `CheckpointTypeOK`,
`MigrationTypeOK`) are theorems, and the first part of the invariants.

**The service.**  Neither exclusiveness nor RowsFollowStatus is inductive alone:
start_job checks a draft's *placement*, so one must know that a draft has a row for
each of its ranks and no other (`WellPlaced`), that drafts hold nothing, and that a
job which is not starting never holds more than before:

    IInv == TypeOK /\ RowsFollowStatus /\ (\A j : WellPlaced(job[j])) /\ Exclusive

`Evolves(J, K)` captures what every handler but create_job and start_job does to a
job: it keeps the placement, reserves nothing anew, and keeps rows and status in
agreement.  One lemma per helper (`Stopped`, `Withdrawn`, `Reconciled`, each kind of
report) shows that it evolves, one lemma per action lifts this to the state, and
`CreateStep`, `StartStep` and `DeleteAgentStep`, the three that do not fit, are
proved from the guards.  The action properties need the sharper `Winds(J, K, S)`: status
only closes, ranks are only told to stop, and only those of *S*, the ranks on silent
computers, are released.  Credentials and consent need two facts about agents that no
handler states: a token exists only at a paired computer (`TokensArePaired`), so that
expelling a member, which looks for the paired ones, finds every token; and only what was
reported is shared (`SharedAreReported`), so that a heartbeat with the inventory the
service knows withdraws nothing.

**The workers.**  The invariant says for each computer what its program counter, reply
and tasks mean for the service's tables.  A command is stale the moment it is
written, so it may only rely on what cannot be undone: a job that was started stays
started (`Launched`), a row that has left *preparing* does not come back (`Prepared`).
That is why a stale *run* still implies that all are ready, and a rank that trained
cannot prepare again.  Covering processes is a race between clocks: `Timing` relates how
long the service has not heard a computer to how long the computer has not heard the
service, and with `Lease + 2 * Slack < OfflineAfter` a worker has stopped its processes
before the service gives their devices away (`WorkingIsHeard`).  What else could
release them is a report, and every report but a late one is made by the worker
itself when its process has ended: hence the premise `NoLateEnds`.

**Checkpoints.**  Ranks are apart by at most one step, and never on two sides of a
version that is due (`InStep`).  A version newer than all common ones, left by a rank
whose neighbour failed, is never beyond the next one due (`NoneBeyondDue`,
`NextIsNewest`), so that pruning to the newest two always keeps a common one.  This
is where the interval has to stay the same from session to session;
`checkpoint_changed` shows what happens otherwise.  A rank that leaves before its first
batch holds all others back, one that leaves after its part of a batch only from the next
(`LeavesKeepsRun`, `CutOffInOrder`), so the invariants bear refused metrics too.

**Programs of calls.**  The remaining program of a rank is a sequence, so an
invariant can speak of what is still ahead of it.  `Guarded(p, g, u)` says that in p every
call u has a call g before it; calls are dropped from the front only, and a world-wide g
is dropped on all ranks together, which `Advances`, `GoesOn` and `Proceeds` state once for all
actions.  Each comparison that would find a difference is ahead of every update
(`Undecided`, `Doubt => Before(Comparison)`); measurements are shared before, or
all ranks have passed (`Unshared \/ Shared`); checkpoints are loaded before the
signatures are compared, never after (`NeverAfter`).  What the programs are is shown from
their definitions, piece by piece, for any number of ranks, epochs and micro-batches.
Rank 0 either still has its last call, *wait*, or has raised, or has left after all
had ended without an error (`AwaitInv`).  As long as nothing has gone wrong, NCCL is on
all ranks or replaced on all, and the data last (`Healthy`), all ranks have the same number of meetings ahead of them (`InStep`), so no
rank ends while another still needs it; a rank in front of a NCCL call has its transport
(`Equipped`), because the consensus on it comes before (`Ordered`).

**Schedules.**  What a rank of the task runners holds when it updates depends on which
send its receives belong to and on what each of the others has added, so an invariant has
to say where in its program every rank is.  A schedule does: a sequence of moments that
plays the programs of all ranks together – in each a rank makes its next call or waits,
calls that need each other are made in the same one – with a note after each of what each
rank holds (`Scheduled`).  Two facts are proved about schedules.

*Every launch has one.*  `Leads(P, E, F, steps)`: from all notes that fit *E*, the pieces
*P* of the programs have a schedule to notes that fit *F*, and all that update on the way
have the gradients, losses, counts and norms of all (`SharedNote`).  Schedules compose
(`LeadsOn`).  A micro-batch goes forward stage by stage and comes back stage by stage
(`ForwardLeads`, `BackwardLeads`), each by itself although the code has all forward passes
first; counts, losses and gradients are shared between the replicas, then a norm between
the stages (`QATrains`, `MT5Trains`), and a step is repeated as often as the launch says
(`TrainingLeads`).  In validation replicas run out of features at different times; the
numbers *d*, *d + replicas*, … of replica *d*'s share are together all features
(`ShareIs`).

*Every behaviour follows it.*  A rank that has not raised has made the calls up to some
moment of the schedule, its own clock, and holds what is noted there (`Follows`); of two
ranks that meet in a moment both or neither have come past it, who has received was sent
to (`Clocks`), and what is on a wire was noted when it was sent, in order, and nothing at
all where sends block (`Mails`).  All steps of the model keep this (`PlannedSteps`), over
both kinds of sends and after any errors: a rank that raises leaves the schedule, and
those that need it stand still.  A translation job whose ranks have checkpoints of
different steps has no schedule; then every rank has the comparison of signatures before
its first update (`Unplanned`), and it finds the difference.

    SharedInv == TaskInv /\ ((MemHas /\ Planned) \/ Unplanned)

Both properties are read off the notes.  The invariant quantifies over schedules, so TLC
checks the properties and the proofs the invariant.

**Migration.**  All ranks are in one moment of a session together (`Together`), a rank
that is behind still trains, by one step (`StepsClose`).  Candidates are right because
only verified layers enter them (`BuildIsTrained`); that transfers meet is left to
TLC.  Under the refinement mapping the owners are those of the agreed partition, the old
one until the last vote, the proposal after it.

**Partitions.**  The names the receiver derives for a cut after any unit have a closed
form (`NamesExpected`); adding and removing names as each unit does leads from one to the
next, so they are the tensors' in the middle of a stage and at every cut (`TensorsFit`).
The bounds of the stages cover all units once, and no stage is empty because there are
never more stages than units (`PlaceInModel`).

**Placement.**  Once the crossover's repair has passed a device, its partition fits, so after
the last all do (`RepairFits`, `NoneOverIsBalanced`).  In a cycle of moves the partition it
started from lacks one device and the one it has reached has one too many (`SizesInCycle`);
closing the cycle after any of its moves, which is what the rollback to the best prefix
does, gives a balanced assignment (`ClosesBalanced`), and partitions no move has touched
still have a device that may move (`UntouchedPartitions`).  Costs are natural numbers, so
minima exist and fall (`MinimaFall`).  The lanes along the best route are bijections
between the seats of the partitions, so what they number is a permutation of the devices.

**Launch order.**  What the search keeps for a set of ranks and its last rank is the least
of *all* ways through the set that end there, by cost and then by ranks
(`OrderSearchFits`, `IsCheapest`): a way through one rank more has a front that ends
somewhere in the smaller set (`WalkShrinks`), adding the same link keeps the order
(`SmallerPathGrows`), and the smaller set has a smaller number (`Precedes`), so it was
extended before.  No entry is missing where a way exists, hence a refusal means that
there is no order.  The best order is one (`BestOrderIsOne`), therefore deriving a file
again gives the same file, unless it was edited.

**Layer allocation.**  Greedily: as long as layers are left, some stage that a possible
allocation gives more has room for one more (`Exchange`).  Otherwise each of them has a full
pool, whose members have as many in all as in the possible allocation; a host's pool
contains those of its accelerators, so the full pools that are not inside another and the
single stages with enough are disjoint (`ClassesOfRanks`), and nothing would be left.
The stage taken is no slower than that one, so the shares are never ahead of a possible
allocation's bottleneck (`LiveOk`), and when no stage has room none is possible.
Statically: what stages can do in a time is monotonic and counted exactly by `Cap`
(`CapsAre`), the bottleneck of every possible allocation is a candidate with enough layers
(`PossibleIsEnough`), and the search keeps the first such one between its ends (`StaticOk`).
After each stage the later ones can do what is left and each gets at least one
(`SmallestFits`), hence all layers are given, and an allocation that gives a stage less
after an equal beginning cannot give them all.

**GPipe.**  No stream waits before it overwrites a buffer; the previous use is finished
because of the data.  A rank's events and its neighbours' give a chain (`OrderOk`):
computed after received, received after the neighbour sent, sent after it computed.
Between two uses of a buffer by the same rank lies a slot of the other direction
(`UsesApart`), which the neighbour must have received from this rank before it sends
again (`ChainOfNeighbours`); so a buffer keeps what it got until its last use
(`BufferOk`, `BuffersFilled`).  What is on a wire is exactly what is in flight, in order
(`WireOk`), hence a receive gets the slot it is made for; where sends meet receives, the
two calls are of the same slot.  A rank's gradient has one contribution of every backward
slot it has done (`Local`), and after the reduction of its chunk as many as there are
replicas (`Whole`).  The premise `ReplicasOnStreams` is needed where the reduction must
wait for the last backward slot, see [section 6](#6-what-is-not-modelled).

**Compression.**  Per coordinate, what the replicas gave is what both received, plus what
the residuals keep, plus, in buckets already exchanged, the gradient about to be applied
(`Balanced`), and the same holds of what is stored (`StoredBalanced`).  The buckets are
disjoint, and whatever selection is exchanged moves the same amount from one side to the
other; neither that the largest are sent nor how many matters.

**Laboratory.**  `stored` of a finished job is complete, of the current one what
`received` says, and only the living program of a computer delivers its results
(`LivingInJob`), although a request may be handled after its program has been
started anew.

**Only model-checked.**

- Liveness – PreparationEnds, LockedOutIsReleased, StopCompletes, EveryProgramEnds,
  RunsEnd – because the provers have no fairness with parameters and no ENABLED.
- Bounds of counters, as the number of transfers of a session.

## 5. Where code and documentation part

- `workers_removed` – removing a computer drops its reservation while its process
  runs on until the next poll (`service.py:273`); CLUSTER_CONSOLE.md:177-178 says a
  reservation is held until the worker acknowledges or its lease expires.
- `workers_restarted` – a worker that restarts while its rank still prepares is told
  to prepare it again and the job goes on; CLUSTER_CONSOLE.md:185-186 says a restart
  fails the job.
- `workers_starved` – a lost "running" report followed by a quick success makes every
  later "succeeded" report a 409, and each refusal drops the commands after it: the
  "stop" of another job is never obeyed (`worker.py:346`, `service.py:527-529`;
  CLUSTER_TESTING.md:282).
- `checkpoint_changed` – resuming with a smaller `--checkpoint-every` after
  interrupted saves can prune the version just confirmed (`qa_checkpoints.py:93`;
  QA_TAILSCALE.md:225-229).  With the interval kept, `training` shows that no
  confirmed step is lost: a leftover version is never beyond the next one due.

Conditions in properties that say where the code does less than one might expect:

- a pipeline of three or more stages whose data set has fewer batches than
  `--steps-per-epoch`: the ends stop with their data, the stage between waits in the next
  iteration until its neighbours' processes are gone (`OutcomesAreTrue` excludes it);
- NCCL on some ranks only, with `--tensor-comm auto`: the others wait for them in the
  creation of the communicator (`nccl_backend.py:47`), so the consensus that would choose
  Gloo for all is never complete (`OutcomesAreTrue` excludes it, `EveryProgramEnds` counts it
  as stuck); where the creation raises on a rank that takes part, Gloo is chosen for all;
- in a static run without `--schedule-vocab-size` ends with different vocabularies train
  (`dist_runner.py:157-164`), so AgreedBeforeTraining asks nothing of them then;
- only saving shares its errors: a rank that cannot write its metrics or its progress ends
  alone, and the others learn of it when their collective fails or times out (FailTogether
  speaks of sessions in which that does not happen);
- with `--gradient-accumulate-step` above 1 the gradient of a stage's input is cleared
  once per iteration, so earlier steps' gradients are sent again and counted more than
  once (`UpdateIsWhole` says "at least once" then);
- a `/fail` that arrives after the last result makes a complete laboratory session a
  failed one (`lab_demo.py:143`): safe, and seen by whoever polls later.

## 6. What is not modelled

Tensor arithmetic, layers and tokenisers; metrics and tracking; the web page (a view of
the service's JSON); passwords and tokens beyond their validity, browser sessions and
the sign-in throttle (they decide who may call, not what a call does).

- *Loss scale* (`optimizer/grad_scalar.py`): the only state machine of the mixed-precision
  optimizer cannot run, because `get_fp16_optimizer` builds it without its required
  argument `offload`.
- *GPipe with replicas over Gloo*: the event the reduction waits for is only recorded on the
  accelerator path (`dist_gpipe_pipeline_async.py:460-466`).  The model can state it
  (`ReductionReady`), no shape runs it.
- *mT5 data sets*: the replicas' signatures have the names of data sets, not their
  contents; different contents under one name are not tried.  A crash between two
  final saves leaves a set of checkpoints that no launch accepts; TrainsAsOne shows that it is
  refused, not that it can be repaired.
- *Clipping under compression* and statistics of traffic.
- *`calculate_gain_baseline`* of the placement search: nothing selects it.
- *Gloo's timeouts* without an ended process behind them, and that of the store from
  which NCCL's identifier is read: a run that needs one to go on counts as stuck.
- *Classification runs with nothing to do*: with a budget of no steps the ends make one
  step before they look at it and the stages between none; such runs and
  runs of one rank are left out.  So are ranks with different `--tensor-comm`, which
  nothing compares.
- *After the last step* of the question-answering runner the summary is written with no
  call left to make with others; only its validation is modelled (`TaskRuns`).
- Commands, ports and addresses as text.

## 7. Plan

The modules planned exist, and every safety invariant and every safety action property
that a run checks is stated by a theorem.  What would come next needs more of the code in
the model, not more proofs of what is there: the hazards without a property in
`PROJECT.json`, above all the training process that survives its worker, and the parts of
[section 6](#6-what-is-not-modelled).
