----------------------------- MODULE MCPipelines -----------------------------
(* Planning and running pipelines for TLC, side by side in one run:           *)
(* LaunchPlan, PlacementSearch, LayerAllocation and StagePartitions decide    *)
(* where what runs; GPipe, Migration and Lab run it.  They do not interact    *)
(* here; a behaviour is of one of them, and the others' variables stay as     *)
(* they were.                                                                 *)
EXTENDS Migration, GPipe, LayerAllocation, LaunchPlan, StagePartitions, PlacementSearch, Lab

VARIABLE part      \* the component; never changes

\* Topologies of GPipe.  A pipeline of four stages, as deep as the code's
\* overlap of sends, receives and computation can show; two replicas of two.
Deep == [stages |-> 4, replicas |-> 1, micros |-> 3, accumulate |-> 2, buffered |-> TRUE,
         streams |-> TRUE, serial |-> FALSE, mode |-> "allreduce"]
Twice == [Deep EXCEPT !.stages = 2, !.replicas = 2, !.micros = 1, !.accumulate = 1]
TheShapes ==
  {Deep, [Deep EXCEPT !.buffered = FALSE], [Deep EXCEPT !.serial = TRUE, !.buffered = FALSE],
   [Deep EXCEPT !.streams = FALSE, !.buffered = FALSE], [Deep EXCEPT !.streams = FALSE]}
  \cup {[Twice EXCEPT !.mode = m] : m \in {"allreduce", "central_ps", "sharded_ps"}}
  \cup {[Twice EXCEPT !.stages = 1]}

\* Models of LayerAllocation: three ranks on two hosts or on one, with devices
\* that may be shared, and free memory that is short on either.
LayerTimes == {<<1, 2, 2>>, <<3, 1, 2>>, <<2, 3, 1>>}
Free(host, device) ==
  LET report(n) == [host |-> n, device |-> device]
  IN <<report(host), report(host), report(host + 1)>>
LiveModels ==
  [scheme : {"live"}, total : {4, 6}, layerTime : LayerTimes, first : {0, 2}, last : {1},
   limit : {<<9, 9, 9>>}, host : {<<"h", "h", "k">>, <<"h", "h", "h">>},
   device : {<<"cpu", "gpu", "cpu">>, <<"gpu", "gpu", "cpu">>},
   free : {Free(x, y) : x \in {4, 6, 9}, y \in {2, 3}}, base : {<<1, 0, 1>>}]
OneModel == CHOOSE n \in LiveModels : n.host[3] = "h"
StaticModels ==
  {[OneModel EXCEPT !.scheme = "static", !.limit = l, !.layerTime = t, !.first = f] :
     l \in {<<2, 1, 3>>, <<4, 4, 4>>, <<1, 4, 1>>}, t \in LayerTimes, f \in {0, 2}}
TheModels == LiveModels \cup StaticModels

\* Probes of LaunchPlan: three and four ranks, some links unmeasured.
TheHosts == <<"a", "b", "c", "d">>
TheProbes ==
  {<< <<0, 1, 2>>, <<x, 0, 1>>, <<1, y, 0>> >> : x \in 0 .. 3, y \in {0, 1, 4}}
  \cup {<< <<0, 1, 2, 1>>, <<x, 0, 1, 3>>, <<1, y, 0, 1>>, <<2, z, 2, 0>> >> :
          x \in {0, 2}, y \in {1, 3}, z \in {0, 1}}

\* Layouts of StagePartitions.
TheLayouts ==
  [task : {"qa"}, encoder : {1, 3}, decoder : {1}, world : {2, 4, 6}, size : {1, 2, 4}]
  \cup [task : {"mt5"}, encoder : {1, 2, 3}, decoder : {1, 2, 3}, world : {3, 4}, size : {Chosen, 2, 3, 4}]
  \cup [task : {"mt5"}, encoder : {1, 3}, decoder : {2}, world : {7}, size : {Chosen, 7}]

\* PlacementSearch: three sites of two devices each.
SiteCost(d, e) ==
  IF d \div 2 = e \div 2 THEN 1 ELSE IF (d + e) % 2 = 0 THEN 3 ELSE 5
ThePopulations == {<<[d \in 0 .. 5 |-> d \div 2], [d \in 0 .. 5 |-> d % 3]>>}

\* A component that is not the one of the behaviour: one of its initial states.
Some(S) == CHOOSE x \in S : TRUE
Starts(p, init, idle) == init /\ (part # p => idle)
PipelinesInit ==
  /\ part \in {"migration", "gpipe", "allocation", "launch", "partitions", "placement", "lab"}
  /\ Starts("migration", Init, proposal = Some(Partitions))
  /\ Starts("gpipe", GPipeInit, shape = Some(Shapes))
  /\ Starts("allocation", AllocationInit, model = Some(Models))
  /\ Starts("launch", PlanInit, probe = Some(Probes))
  /\ Starts("partitions", PartitionInit, layout = Some(Layouts))
  /\ Starts("placement", SearchInit, population = Some(Populations))
  /\ Starts("lab", LabInit, misfortunes = 0)

PipelinesNext ==
  \/ /\ part = "migration" /\ Next
     /\ UNCHANGED <<part, gpipeVars, allocationVars, planVars, partitionVars, searchVars, labVars>>
  \/ /\ part = "gpipe" /\ GPipeNext
     /\ UNCHANGED <<part, vars, allocationVars, planVars, partitionVars, searchVars, labVars>>
  \/ /\ part = "allocation" /\ AllocationNext
     /\ UNCHANGED <<part, vars, gpipeVars, planVars, partitionVars, searchVars, labVars>>
  \/ /\ part = "launch" /\ PlanNext
     /\ UNCHANGED <<part, vars, gpipeVars, allocationVars, partitionVars, searchVars, labVars>>
  \/ /\ part = "partitions" /\ PartitionNext
     /\ UNCHANGED <<part, vars, gpipeVars, allocationVars, planVars, searchVars, labVars>>
  \/ /\ part = "placement" /\ SearchNext
     /\ UNCHANGED <<part, vars, gpipeVars, allocationVars, planVars, partitionVars, labVars>>
  \/ /\ part = "lab" /\ LabNext
     /\ UNCHANGED <<part, vars, gpipeVars, allocationVars, planVars, partitionVars, searchVars>>

pipelinesVars ==
  <<part, vars, gpipeVars, allocationVars, planVars, partitionVars, searchVars, labVars>>

\* Whoever can go on does so: the ranks' processes and devices, and of the
\* laboratory's programs each by itself, with their timers.
PipelinesSpec ==
  /\ PipelinesInit /\ [][PipelinesNext]_pipelinesVars
  /\ WF_vars(part = "migration" /\ Next)
  /\ WF_gpipeVars(part = "gpipe" /\ GPipeNext)
  /\ \A c \in Computers : WF_labVars(part = "lab" /\ ProgramStep(c))
  /\ WF_labVars(part = "lab" /\ TimerStep)

\* Training ends whatever fails in a migration, every iteration of a pipeline
\* ends, and every program of an experiment ends (Migration, GPipe, Lab).
RunsEnd ==
  <>[](/\ part = "migration" => TrainingDone
       /\ part = "gpipe" => IterationsDone
       /\ part = "lab" => ProgramsEnded)
=============================================================================
