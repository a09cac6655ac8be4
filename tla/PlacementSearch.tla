---------------------------- MODULE PlacementSearch ----------------------------
(****************************************************************************)
(* GCMA of scheduler/heuristic_evolutionary_solver/scheduler.py: the genetic *)
(* search for groups of devices that synchronize gradients, and the ranks it *)
(* derives.  A candidate assigns every device to a partition.  How many      *)
(* moves of a cycle and how many cycles are kept, and which matching the     *)
(* solver returns, depends on floating-point sums: here any may be taken.    *)
(****************************************************************************)
EXTENDS Integers, Sequences, FiniteSets, FiniteSetsExt, Functions

CONSTANTS
  Way,            \* partitions, the stages of a pipeline
  PartitionSize,  \* devices of a partition, the number of pipelines
  PointCount,     \* devices that a crossover takes from the first parent
  PopulationSize, Trails,
  Populations,    \* the shuffled candidates the search may start from
  LinkCost(_, _)  \* time between two devices

VARIABLES
  population,  \* candidate_partitions[: population_size], the parents
  others,      \* the candidates after them
  minScores,   \* candidate_min_scores
  parents,     \* the two of the running trail
  trail,       \* children made so far
  child,       \* cur_offspring
  kept,        \* the assignment after one of the cycles before the last
  movements, start, here,       \* of the running cycle: moves, S0 and Si
  lockedDevices, lockedPartitions, cycles,
  ranks,       \* ip_rank_map
  searching    \* "breeding", "cycles", "moving", "scoring" or "placed"

searchVars == <<population, others, minScores, parents, trail, child, kept, movements, start, here, lockedDevices,
                lockedPartitions, cycles, ranks, searching>>
------------------------------------------------------------------------------
Devices == 0 .. Way * PartitionSize - 1
Parts == 0 .. Way - 1
MembersOf(s, p) == {d \in Devices : s[d] = p}
IsBalanced(s) == \A p \in Parts : Cardinality(MembersOf(s, p)) = PartitionSize

\* There are eight partitions of eight devices in the code.  A partition of one
\* device has no link inside, and nothing would ever move.
ASSUME SearchAssumption ==
  /\ Way \in Nat \ {0, 1} /\ PartitionSize \in Nat \ {0, 1}
  /\ PopulationSize \in Nat \ {0} /\ Trails \in Nat
  /\ \A d, e \in Devices : LinkCost(d, e) \in Nat
  /\ \A first \in Populations :
       /\ first \in [1 .. PopulationSize -> [Devices -> Parts]]
       /\ \A i \in 1 .. PopulationSize : IsBalanced(first[i])

\* five_point_crossover, with its repair from the first device to the last.
Repaired(s, d) ==
  IF Cardinality(MembersOf(s, s[d])) <= PartitionSize THEN s
  ELSE [s EXCEPT ![d] = Min({p \in Parts : Cardinality(MembersOf(s, p)) < PartitionSize})]
Crossover(one, two, points) ==
  LET repaired[n \in 0 .. Way * PartitionSize] ==
        IF n = 0 THEN [d \in Devices |-> IF d \in points THEN one[d] ELSE two[d]]
        ELSE Repaired(repaired[n - 1], n - 1)
  IN repaired[Way * PartitionSize]

\* Costs: the slowest synchronization and the fastest route through partitions.
TotalCost(d, S) == SumFunctionOnSet([e \in Devices |-> LinkCost(d, e)], S)
SyncCost(s) == Max({TotalCost(d, MembersOf(s, s[d]) \ {d}) : d \in Devices})
CrossCost(s, p, q) ==
  Min({Max({LinkCost(d, f[d]) : d \in MembersOf(s, p)}) : f \in Bijection(MembersOf(s, p), MembersOf(s, q))})
Routes == Bijection(1 .. Way, Parts)
RouteCost(s, route) == SumFunction([i \in 1 .. Way - 1 |-> CrossCost(s, route[i], route[i + 1])])
Score(s) == 2 * SyncCost(s) + 2 * Min({RouteCost(s, route) : route \in Routes})

SearchInit ==
  /\ population \in Populations
  /\ others = <<>> /\ trail = 0 /\ parents = <<1, 1>>
  /\ minScores = [i \in 1 .. PopulationSize |-> Min({Score(population[k]) : k \in 1 .. i})]
  /\ child = population[1] /\ kept = child
  /\ movements = <<>> /\ start = 0 /\ here = 0
  /\ lockedDevices = {} /\ lockedPartitions = {} /\ cycles = 0
  /\ ranks = <<>>
  /\ searching = "breeding"

Breed ==
  /\ searching = "breeding" /\ trail < Trails
  /\ \E one, two \in 1 .. PopulationSize, points \in kSubset(PointCount, Devices) :
       /\ child' = Crossover(population[one], population[two], points)
       /\ parents' = <<one, two>>
  /\ kept' = child'
  /\ lockedDevices' = {} /\ lockedPartitions' = {} /\ cycles' = 0
  /\ searching' = "cycles"
  /\ UNCHANGED <<population, others, minScores, trail, movements, start, here, ranks>>

Movable(p) == MembersOf(child, p) \ lockedDevices
MoreCycles == cycles < Way /\ lockedPartitions # Parts

\* calculate_gain_default: of each partition the device with the shortest link
\* inside it would move, to where its links are longest on average.
Foremost(value) ==
  CHOOSE x \in DOMAIN value : \A y \in DOMAIN value : value[x] < value[y] \/ (value[x] = value[y] /\ x <= y)
Near(d) == Min({LinkCost(d, e) : e \in MembersOf(child, child[d]) \ {d}})
Mover(p) == Foremost([d \in Movable(p) |-> Near(d)])
\* A multiple of all sizes a partition can have during a cycle.
Scale == (PartitionSize - 1) * PartitionSize * (PartitionSize + 1)
Gain(d, q) ==
  LET members == MembersOf(child, q)
  IN (Scale \div Cardinality(members)) * TotalCost(d, members) - Scale * Near(d)
Loss(p) == - Max({Gain(Mover(p), q) : q \in Parts \ {p}})
Destination(p) == Foremost([q \in Parts \ {p} |-> - Gain(Mover(p), q)])

\* A cycle starts in the partition that gains most.
BeginCycle ==
  /\ searching = "cycles" /\ MoreCycles
  /\ LET able == {p \in Parts : Movable(p) # {}}
     IN able # {} /\ start' = Foremost([p \in able |-> Loss(p)]) /\ here' = start'
  /\ kept' \in {kept, child}
  /\ movements' = <<>>
  /\ searching' = "moving"
  /\ UNCHANGED <<population, others, minScores, parents, trail, child, lockedDevices, lockedPartitions, cycles, ranks>>

CycleOver == movements # <<>> /\ (here = start \/ Len(movements) = Way * PartitionSize)

\* Without a movable device the one that came last goes back to the start.
NextMove ==
  IF Movable(here) # {} THEN <<Mover(here), Destination(here)>>
  ELSE <<movements[Len(movements)].device, start>>

Move ==
  /\ searching = "moving" /\ ~CycleOver
  /\ LET m == NextMove IN
       /\ child' = [child EXCEPT ![m[1]] = m[2]]
       /\ lockedDevices' = lockedDevices \cup {m[1]}
       /\ lockedPartitions' = lockedPartitions \cup {m[2]}
       /\ movements' = Append(movements, [device |-> m[1], from |-> here])
       /\ here' = m[2]
  /\ UNCHANGED <<population, others, minScores, parents, trail, kept, start, cycles, ranks, searching>>

\* Moves after the l-th are taken back, last first: a device ends where the
\* first of its moves after the l-th found it.
TakenBack(s, l) ==
  [d \in Devices |->
     LET after == {k \in l + 1 .. Len(movements) : movements[k].device = d}
     IN IF after = {} THEN s[d] ELSE movements[Min(after)].from]

\* Mutant of Closed: the l-th device stays where it went.
ClosedLeftOpen(s, l) == TakenBack(s, l)

\* The l-th device goes to the start instead, which closes the cycle.
Closed(s, l) == [TakenBack(s, l) EXCEPT ![movements[l].device] = start]

EndCycle ==
  /\ searching = "moving" /\ CycleOver
  /\ \E l \in 1 .. Len(movements) : child' = Closed(child, l)
  /\ cycles' = cycles + 1
  /\ searching' = "cycles"
  /\ UNCHANGED <<population, others, minScores, parents, trail, kept, movements, start, here, lockedDevices,
                 lockedPartitions, ranks>>

\* Of the assignments after each cycle the last is never taken.
TakeOffspring ==
  /\ searching = "cycles" /\ ~MoreCycles
  /\ child' = kept
  /\ searching' = "scoring"
  /\ UNCHANGED <<population, others, minScores, parents, trail, kept, movements, start, here, lockedDevices,
                 lockedPartitions, cycles, ranks>>

\* The comparison with the second parent is an argument of max and counts 0 or 1.
JustAppended(one, two) ==
  Score(child) > Max({Score(population[one]), IF Score(child) > Score(population[two]) THEN 1 ELSE 0})

\* A replaced parent moves to the end of the list.
Compete ==
  /\ searching = "scoring"
  /\ LET one == parents[1]
         two == parents[2]
         replaced == IF Score(population[one]) > Score(population[two]) THEN one ELSE two
     IN IF JustAppended(one, two)
        THEN others' = Append(others, child) /\ UNCHANGED population
        ELSE /\ population' = [population EXCEPT ![replaced] = child]
             /\ others' = Append(others, population[replaced])
  /\ minScores' = Append(minScores, Min({Score(s) : s \in Range(population') \cup Range(others')}))
  /\ trail' = trail + 1
  /\ searching' = "breeding"
  /\ UNCHANGED <<parents, child, kept, movements, start, here, lockedDevices, lockedPartitions, cycles, ranks>>

Candidates == Range(population) \cup Range(others)
Seat(s, d) == Cardinality({e \in MembersOf(s, s[d]) : e <= d})

\* get_pipelines follows the matchings from stage to stage; ip_rank_map numbers
\* the devices pipeline by pipeline.
Lane(route, matches, i) ==
  LET lane[k \in 1 .. Way] == IF k = 1 THEN i ELSE matches[k - 1][lane[k - 1]] IN lane
RankMap(s, route, matches) ==
  [d \in Devices |->
     LET k == CHOOSE k \in 1 .. Way : route[k] = s[d]
         i == CHOOSE i \in 1 .. PartitionSize : Lane(route, matches, i)[k] = Seat(s, d)
     IN (i - 1) * Way + k - 1]

Place ==
  /\ searching = "breeding" /\ trail = Trails
  /\ child' \in {s \in Candidates : \A t \in Candidates : Score(s) <= Score(t)}
  /\ \E route \in Routes, matches \in [1 .. Way - 1 -> Bijection(1 .. PartitionSize, 1 .. PartitionSize)] :
       /\ \A r \in Routes : RouteCost(child', route) <= RouteCost(child', r)
       /\ ranks' = RankMap(child', route, matches)
  /\ searching' = "placed"
  /\ UNCHANGED <<population, others, minScores, parents, trail, kept, movements, start, here, lockedDevices,
                 lockedPartitions, cycles>>

SearchNext ==
  Breed \/ BeginCycle \/ Move \/ EndCycle \/ TakeOffspring \/ Compete \/ Place

SearchSpec == SearchInit /\ [][SearchNext]_searchVars
------------------------------------------------------------------------------
\* Between cycles every candidate has as many devices in each partition,
\* although devices move one by one and moves are taken back; a cycle that must
\* begin finds a device to move; the best candidate is never lost, so that the
\* recorded minima never rise, one for each candidate; and every device gets a
\* rank of its own, in the stage of its partition (move_cycles, GCMA and its
\* assertions, get_pipelines).
PlacementIsSound ==
  /\ searching # "moving" => IsBalanced(child)
  /\ searching = "cycles" /\ MoreCycles => \E p \in Parts : Movable(p) # {}
  /\ Len(minScores) = Len(population) + Len(others)
  /\ \A i \in 1 .. Len(minScores) - 1 : minScores[i + 1] <= minScores[i]
  /\ searching = "placed" =>
       /\ {ranks[d] : d \in Devices} = Devices
       /\ \A d, e \in Devices : (ranks[d] % Way = ranks[e] % Way) = (child[d] = child[e])
=============================================================================
