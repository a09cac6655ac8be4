--------------------------- MODULE LayerAllocation ---------------------------
(****************************************************************************)
(* How many layers each stage gets.  "live": build_resource_plan of          *)
(* scheduler/resource_scheduler.py gives one layer after the other to the    *)
(* stage that stays fastest, inside memory pools that ranks share.           *)
(* "static": allocate_layers of scheduler/pipeline_scheduler.py searches the *)
(* bottleneck time between the possible stage times.                         *)
(* Stage r is rank r.  Memory is in units of a layer: all layers of a model  *)
(* need the same (memory_model).                                             *)
(****************************************************************************)
EXTENDS Integers, Sequences, FiniteSets, FiniteSetsExt, Functions

CONSTANT Models   \* scheme, total, times, limits or memory of the instances

\* validate_compute_profile and the reports' validation: every stage can be given
\* a layer by the numbers, memory is not negative, an accelerator has a pool.
ASSUME AllocationAssumption ==
  \A m \in Models :
    /\ m.scheme \in {"live", "static"}
    /\ m.layerTime \in Seq(Nat \ {0}) /\ Len(m.layerTime) >= 1
    /\ m.first \in Nat /\ m.last \in Nat
    /\ m.total \in Nat /\ m.total >= Len(m.layerTime)
    /\ \A r \in 1 .. Len(m.layerTime) :
         /\ m.limit[r] \in Nat \ {0} /\ m.base[r] \in Nat
         /\ m.free[r].host \in Nat
         /\ (m.device[r] # "cpu") => (m.free[r].device \in Nat)

VARIABLES
  model,     \* one of Models; never changes
  shares,    \* layers given to each stage so far
  low, high, \* the interval of the binary search among the sorted candidates
  verdict    \* "deciding", "planned" or "refused"

allocationVars == <<model, shares, low, high, verdict>>
------------------------------------------------------------------------------
StageRanks == 1 .. Len(model.layerTime)
Size == Len(model.layerTime)

\* Extra time of the embedding and the head.
Endpoint(r) == (IF r = 1 THEN model.first ELSE 0) + (IF r = Size THEN model.last ELSE 0)
ComputeTime(r, n) == n * model.layerTime[r] + Endpoint(r)

\* The pools of a rank: its host's memory and, with an accelerator, the
\* device's on that host.
PoolsOf(r) ==
  {<<"host", model.host[r]>>} \cup
  IF model.device[r] = "cpu" THEN {} ELSE {<<"device", model.host[r], model.device[r]>>}
AllPools == UNION {PoolsOf(r) : r \in StageRanks}

\* Every rank of a pool reports its free memory; the smallest report counts.
Budget(pool) == Min({model.free[r][pool[1]] : r \in {q \in StageRanks : pool \in PoolsOf(q)}})
Usage(n, pool) ==
  SumFunction([r \in StageRanks |-> IF pool \in PoolsOf(r) THEN model.base[r] + n[r] ELSE 0])
Fits(n) == \A pool \in AllPools : Usage(n, pool) <= Budget(pool)

OneMore(n, r) == [n EXCEPT ![r] = @ + 1]
Given(n) == SumFunctionOnSet(n, StageRanks)

\* Mutant of Eligible: only the rank's own device, or host without one, counts.
EligibleByDevice(n, r) ==
  LET pool == IF model.device[r] = "cpu" THEN <<"host", model.host[r]>>
              ELSE <<"device", model.host[r], model.device[r]>>
  IN Usage(OneMore(n, r), pool) <= Budget(pool)

Eligible(n, r) == \A pool \in PoolsOf(r) : Usage(OneMore(n, r), pool) <= Budget(pool)

Earlier(a, b) == a[1] < b[1] \/ (a[1] = b[1] /\ a[2] < b[2])
Rating(n, r) == <<ComputeTime(r, n[r] + 1), r>>
------------------------------------------------------------------------------
\* The times of row r, as far as its limit and the other stages leave layers.
Row(r) == [n \in 1 .. Min({model.limit[r], model.total - Size + 1}) |-> ComputeTime(r, n)]
CandidateTimes == UNION {{Row(r)[n] : n \in DOMAIN Row(r)} : r \in StageRanks}
NthCandidate(i) == CHOOSE t \in CandidateTimes : Cardinality({u \in CandidateTimes : u <= t}) = i

\* bisect_right: the layers a stage can do in this time.
Cap(r, time) == Cardinality({n \in DOMAIN Row(r) : Row(r)[n] <= time})
Enough(time) ==
  /\ \A r \in StageRanks : Cap(r, time) > 0
  /\ SumFunction([r \in StageRanks |-> Cap(r, time)]) >= model.total

\* "Lexicographically smallest allocation among all minimax solutions."
Smallest(time) ==
  LET after(r) == SumFunctionOnSet([q \in StageRanks |-> Cap(q, time)], r + 1 .. Size)
      count(left, r) == Max({1, left - after(r)})
      remaining[r \in 0 .. Size] ==
        IF r = 0 THEN model.total ELSE remaining[r - 1] - count(remaining[r - 1], r)
  IN [r \in StageRanks |-> count(remaining[r - 1], r)]

AllocationInit ==
  /\ model \in Models
  /\ shares = [r \in StageRanks |-> 1]
  /\ low = 1
  /\ high = IF model.scheme = "static" THEN Cardinality(CandidateTimes) ELSE 1
  /\ verdict = IF IF model.scheme = "live" THEN Fits(shares)
                  ELSE SumFunctionOnSet(model.limit, StageRanks) >= model.total
               THEN "deciding" ELSE "refused"

\* One pass of the greedy loop.
GiveLayer(r) ==
  /\ verdict = "deciding" /\ model.scheme = "live" /\ Given(shares) < model.total
  /\ Eligible(shares, r)
  /\ \A q \in StageRanks \ {r} : Eligible(shares, q) => Earlier(Rating(shares, r), Rating(shares, q))
  /\ shares' = OneMore(shares, r)
  /\ UNCHANGED <<model, low, high, verdict>>

NoRoom ==
  /\ verdict = "deciding" /\ model.scheme = "live" /\ Given(shares) < model.total
  /\ \A r \in StageRanks : ~Eligible(shares, r)
  /\ verdict' = "refused"
  /\ UNCHANGED <<model, shares, low, high>>

AllGiven ==
  /\ verdict = "deciding" /\ model.scheme = "live" /\ Given(shares) = model.total
  /\ verdict' = "planned"
  /\ UNCHANGED <<model, shares, low, high>>

\* One pass of the binary search; the middle may be the optimum.
Halve ==
  /\ verdict = "deciding" /\ model.scheme = "static" /\ low < high
  /\ LET mid == (low + high) \div 2
     IN IF Enough(NthCandidate(mid)) THEN high' = mid /\ UNCHANGED low
        ELSE low' = mid + 1 /\ UNCHANGED high
  /\ UNCHANGED <<model, shares, verdict>>

TakeBottleneck ==
  /\ verdict = "deciding" /\ model.scheme = "static" /\ low >= high
  /\ shares' = Smallest(NthCandidate(low))
  /\ verdict' = "planned"
  /\ UNCHANGED <<model, low, high>>

AllocationNext ==
  \/ \E r \in StageRanks : GiveLayer(r)
  \/ NoRoom \/ AllGiven \/ Halve \/ TakeBottleneck

AllocationSpec == AllocationInit /\ [][AllocationNext]_allocationVars
------------------------------------------------------------------------------
Allocations == {n \in [StageRanks -> 1 .. model.total] : Given(n) = model.total}
Possible ==
  {n \in Allocations :
     IF model.scheme = "live" THEN Fits(n) ELSE \A r \in StageRanks : n[r] <= model.limit[r]}
Bottleneck(n) == Max({ComputeTime(r, n[r]) : r \in StageRanks})
Smaller(n, m) == \E r \in StageRanks : n[r] < m[r] /\ \A q \in 1 .. r - 1 : n[q] = m[q]

\* A plan is possible and no possible one has a faster bottleneck; among equal
\* ones the static search takes the smallest.  An instance is refused only if
\* nothing is possible: taking the fastest stage first never strands memory,
\* although pools overlap (build_resource_plan, allocate_layers).
PlanIsBest ==
  /\ verdict = "refused" => Possible = {}
  /\ verdict = "planned" =>
       /\ shares \in Possible
       /\ \A n \in Possible :
            /\ Bottleneck(shares) <= Bottleneck(n)
            /\ (model.scheme = "static" /\ Bottleneck(n) = Bottleneck(shares)) => ~Smaller(n, shares)
=============================================================================
