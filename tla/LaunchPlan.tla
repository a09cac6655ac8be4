------------------------------ MODULE LaunchPlan ------------------------------
(****************************************************************************)
(* From measured links to a launch (utils/launch_manifest.py): the cheapest  *)
(* pipeline order is searched, the launch ranks are derived from it and      *)
(* written to a file, and whoever launches from the file first derives       *)
(* everything again (scripts/profile_to_launch_manifest.py,                  *)
(* validate_manifest).  Somebody may have edited the file in between.        *)
(****************************************************************************)
EXTENDS Integers, Sequences, FiniteSets

CONSTANTS
  Probes,   \* measured matrices: [a][b] is the time from a to b, Unmeasured if none
  Hosts     \* Hosts[m] is the host and device of measured rank m

Unmeasured == 0

\* validate_profile: square, every link of latency and bandwidth positive.
ASSUME LaunchPlanAssumption ==
  \A p \in Probes :
    /\ p \in Seq(Seq(Nat)) /\ Len(p) >= 2 /\ Len(p) <= Len(Hosts)
    /\ \A a \in DOMAIN p : DOMAIN p[a] = DOMAIN p

VARIABLES
  probe,    \* what the search works on
  masks,    \* sets of ranks whose paths are not extended yet
  best,     \* states: the best path through a set that ends in a rank
  manifest, \* the launch file
  edited,   \* somebody changed it
  launching \* "building", "written", "validating", "accepted" or "refused"

planVars == <<probe, masks, best, manifest, edited, launching>>
------------------------------------------------------------------------------
Measured == DOMAIN probe
Masks(p) == (SUBSET DOMAIN p) \ {{}}

\* The bit mask of S is a smaller number than that of T.
Precedes(S, T) == \E r \in T \ S : \A q \in S \ T : q < r

Linked(a, b) == probe[a][b] # Unmeasured /\ probe[b][a] # Unmeasured

\* Mutant of Edge: activations go one way, gradients are forgotten.
EdgeForward(a, b) == probe[a][b]

\* The time of the activations and of the gradients.
Edge(a, b) == probe[a][b] + probe[b][a]

SmallerPath(o, q) == \E i \in DOMAIN o : o[i] < q[i] /\ \A k \in 1 .. i - 1 : o[k] = q[k]
Better(x, y) == x.cost < y.cost \/ (x.cost = y.cost /\ SmallerPath(x.path, y.path))
Least(S) == CHOOSE x \in S : \A y \in S \ {x} : Better(x, y)

\* Paths that go from a best one through S to one more rank.
Extensions(S, next) ==
  {[cost |-> best[<<S, last>>].cost + Edge(last, next), path |-> Append(best[<<S, last>>].path, next)] :
     last \in {r \in Measured : <<S, r>> \in DOMAIN best /\ Linked(r, next)}}
Reached(S) == {next \in Measured \ S : Extensions(S, next) # {}}

StartOf(p) == [k \in {<<{r}, r>> : r \in DOMAIN p} |-> [cost |-> 0, path |-> <<k[2]>>]]

\* Rank r runs where the r-th of the order was measured; the first is master.
ManifestOf(p, order) ==
  [profile |-> p, order |-> order, master |-> Hosts[order[1]],
   ranks |-> [r \in DOMAIN order |-> [measured |-> order[r], host |-> Hosts[order[r]]]]]

NoManifest == [profile |-> <<>>, order |-> <<>>, master |-> <<>>, ranks |-> <<>>]

PlanInit ==
  /\ probe \in Probes
  /\ masks = Masks(probe)
  /\ best = StartOf(probe)
  /\ manifest = NoManifest
  /\ edited = FALSE
  /\ launching = "building"

Searching == launching \in {"building", "validating"}

\* One mask of the search, in the order of their numbers.
ExtendMask ==
  /\ Searching
  /\ \E S \in masks :
       /\ \A T \in masks \ {S} : Precedes(S, T)
       /\ masks' = masks \ {S}
       /\ best' = [k \in DOMAIN best \cup {<<S \cup {n}, n>> : n \in Reached(S)} |->
                     IF k \in DOMAIN best THEN best[k] ELSE Least(Extensions(S, k[2]))]
  /\ UNCHANGED <<probe, manifest, edited, launching>>

Complete == {best[<<Measured, r>>] : r \in {r \in Measured : <<Measured, r>> \in DOMAIN best}}

NoPipeline ==
  /\ Searching /\ masks = {} /\ Complete = {}
  /\ launching' = "refused"
  /\ UNCHANGED <<probe, masks, best, manifest, edited>>

Write ==
  /\ launching = "building" /\ masks = {} /\ Complete # {}
  /\ manifest' = ManifestOf(probe, Least(Complete).path)
  /\ launching' = "written"
  /\ UNCHANGED <<probe, masks, best, edited>>

Swapped(s) == [s EXCEPT ![1] = s[2], ![2] = s[1]]

\* An operator changes one field of the file.
Edit ==
  /\ launching = "written" /\ ~edited
  /\ edited' = TRUE
  /\ \/ manifest' = [manifest EXCEPT !.order = Swapped(@)]
     \/ manifest' = [manifest EXCEPT !.ranks = Swapped(@)]
     \/ manifest' = [manifest EXCEPT !.master = manifest.ranks[2].host]
     \/ \E p \in Probes :
          /\ Len(p) = Len(probe) /\ p # probe
          /\ manifest' = [manifest EXCEPT !.profile = p]
  /\ UNCHANGED <<probe, masks, best, launching>>

\* validate_manifest builds everything again from the file's own inputs.
Validate ==
  /\ launching = "written"
  /\ launching' = "validating"
  /\ probe' = manifest.profile
  /\ masks' = Masks(manifest.profile)
  /\ best' = StartOf(manifest.profile)
  /\ UNCHANGED <<manifest, edited>>

Compare ==
  /\ launching = "validating" /\ masks = {} /\ Complete # {}
  /\ launching' = IF manifest = ManifestOf(probe, Least(Complete).path) THEN "accepted" ELSE "refused"
  /\ UNCHANGED <<probe, masks, best, manifest, edited>>

PlanNext == ExtendMask \/ NoPipeline \/ Write \/ Edit \/ Validate \/ Compare

PlanSpec == PlanInit /\ [][PlanNext]_planVars
------------------------------------------------------------------------------
\* All orders of a profile whose neighbours can exchange data in both directions.
OrdersOf(p) ==
  {o \in [DOMAIN p -> DOMAIN p] :
     /\ \A a, b \in DOMAIN p : a # b => o[a] # o[b]
     /\ \A i \in 1 .. Len(p) - 1 : p[o[i]][o[i + 1]] # Unmeasured /\ p[o[i + 1]][o[i]] # Unmeasured}
CostOf(p, o) ==
  LET cost[i \in 1 .. Len(o)] ==
        IF i = 1 THEN 0 ELSE cost[i - 1] + p[o[i - 1]][o[i]] + p[o[i]][o[i - 1]]
  IN cost[Len(o)]
BestOrder(p, o) ==
  /\ o \in OrdersOf(p)
  /\ \A q \in OrdersOf(p) :
       CostOf(p, o) < CostOf(p, q) \/ (CostOf(p, o) = CostOf(p, q) /\ ~SmallerPath(q, o))

\* The order that is launched costs least of all over links that work in both
\* directions, the first such in rank order, and every rank is launched on the
\* host it was measured on, whatever was edited in the file; a file as written
\* is accepted, and nothing is refused that has an order (_ordering,
\* build_manifest, validate_manifest).
LaunchesBestOrder ==
  /\ launching \in {"written", "accepted"} /\ (edited => launching = "accepted") =>
       /\ BestOrder(manifest.profile, manifest.order)
       /\ manifest.master = Hosts[manifest.order[1]]
       /\ \A r \in DOMAIN manifest.order :
            manifest.ranks[r] = [measured |-> manifest.order[r], host |-> Hosts[manifest.order[r]]]
  /\ launching = "refused" /\ ~edited => OrdersOf(probe) = {}
=============================================================================
