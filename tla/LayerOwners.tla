---------------------------- MODULE LayerOwners ----------------------------
(***************************************************************************)
(* What training with a movable partition promises: every layer has one    *)
(* owner at any time, the owners form a pipeline, a layer moves only       *)
(* between two steps, and moving changes nothing of it ("only layers whose *)
(* owner changes" are transferred, and training continues as if they had   *)
(* stayed, SCHEDULER.md).                                                  *)
(***************************************************************************)
EXTENDS Naturals

CONSTANTS Layers, Owners   \* sets of naturals: layers and stages have an order

VARIABLES
  owner,    \* [Layers -> Owners]
  updates   \* [Layers -> Nat], the optimizer updates a layer has had

\* Consecutive stages own consecutive layers, and each owns one.
Pipelines ==
  {f \in [Layers -> Owners] :
     /\ \A l, m \in Layers : l < m => f[l] <= f[m]
     /\ \A o \in Owners : \E l \in Layers : f[l] = o}

Init == owner \in Pipelines /\ updates = [l \in Layers |-> 0]

\* A stage finishes a step: the others are in the same step or done with it.
Step(o) ==
  LET mine == {l \in Layers : owner[l] = o} IN
  /\ \A l \in mine, m \in Layers : updates[l] <= updates[m] /\ updates[m] <= updates[l] + 1
  /\ updates' = [l \in Layers |-> IF l \in mine THEN updates[l] + 1 ELSE updates[l]]
  /\ UNCHANGED owner

Move ==
  /\ \A l, m \in Layers : updates[l] = updates[m]
  /\ owner' \in Pipelines
  /\ UNCHANGED updates

Next == (\E o \in Owners : Step(o)) \/ Move

Spec == Init /\ [][Next]_<<owner, updates>>
=============================================================================
