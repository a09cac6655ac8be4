----------------------------- MODULE Migration -----------------------------
(***************************************************************************)
(* Layers move between the stages of a pipeline while it trains:           *)
(* scheduler/rebalance.py and scheduler/migration.py.  After a completed   *)
(* step all ranks measure, agree on a plan, and pass through a sequence of *)
(* phases, each ended by a collective (dynamic_runtime.collect) in which a *)
(* rank that failed makes all ranks give up; the layers are sent one after *)
(* the other with blocking calls, and swapped in after a last vote.        *)
(*                                                                         *)
(* The tensors of a layer go together; the state of a layer is its         *)
(* identity and the number of updates it has had.  Loss of a rank or of    *)
(* the transport is fatal by design and left out.                          *)
(***************************************************************************)
EXTENDS Naturals, Sequences, FiniteSets

CONSTANTS
  WorldSize, NumLayers,
  RebalanceEvery,
  TotalSteps,
  MaxFaults      \* bound: actions that raise and transfers that damage a layer

ASSUME MigrationAssumption ==
  /\ WorldSize \in Nat \ {0}
  /\ NumLayers \in Nat /\ WorldSize <= NumLayers
  /\ RebalanceEvery \in Nat
  /\ TotalSteps \in Nat
  /\ MaxFaults \in Nat

Ranks == 0 .. (WorldSize - 1)
Layers == 1 .. NumLayers

\* stage_layers, one positive count per rank and together all layers, as their
\* running sums: the last layer of each rank.
Partitions ==
  {c \in [Ranks -> Layers] :
     /\ \A q, r \in Ranks : q < r => c[q] < c[r]
     /\ c[WorldSize - 1] = NumLayers}

\* The layers of each rank, and the owner of each layer, under the partition c.
Span(c, r) == (IF r = 0 THEN 1 ELSE c[r - 1] + 1) .. c[r]
OwnerIn(c, l) == CHOOSE r \in Ranks : l \in Span(c, r)

\* The state of a layer, and what a fresh or damaged one holds instead.
Good == Layers \X (0 .. TotalSteps)
Nothing == <<0, 0>>

VARIABLES
  pc,         \* the phase a rank is in
  vote,       \* what it brings to the phase's collective
  step,       \* completed steps
  counts,     \* args.stage_layers of each rank
  stage,      \* the layers of its active model, with their states
  proposal,   \* the partition planned from the gathered reports
  incoming,   \* the layers it allocated to receive
  sent,       \* how many of its transfers are done
  candidate,  \* the stage it has built
  faults

vars == <<pc, vote, step, counts, stage, proposal, incoming, sent, candidate, faults>>
plan == <<counts, stage, proposal>>

Phases == {"reports", "plan", "validate", "metadata", "headroom", "prepare", "build"}

Empty == [l \in {} |-> Nothing]

MigrationTypeOK ==
  /\ pc \in [Ranks -> Phases \cup {"train", "exchange", "swap", "settled"}]
  /\ vote \in [Ranks -> {"none", "ok", "failed"}]
  /\ step \in [Ranks -> 0 .. TotalSteps]
  /\ counts \in [Ranks -> Partitions]
  /\ proposal \in Partitions
  /\ \A r \in Ranks : stage[r] \in [Span(counts[r], r) -> Good]
  /\ DOMAIN incoming = Ranks /\ DOMAIN candidate = Ranks
  /\ sent \in [Ranks -> Nat]
  /\ faults \in 0 .. MaxFaults

Init ==
  /\ pc = [r \in Ranks |-> "train"]
  /\ vote = [r \in Ranks |-> "none"]
  /\ step = [r \in Ranks |-> 0]
  /\ proposal \in Partitions
  /\ counts = [r \in Ranks |-> proposal]
  /\ stage = [r \in Ranks |-> [l \in Span(proposal, r) |-> <<l, 0>>]]
  /\ incoming = [r \in Ranks |-> Empty]
  /\ sent = [r \in Ranks |-> 0]
  /\ candidate = [r \in Ranks |-> Empty]
  /\ faults = 0

Fault == faults < MaxFaults /\ faults' = faults + 1

-----------------------------------------------------------------------------
(* Training.                                                               *)

\* maybe_rebalance looks at the resources again; not after the last step.
Due(s) == RebalanceEvery > 0 /\ s % RebalanceEvery = 0 /\ s < TotalSteps

\* Every rank takes part in a step before any finishes it.
Train(r) ==
  /\ pc[r] = "train" /\ step[r] < TotalSteps
  /\ \A q \in Ranks : (step[q] = step[r] /\ pc[q] = "train") \/ step[q] = step[r] + 1
  /\ step' = [step EXCEPT ![r] = @ + 1]
  /\ stage' = [stage EXCEPT ![r] = [l \in DOMAIN @ |-> <<@[l][1], @[l][2] + 1>>]]
  /\ pc' = [pc EXCEPT ![r] = IF Due(step[r] + 1) THEN "reports" ELSE "train"]
  /\ UNCHANGED <<vote, counts, proposal, incoming, sent, candidate, faults>>

-----------------------------------------------------------------------------
(* Phases ended by collect().                                              *)

In(r, p) == pc[r] = p /\ vote[r] = "none"
Vote(r, v) == vote' = [vote EXCEPT ![r] = v]

\* The action of a phase raises on one rank.
Raise(r) ==
  /\ pc[r] \in Phases /\ vote[r] = "none"
  /\ Fault
  /\ Vote(r, "failed")
  /\ UNCHANGED <<pc, step, plan, incoming, sent, candidate>>

\* Actions that only gather: measurements, plan, assignments, digests, memory.
Gather(r) ==
  /\ pc[r] \in Phases \ {"prepare", "build"} /\ vote[r] = "none"
  /\ Vote(r, "ok")
  /\ UNCHANGED <<pc, step, plan, incoming, sent, candidate, faults>>

\* The layers whose owner changes.
Moving == {l \in Layers : OwnerIn(counts[0], l) # OwnerIn(proposal, l)}
Source(l) == OwnerIn(counts[0], l)
Target(l) == OwnerIn(proposal, l)

\* All storage is allocated before the first send.
Prepare(r) ==
  /\ In(r, "prepare")
  /\ incoming' = [incoming EXCEPT ![r] = [l \in {m \in Moving : Target(m) = r} |-> Nothing]]
  /\ Vote(r, "ok")
  /\ UNCHANGED <<pc, step, plan, sent, candidate, faults>>

\* The stage a rank will have: the layers it keeps and those it received.
Candidate(r) ==
  [l \in Span(proposal, r) |-> IF l \in DOMAIN incoming[r] THEN incoming[r][l] ELSE stage[r][l]]

\* Mutant of Verified: the checksums are not compared.
VerifiedAny(r) == TRUE

\* The digests of what was received are those the owners announced.
Verified(r) == \A l \in DOMAIN incoming[r] : incoming[r][l] = stage[Source(l)][l]

\* build_candidate
Build(r) ==
  /\ In(r, "build")
  /\ \/ /\ Verified(r)
        /\ candidate' = [candidate EXCEPT ![r] = Candidate(r)]
        /\ Vote(r, "ok")
     \/ /\ ~Verified(r)
        /\ Vote(r, "failed")
        /\ UNCHANGED candidate
  /\ UNCHANGED <<pc, step, plan, incoming, sent, faults>>

\* Ranks go to their next phases; what a session leaves over is dropped.
Leave(to) ==
  LET kept(f, none) == [r \in Ranks |-> IF to[r] = "train" THEN none ELSE f[r]] IN
  /\ pc' = to
  /\ vote' = [r \in Ranks |-> "none"]
  /\ incoming' = kept(incoming, Empty)
  /\ candidate' = kept(candidate, Empty)
  /\ sent' = kept(sent, 0)
  /\ UNCHANGED <<step, counts, stage, faults>>

\* Mutant of Raises: a rank knows of its own failure only.
RaisesOwn(r) == vote[r] = "failed"

\* What collect() does on rank r: it raises if any rank has failed.
Raises(r) == \E q \in Ranks : vote[q] = "failed"

\* Where ranks go from phase p if nothing failed.  What they decide is computed
\* by each from the same gathered values: whether a plan exists, whether it is
\* worth a migration, and whether there is memory for it.
Continue(p) ==
  CASE p = "reports" -> {"plan", "train"}
    [] p = "plan" -> {"train"} \cup (IF proposal # counts[0] THEN {"validate"} ELSE {})
    [] p = "validate" -> {"metadata"}
    [] p = "metadata" -> {"headroom"}
    [] p = "headroom" -> {"prepare", "train"}
    [] p = "prepare" -> {"exchange"}
    [] p = "build" -> {"swap"}

\* All ranks leave a phase together.
Collect(p) ==
  /\ \A r \in Ranks : pc[r] = p /\ vote[r] # "none"
  /\ \E next \in Continue(p) :
       /\ proposal' \in IF next = "plan" THEN Partitions ELSE {proposal}
       /\ Leave([r \in Ranks |-> IF Raises(r) THEN "train" ELSE next])

-----------------------------------------------------------------------------
(* The exchange.                                                           *)

InOrder == [l \in Layers |-> l]

\* Mutant of Transfers: a rank sends all it has before it receives.
SendsFirst(r) ==
  SelectSeq(InOrder, LAMBDA l : Source(l) = r /\ Target(l) # r) \o
  SelectSeq(InOrder, LAMBDA l : Source(l) # r /\ Target(l) = r)

\* The layers rank r sends or receives, in the order that is the same everywhere.
Transfers(r) == SelectSeq(InOrder, LAMBDA l : Source(l) # Target(l) /\ r \in {Source(l), Target(l)})

More(r) == pc[r] = "exchange" /\ sent[r] < Len(Transfers(r))
Current(r) == Transfers(r)[sent[r] + 1]

\* send and recv meet; calls of one pair of ranks match in their order.
Transfer(p, q) ==
  /\ More(p) /\ More(q)
  /\ Source(Current(p)) = p /\ Target(Current(p)) = q
  /\ Target(Current(q)) = q /\ Source(Current(q)) = p
  /\ \/ /\ incoming' = [incoming EXCEPT ![q][Current(q)] = stage[p][Current(p)]]
        /\ UNCHANGED faults
     \/ Fault /\ UNCHANGED incoming       \* damaged on the way
  /\ sent' = [sent EXCEPT ![p] = @ + 1, ![q] = @ + 1]
  /\ UNCHANGED <<pc, vote, step, plan, candidate>>

Exchanged(r) ==
  /\ pc[r] = "exchange" /\ ~More(r)
  /\ pc' = [pc EXCEPT ![r] = "build"]
  /\ UNCHANGED <<vote, step, plan, incoming, sent, candidate, faults>>

\* Mutant of Swap: the assignment is not applied.
SwapStageOnly(r) ==
  /\ pc[r] = "swap"
  /\ stage' = [stage EXCEPT ![r] = candidate[r]]
  /\ pc' = [pc EXCEPT ![r] = "settled"]
  /\ UNCHANGED <<vote, step, counts, proposal, incoming, sent, candidate, faults>>

\* After the unanimous vote the active references are replaced.
Swap(r) ==
  /\ pc[r] = "swap"
  /\ stage' = [stage EXCEPT ![r] = candidate[r]]
  /\ counts' = [counts EXCEPT ![r] = proposal]
  /\ pc' = [pc EXCEPT ![r] = "settled"]
  /\ UNCHANGED <<vote, step, proposal, incoming, sent, candidate, faults>>

\* The barrier at the end.
Settle ==
  /\ \A r \in Ranks : pc[r] = "settled"
  /\ Leave([r \in Ranks |-> "train"])
  /\ UNCHANGED proposal

Next ==
  \/ \E r \in Ranks :
       \/ Train(r)
       \/ Raise(r)
       \/ Gather(r)
       \/ Prepare(r)
       \/ Build(r)
       \/ Exchanged(r)
       \/ Swap(r)
       \/ \E q \in Ranks : Transfer(r, q)
  \/ \E p \in Phases : Collect(p)
  \/ Settle

\* The ranks' processes run, and a blocking call returns when it can.
Spec == Init /\ [][Next]_vars /\ WF_vars(Next)

-----------------------------------------------------------------------------
(* Properties.                                                             *)

\* The stage a rank trains or is bound to train: the last vote decides.
Active(r) == IF pc[r] = "swap" THEN candidate[r] ELSE stage[r]

\* At any time every layer is active on exactly one rank, even if some ranks have
\* swapped and others have not yet, or one of them failed in any phase.
OneOwner == \A l \in Layers : Cardinality({r \in Ranks : l \in DOMAIN Active(r)}) = 1

\* Ranks that train have one idea of the partition, their own part of it, and
\* layers that are the right ones and have had every update.
TrainedStages ==
  \A r \in Ranks : pc[r] = "train" =>
    /\ \A q \in Ranks : pc[q] = "train" => counts[q] = counts[r]
    /\ DOMAIN stage[r] = Span(counts[r], r)
    /\ \A l \in DOMAIN stage[r] : stage[r][l] = <<l, step[r]>>

\* Rebalancing never ends the training: whatever fails, every rank gets through
\* every session, and the ordered blocking calls meet.
TrainingDone == \A r \in Ranks : step[r] = TotalSteps

Owner(l) == CHOOSE r \in Ranks : l \in DOMAIN Active(r)

LayerOwnersSpec == INSTANCE LayerOwners WITH
  Owners <- Ranks,
  owner <- [l \in Layers |-> Owner(l)],
  updates <- [l \in Layers |-> Active(Owner(l))[l][2]]

\* Seen from a layer, a migration is one step between two steps of training.
MovesBetweenSteps == LayerOwnersSpec!Spec
=============================================================================
