--------------------------- MODULE PipelineProofs ---------------------------
(***************************************************************************)
(* Proofs about how a model is divided among the stages of a pipeline.     *)
(*                                                                         *)
(* Migration, for any number of ranks, layers and steps and any            *)
(* partitions: layers keep exactly one owner through every session, and a  *)
(* session is one atomic move of LayerOwners.  A session is a sequence of  *)
(* moments that all ranks are in together; what they agree on is the       *)
(* partition before the last vote and the proposal after it.               *)
(*                                                                         *)
(* StagePartitions, for any depth of the model and any number of stages:   *)
(* the tensors sent over a cut are those the next stage expects.           *)
(*                                                                         *)
(* PlacementSearch, for any number and size of partitions and any costs:   *)
(* moves leave the partitions balanced wherever a cycle is cut, the search *)
(* never gets stuck or worse, and the ranks are a placement.               *)
(*                                                                         *)
(* LaunchPlan, for any measured links: the order that is launched is the   *)
(* best of all, and nothing that has an order is refused.                  *)
(***************************************************************************)
EXTENDS Migration, StagePartitions, PlacementSearch, LaunchPlan,
        FiniteSetTheorems, SequenceTheorems, WellFoundedInduction, TLAPS

------------------------------------------------------------------------------
(* The inductive invariant.                                                *)

MigrationTypes ==
  /\ pc \in [Ranks -> Phases \cup {"train", "exchange", "swap", "settled"}]
  /\ vote \in [Ranks -> {"none", "ok", "failed"}]
  /\ step \in [Ranks -> Nat]
  /\ proposal \in Partitions
  /\ counts \in [Ranks -> Partitions]
  /\ DOMAIN stage = Ranks /\ DOMAIN incoming = Ranks /\ DOMAIN candidate = Ranks

\* Ranks leave a phase together, except for those they leave one by one.
Moments ==
  {{"train", "reports"}, {"plan"}, {"validate"}, {"metadata"}, {"headroom"}, {"prepare"},
   {"exchange", "build"}, {"swap", "settled"}}
Together == \E M \in Moments : \A r \in Ranks : pc[r] \in M

\* Ranks vote in the phases that end with a vote.
VotesInPhases == \A r \in Ranks : vote[r] # "none" => pc[r] \in Phases

\* A rank that is behind still trains, and is behind by one step.
StepsClose ==
  \A q, r \in Ranks : step[q] < step[r] => pc[q] = "train" /\ step[r] = step[q] + 1

\* What rank r holds of the layers it has under the partition c.
Trained(c, r) == [l \in Span(c, r) |-> <<l, step[r]>>]

CountsAgree ==
  /\ \A r \in Ranks : pc[r] = "settled" => counts[r] = proposal
  /\ \A q, r \in Ranks : pc[q] # "settled" /\ pc[r] # "settled" => counts[q] = counts[r]

StagesTrained == \A r \in Ranks : stage[r] = Trained(counts[r], r)

\* From the first allocation to the vote on what was built.
Allocated(r) ==
  \/ pc[r] = "prepare" /\ vote[r] = "ok"
  \/ pc[r] \in {"exchange", "build"}

AllocatedForMoving ==
  \A r \in Ranks : Allocated(r) => DOMAIN incoming[r] = {l \in Moving : Target(l) = r}

Built(r) ==
  \/ pc[r] = "build" /\ vote[r] = "ok"
  \/ pc[r] = "swap"

CandidatesTrained == \A r \in Ranks : Built(r) => candidate[r] = Trained(proposal, r)

MInv ==
  /\ MigrationTypes
  /\ Together
  /\ VotesInPhases
  /\ StepsClose
  /\ CountsAgree
  /\ StagesTrained
  /\ AllocatedForMoving
  /\ CandidatesTrained

------------------------------------------------------------------------------
(* Lemmas about partitions.                                                *)

\* A set of natural numbers that is not empty has a least element.
LEMMA LeastOfSet ==
  ASSUME NEW T, T \subseteq Nat, T # {}
  PROVE  \E x \in T : \A y \in T : x <= y
<1>1. PICK x \in T : \A y \in T : ~(<<y, x>> \in OpToRel(<, Nat))
  BY WFMin, NatLessThanWellFounded
<1>2. \A y \in T : ~(y < x)
  BY <1>1 DEF OpToRel
<1> QED BY <1>2

LEMMA RanksAreNumbers ==
  /\ Ranks \subseteq Nat /\ 0 \in Ranks /\ WorldSize - 1 \in Ranks
  /\ \A r \in Ranks : r # 0 => r - 1 \in Ranks
  /\ Layers \subseteq Nat \ {0} /\ NumLayers \in Nat
BY MigrationAssumption DEF Ranks, Layers

\* A layer is in at most one span.
LEMMA SpansDisjoint ==
  ASSUME NEW c \in Partitions, NEW q \in Ranks, NEW r \in Ranks,
         NEW l \in Span(c, q), l \in Span(c, r)
  PROVE  q = r
<1>1. c \in [Ranks -> Layers] /\ \A p, s \in Ranks : p < s => c[p] < c[s]
  BY DEF Partitions
<1>2. \A p \in Ranks : c[p] \in Nat
  BY <1>1, RanksAreNumbers
<1>3. \A p, s \in Ranks : p < s => ~(l \in Span(c, p) /\ l \in Span(c, s))
  <2> SUFFICES ASSUME NEW p \in Ranks, NEW s \in Ranks, p < s,
                      l \in Span(c, p), l \in Span(c, s)
               PROVE  FALSE
    OBVIOUS
  <2>1. s # 0 /\ s - 1 \in Ranks /\ p \in Nat /\ s \in Nat
    BY RanksAreNumbers
  <2>2. l \in c[s - 1] + 1 .. c[s] /\ l <= c[p]
    BY <2>1, <1>2, RanksAreNumbers DEF Span
  <2>3. c[p] <= c[s - 1]
    BY <2>1, <1>1, <1>2
  <2> QED BY <2>1, <2>2, <2>3, <1>2
<1> QED BY <1>3, RanksAreNumbers

\* Every layer has an owner under a partition, and one only.
LEMMA OwnersExist ==
  ASSUME NEW c \in Partitions, NEW l \in Layers
  PROVE  /\ OwnerIn(c, l) \in Ranks
         /\ l \in Span(c, OwnerIn(c, l))
         /\ \A r \in Ranks : l \in Span(c, r) => r = OwnerIn(c, l)
<1>1. c \in [Ranks -> Layers] /\ c[WorldSize - 1] = NumLayers
  BY DEF Partitions
<1>2. \A p \in Ranks : c[p] \in Nat
  BY <1>1, RanksAreNumbers
<1> DEFINE T == {r \in Ranks : l <= c[r]}
<1>3. T \subseteq Nat /\ WorldSize - 1 \in T
  <2>1. \A n \in Layers : n <= NumLayers
    BY RanksAreNumbers DEF Layers
  <2> QED BY <1>1, <2>1, RanksAreNumbers
<1>4. PICK r \in T : \A q \in T : r <= q
  BY <1>3, LeastOfSet
<1>5. l \in Span(c, r)
  <2>1. CASE r = 0
    BY <2>1, <1>2, <1>4, RanksAreNumbers DEF Span, Layers
  <2>2. CASE r # 0
    <3>1. r - 1 \in Ranks /\ r \in Nat /\ r - 1 \notin T
      BY <2>2, <1>4, RanksAreNumbers
    <3>2. l > c[r - 1]
      BY <3>1, <1>2, RanksAreNumbers
    <3> QED BY <3>1, <3>2, <2>2, <1>2, <1>4, RanksAreNumbers DEF Span
  <2> QED BY <2>1, <2>2
<1>6. OwnerIn(c, l) \in Ranks /\ l \in Span(c, OwnerIn(c, l))
  BY <1>5 DEF OwnerIn
<1> QED BY <1>6, SpansDisjoint

LEMMA SpansAreLayers ==
  ASSUME NEW c \in Partitions, NEW r \in Ranks
  PROVE  Span(c, r) \subseteq Layers /\ c[r] \in Span(c, r)
<1>1. c \in [Ranks -> Layers] /\ \A p, s \in Ranks : p < s => c[p] < c[s]
  BY DEF Partitions
<1>2. CASE r = 0
  BY <1>1, <1>2, RanksAreNumbers DEF Span, Layers
<1>3. CASE r # 0
  <2>1. r - 1 \in Ranks /\ r \in Nat
    BY <1>3, RanksAreNumbers
  <2>2. c[r - 1] < c[r] /\ c[r] \in Layers /\ c[r - 1] \in Layers
    BY <2>1, <1>1
  <2> QED BY <2>2, <1>3, RanksAreNumbers DEF Span, Layers
<1> QED BY <1>2, <1>3

\* The owners of a partition form a pipeline.
LEMMA OwnersFormPipeline ==
  ASSUME NEW c \in Partitions
  PROVE  [l \in Layers |-> OwnerIn(c, l)] \in LayerOwnersSpec!Pipelines
<1> DEFINE f == [l \in Layers |-> OwnerIn(c, l)]
<1>1. f \in [Layers -> Ranks]
  BY OwnersExist
<1>2. \A l, m \in Layers : l < m => f[l] <= f[m]
  <2> SUFFICES ASSUME NEW l \in Layers, NEW m \in Layers, l < m, f[m] < f[l]
               PROVE  FALSE
    <3> HIDE DEF f
    <3>1. \A l \in Layers : f[l] \in Nat
      BY <1>1, RanksAreNumbers
    <3> QED BY <3>1
  <2>1. f[l] \in Ranks /\ f[m] \in Ranks /\ l \in Span(c, f[l]) /\ m \in Span(c, f[m])
    BY OwnersExist
  <2>2. f[l] # 0 /\ f[l] - 1 \in Ranks /\ f[l] \in Nat /\ f[m] \in Nat
    <3> HIDE DEF f
    <3>1. f[l] \in Nat /\ f[m] \in Nat
      BY <2>1, RanksAreNumbers
    <3>2. f[l] # 0
      BY <3>1
    <3> QED BY <3>1, <3>2, <2>1, RanksAreNumbers
  <2>3. c \in [Ranks -> Nat] /\ \A p, s \in Ranks : p < s => c[p] < c[s]
    BY RanksAreNumbers DEF Partitions
  <2>4. c[f[l] - 1] < l /\ m <= c[f[m]]
    BY <2>1, <2>2, <2>3, RanksAreNumbers DEF Span
  <2>5. c[f[m]] <= c[f[l] - 1]
    <3> HIDE DEF f
    <3> QED BY <2>1, <2>2, <2>3
  <2>6. c[f[m]] \in Nat /\ c[f[l] - 1] \in Nat /\ l \in Nat /\ m \in Nat
    BY <2>1, <2>2, <2>3, RanksAreNumbers
  <2> QED BY ONLY <2>4, <2>5, <2>6, l < m
<1>3. \A o \in Ranks : \E l \in Layers : f[l] = o
  <2> SUFFICES ASSUME NEW o \in Ranks PROVE c[o] \in Layers /\ OwnerIn(c, c[o]) = o
    OBVIOUS
  <2>1. c[o] \in Layers /\ c[o] \in Span(c, o)
    BY SpansAreLayers
  <2> QED BY <2>1, OwnersExist
<1> QED BY <1>1, <1>2, <1>3 DEF LayerOwnersSpec!Pipelines

------------------------------------------------------------------------------
(* The invariant is inductive.                                             *)

LEMMA MigrationStarts == Init => MInv
<1> SUFFICES ASSUME Init PROVE MInv
  OBVIOUS
<1> USE DEF Init
<1>1. MigrationTypes
  BY DEF MigrationTypes
<1>2. Together
  BY DEF Together, Moments
<1>3. VotesInPhases /\ StepsClose /\ CountsAgree
  BY DEF VotesInPhases, StepsClose, CountsAgree
<1>4. StagesTrained
  BY DEF StagesTrained, Trained
<1>5. AllocatedForMoving /\ CandidatesTrained
  BY DEF AllocatedForMoving, CandidatesTrained, Allocated, Built
<1> QED BY <1>1, <1>2, <1>3, <1>4, <1>5 DEF MInv

\* Once nobody trains any more, all ranks have made the same steps.
LEMMA SessionAfterStep ==
  ASSUME MigrationTypes, StepsClose, \A r \in Ranks : pc[r] # "train"
  PROVE  \A q, r \in Ranks : step[q] = step[r]
BY DEF MigrationTypes, StepsClose

LEMMA TrainKeeps ==
  ASSUME MInv, NEW r \in Ranks, Train(r)
  PROVE  MInv'
<1> USE DEF MInv
<1>1. MigrationTypes'
  BY DEF Train, MigrationTypes, Phases
<1>2. \A q \in Ranks : pc[q] \in {"train", "reports"}
  BY DEF Together, Moments, Train
<1>3. \A q \in Ranks : pc'[q] \in {"train", "reports"}
  BY <1>2 DEF Train, MigrationTypes
<1>4. Together'
  BY <1>3 DEF Together, Moments
<1>5. VotesInPhases'
  BY <1>2 DEF VotesInPhases, Train, MigrationTypes, Phases
<1>6. StepsClose'
  <2>1. step' = [step EXCEPT ![r] = step[r] + 1] /\ step \in [Ranks -> Nat]
    BY DEF Train, MigrationTypes
  <2>2. \A q \in Ranks : q # r => pc'[q] = pc[q]
    BY DEF Train, MigrationTypes
  <2>3. \A q \in Ranks : (step[q] = step[r] /\ pc[q] = "train") \/ step[q] = step[r] + 1
    BY DEF Train
  <2> SUFFICES ASSUME NEW p \in Ranks, NEW q \in Ranks, step'[p] < step'[q]
               PROVE  pc'[p] = "train" /\ step'[q] = step'[p] + 1
    BY DEF StepsClose
  <2>4. CASE p = r
    BY <2>1, <2>3, <2>4
  <2>5. CASE p # r /\ q = r
    BY <2>1, <2>2, <2>3, <2>5
  <2>6. CASE p # r /\ q # r
    BY <2>1, <2>2, <2>6 DEF StepsClose
  <2> QED BY <2>4, <2>5, <2>6
<1>7. CountsAgree'
  BY <1>2, <1>3 DEF CountsAgree, Train
<1>8. StagesTrained'
  <2> SUFFICES ASSUME NEW q \in Ranks PROVE stage'[q] = Trained(counts[q], q)'
    BY DEF StagesTrained
  <2>1. counts' = counts /\ step[r] \in Nat
    BY DEF Train, MigrationTypes
  <2>2. CASE q = r
    <3>1. stage'[r] = [l \in DOMAIN stage[r] |-> <<stage[r][l][1], stage[r][l][2] + 1>>]
      BY DEF Train, MigrationTypes
    <3>2. stage[r] = [l \in Span(counts[r], r) |-> <<l, step[r]>>]
      BY DEF StagesTrained, Trained
    <3>3. stage'[r] = [l \in Span(counts[r], r) |-> <<l, step[r] + 1>>]
      BY <3>1, <3>2
    <3>4. step'[r] = step[r] + 1
      BY DEF Train, MigrationTypes
    <3> QED BY <2>1, <2>2, <3>3, <3>4 DEF Trained, Span
  <2>3. CASE q # r
    <3>1. stage'[q] = stage[q] /\ step'[q] = step[q]
      BY <2>3 DEF Train, MigrationTypes
    <3> QED BY <2>1, <3>1 DEF StagesTrained, Trained, Span
  <2> QED BY <2>2, <2>3
<1>9. AllocatedForMoving' /\ CandidatesTrained'
  BY <1>3 DEF AllocatedForMoving, CandidatesTrained, Allocated, Built
<1> QED BY <1>1, <1>4, <1>5, <1>6, <1>7, <1>8, <1>9

\* A vote disturbs nothing that all ranks agree on.
LEMMA VoteKeeps ==
  ASSUME MInv, NEW r \in Ranks, NEW v \in {"ok", "failed"}, pc[r] \in Phases,
         vote' = [vote EXCEPT ![r] = v], UNCHANGED <<pc, step, plan>>,
         DOMAIN incoming' = Ranks, DOMAIN candidate' = Ranks
  PROVE  /\ MigrationTypes' /\ Together' /\ VotesInPhases'
         /\ StepsClose' /\ CountsAgree' /\ StagesTrained'
<1> USE DEF MInv, plan
<1>1. MigrationTypes'
  BY DEF MigrationTypes
<1>2. Together'
  BY DEF Together
<1>3. VotesInPhases'
  BY DEF VotesInPhases, MigrationTypes
<1>4. StepsClose' /\ CountsAgree'
  BY DEF StepsClose, CountsAgree
<1>5. StagesTrained'
  BY DEF StagesTrained, Trained, Span
<1> QED BY <1>1, <1>2, <1>3, <1>4, <1>5

LEMMA MovingKept ==
  ASSUME UNCHANGED <<counts, proposal>>
  PROVE  /\ Moving' = Moving
         /\ \A l : Target(l)' = Target(l) /\ Source(l)' = Source(l)
         /\ \A r : Span(proposal, r)' = Span(proposal, r)
BY DEF Moving, Target, Source, OwnerIn, Span

LEMMA RaiseKeeps ==
  ASSUME MInv, NEW r \in Ranks, Raise(r) \/ Gather(r)
  PROVE  MInv'
<1> USE DEF MInv, plan
<1>1. PICK v \in {"ok", "failed"} :
        /\ vote' = [vote EXCEPT ![r] = v]
        /\ v = "ok" => pc[r] \notin {"prepare", "build"}
  BY DEF Raise, Gather, Vote
<1>2. pc[r] \in Phases /\ vote[r] = "none" /\ UNCHANGED <<pc, step, plan, incoming, candidate>>
  BY DEF Raise, Gather
<1>3. /\ MigrationTypes' /\ Together' /\ VotesInPhases'
      /\ StepsClose' /\ CountsAgree' /\ StagesTrained'
  BY <1>1, <1>2, VoteKeeps DEF MigrationTypes
<1>4. \A q \in Ranks : (Allocated(q)' => Allocated(q)) /\ (Built(q)' => Built(q))
  BY <1>1, <1>2 DEF Allocated, Built, MigrationTypes
<1>5. AllocatedForMoving'
  BY <1>2, <1>4, MovingKept DEF AllocatedForMoving
<1>6. CandidatesTrained'
  BY <1>2, <1>4, MovingKept DEF CandidatesTrained, Trained
<1> QED BY <1>3, <1>5, <1>6

LEMMA PrepareKeeps ==
  ASSUME MInv, NEW r \in Ranks, Prepare(r)
  PROVE  MInv'
<1> USE DEF MInv, plan
<1>1. /\ pc[r] = "prepare" /\ pc[r] \in Phases
      /\ vote' = [vote EXCEPT ![r] = "ok"]
      /\ incoming' = [incoming EXCEPT ![r] = [l \in {m \in Moving : Target(m) = r} |-> Nothing]]
      /\ UNCHANGED <<pc, step, plan, candidate>>
  BY DEF Prepare, In, Vote, Phases
<1>2. /\ MigrationTypes' /\ Together' /\ VotesInPhases'
      /\ StepsClose' /\ CountsAgree' /\ StagesTrained'
  BY <1>1, VoteKeeps DEF MigrationTypes
<1>3. \A q \in Ranks : (q # r /\ Allocated(q)' => Allocated(q)) /\ (Built(q)' => Built(q))
  BY <1>1 DEF Allocated, Built, MigrationTypes
<1>4. AllocatedForMoving'
  <2> SUFFICES ASSUME NEW q \in Ranks, Allocated(q)'
               PROVE  DOMAIN incoming'[q] = {l \in Moving : Target(l) = q}'
    BY DEF AllocatedForMoving
  <2>1. {l \in Moving : Target(l) = q}' = {l \in Moving : Target(l) = q}
    BY <1>1, MovingKept
  <2>2. CASE q = r
    BY <2>1, <2>2, <1>1 DEF MigrationTypes
  <2>3. CASE q # r
    BY <2>1, <2>3, <1>1, <1>3 DEF AllocatedForMoving, MigrationTypes
  <2> QED BY <2>2, <2>3
<1>5. CandidatesTrained'
  BY <1>1, <1>3, MovingKept DEF CandidatesTrained, Trained
<1> QED BY <1>2, <1>4, <1>5

\* All ranks are in the moment of the exchange, with the partition of rank 0.
LEMMA ExchangeTogether ==
  ASSUME MInv, NEW r \in Ranks, pc[r] \in {"exchange", "build"}
  PROVE  \A q \in Ranks : /\ pc[q] \in {"exchange", "build"}
                          /\ counts[q] = counts[0] /\ step[q] = step[r]
<1> USE DEF MInv
<1>1. \A q \in Ranks : pc[q] \in {"exchange", "build"}
  BY DEF Together, Moments
<1>2. \A q \in Ranks : counts[q] = counts[0]
  BY <1>1, RanksAreNumbers DEF CountsAgree
<1>3. \A q \in Ranks : step[q] = step[r]
  BY <1>1, SessionAfterStep
<1> QED BY <1>1, <1>2, <1>3

\* What a rank builds from what it kept and from verified layers is its stage of
\* the new partition, with the updates made so far (build_candidate).
LEMMA BuildIsTrained ==
  ASSUME MInv, NEW r \in Ranks, pc[r] = "build", Verified(r)
  PROVE  Candidate(r) = Trained(proposal, r)
<1> USE DEF MInv
<1>1. \A q \in Ranks : counts[q] = counts[0] /\ step[q] = step[r]
  BY ExchangeTogether
<1>2. counts[0] \in Partitions /\ proposal \in Partitions
  BY RanksAreNumbers DEF MigrationTypes
<1>3. DOMAIN incoming[r] = {l \in Moving : Target(l) = r}
  BY DEF AllocatedForMoving, Allocated
<1>4. \A q \in Ranks : stage[q] = [l \in Span(counts[0], q) |-> <<l, step[r]>>]
  BY <1>1 DEF StagesTrained, Trained
<1> SUFFICES ASSUME NEW l \in Span(proposal, r)
             PROVE  (IF l \in DOMAIN incoming[r] THEN incoming[r][l] ELSE stage[r][l]) = <<l, step[r]>>
  BY DEF Candidate, Trained
<1>5. l \in Layers /\ Target(l) = r
  BY <1>2, SpansAreLayers, OwnersExist DEF Target
<1>6. Source(l) \in Ranks /\ l \in Span(counts[0], Source(l))
  BY <1>2, <1>5, OwnersExist DEF Source
<1>7. stage[Source(l)][l] = <<l, step[r]>>
  BY <1>4, <1>6
<1>8. CASE l \in DOMAIN incoming[r]
  BY <1>7, <1>8 DEF Verified
<1>9. CASE l \notin DOMAIN incoming[r]
  BY <1>3, <1>5, <1>7, <1>9 DEF Moving, Source, Target
<1> QED BY <1>8, <1>9

LEMMA BuildKeeps ==
  ASSUME MInv, NEW r \in Ranks, Build(r)
  PROVE  MInv'
<1> USE DEF MInv, plan
<1>1. PICK v \in {"ok", "failed"} :
        /\ vote' = [vote EXCEPT ![r] = v]
        /\ v = "ok" => Verified(r) /\ candidate' = [candidate EXCEPT ![r] = Candidate(r)]
        /\ v = "failed" => candidate' = candidate
  BY DEF Build, Vote
<1>2. /\ pc[r] = "build" /\ pc[r] \in Phases
      /\ UNCHANGED <<pc, step, plan, incoming>>
  BY DEF Build, In, Phases
<1>3. DOMAIN candidate' = Ranks
  BY <1>1 DEF MigrationTypes
<1>4. /\ MigrationTypes' /\ Together' /\ VotesInPhases'
      /\ StepsClose' /\ CountsAgree' /\ StagesTrained'
  BY <1>1, <1>2, <1>3, VoteKeeps DEF MigrationTypes
<1>5. \A q \in Ranks : (Allocated(q)' => Allocated(q)) /\ (q # r /\ Built(q)' => Built(q))
  BY <1>1, <1>2 DEF Allocated, Built, MigrationTypes
<1>6. AllocatedForMoving'
  BY <1>2, <1>5, MovingKept DEF AllocatedForMoving
<1>7. CandidatesTrained'
  <2> SUFFICES ASSUME NEW q \in Ranks, Built(q)' PROVE candidate'[q] = Trained(proposal, q)'
    BY DEF CandidatesTrained
  <2>1. Trained(proposal, q)' = Trained(proposal, q)
    BY <1>2, MovingKept DEF Trained
  <2>2. CASE q = r
    <3>1. v = "ok"
      BY <2>2, <1>1, <1>2 DEF Built, MigrationTypes
    <3>2. candidate'[r] = Candidate(r)
      BY <3>1, <1>1 DEF MigrationTypes
    <3> QED BY <3>1, <3>2, <2>1, <2>2, <1>1, <1>2, BuildIsTrained
  <2>3. CASE q # r
    BY <2>1, <2>3, <1>1, <1>5 DEF CandidatesTrained, MigrationTypes
  <2> QED BY <2>2, <2>3
<1> QED BY <1>4, <1>6, <1>7

\* All ranks start to train again, with what they have.
LEMMA LeaveToTrain ==
  ASSUME MInv, Leave([r \in Ranks |-> "train"]), proposal' \in Partitions,
         \A r \in Ranks : pc[r] # "train",
         \A q, r \in Ranks : counts[q] = counts[r]
  PROVE  MInv'
<1> USE DEF MInv
<1>1. /\ \A r \in Ranks : pc'[r] = "train" /\ vote'[r] = "none"
      /\ UNCHANGED <<step, counts, stage>>
  BY DEF Leave
<1>2. MigrationTypes'
  BY DEF MigrationTypes, Leave
<1>3. Together'
  BY <1>1 DEF Together, Moments
<1>4. VotesInPhases'
  BY <1>1 DEF VotesInPhases
<1>5. StepsClose'
  <2>1. \A q, r \in Ranks : step[q] = step[r] /\ step[q] \in Nat
    BY SessionAfterStep DEF MigrationTypes
  <2> QED BY <2>1, <1>1 DEF StepsClose
<1>6. CountsAgree'
  BY <1>1 DEF CountsAgree
<1>7. StagesTrained'
  BY <1>1 DEF StagesTrained, Trained, Span
<1>8. AllocatedForMoving' /\ CandidatesTrained'
  BY <1>1 DEF AllocatedForMoving, CandidatesTrained, Allocated, Built
<1> QED BY <1>2, <1>3, <1>4, <1>5, <1>6, <1>7, <1>8

LEMMA CollectKeeps ==
  ASSUME MInv, NEW p \in Phases, Collect(p)
  PROVE  MInv'
<1> USE DEF MInv
<1>1. PICK next \in Continue(p) :
        /\ proposal' \in IF next = "plan" THEN Partitions ELSE {proposal}
        /\ Leave([r \in Ranks |-> IF Raises(r) THEN "train" ELSE next])
  BY DEF Collect
<1>2. \A r \in Ranks : pc[r] = p /\ vote[r] # "none" /\ p # "train" /\ p # "settled"
  BY DEF Collect, Phases
<1>3. /\ p = "reports" => next \in {"plan", "train"}
      /\ p = "plan" => next \in {"train", "validate"}
      /\ p = "validate" => next = "metadata"
      /\ p = "metadata" => next = "headroom"
      /\ p = "headroom" => next \in {"prepare", "train"}
      /\ p = "prepare" => next = "exchange"
      /\ p = "build" => next = "swap"
  BY DEF Continue
<1>4. proposal' \in Partitions
  BY <1>1 DEF MigrationTypes
<1>5. \A q, r \in Ranks : counts[q] = counts[r]
  BY <1>2 DEF CountsAgree
<1>6. CASE (\E q \in Ranks : vote[q] = "failed") \/ next = "train"
  <2>1. [r \in Ranks |-> IF Raises(r) THEN "train" ELSE next] = [r \in Ranks |-> "train"]
    BY <1>6 DEF Raises
  <2>2. Leave([r \in Ranks |-> "train"])
    BY <1>1, <2>1
  <2> QED BY <2>2, <1>2, <1>4, <1>5, LeaveToTrain
<1>7. CASE next # "train" /\ \A q \in Ranks : vote[q] # "failed"
  <2>1. [r \in Ranks |-> IF Raises(r) THEN "train" ELSE next] = [r \in Ranks |-> next]
    BY <1>7 DEF Raises
  <2>2. \A r \in Ranks : vote[r] = "ok"
    BY <1>2, <1>7 DEF MigrationTypes
  <2>3. Leave([r \in Ranks |-> next])
    BY <1>1, <2>1
  <2>4. /\ pc' = [r \in Ranks |-> next] /\ vote' = [r \in Ranks |-> "none"]
        /\ UNCHANGED <<step, counts, stage>>
        /\ DOMAIN incoming' = Ranks /\ DOMAIN candidate' = Ranks
        /\ \A r \in Ranks : incoming'[r] = incoming[r] /\ candidate'[r] = candidate[r]
    BY <2>3, <1>7 DEF Leave
  <2>5. next \in {"plan", "validate", "metadata", "headroom", "prepare", "exchange", "swap"}
    BY <1>3, <1>7 DEF Phases
  <2>6. MigrationTypes'
    BY <2>4, <2>5, <1>4 DEF MigrationTypes, Phases
  <2>7. Together'
    BY <2>4, <2>5 DEF Together, Moments
  <2>8. VotesInPhases'
    BY <2>4 DEF VotesInPhases
  <2>9. StepsClose'
    <3>1. \A q, r \in Ranks : step[q] = step[r] /\ step[q] \in Nat
      BY <1>2, SessionAfterStep DEF MigrationTypes
    <3> QED BY <3>1, <2>4 DEF StepsClose
  <2>10. CountsAgree'
    BY <2>4, <2>5, <1>5 DEF CountsAgree
  <2>11. StagesTrained'
    BY <2>4 DEF StagesTrained, Trained, Span
  <2>12. AllocatedForMoving'
    <3> SUFFICES ASSUME NEW q \in Ranks, Allocated(q)'
                 PROVE  DOMAIN incoming'[q] = {l \in Moving : Target(l) = q}'
      BY DEF AllocatedForMoving
    <3>1. next = "exchange" /\ p = "prepare"
      BY <2>4, <2>5, <1>3, <1>7 DEF Allocated, Phases
    <3>2. proposal' = proposal /\ counts' = counts
      BY <3>1, <1>1, <2>4
    <3>3. Allocated(q)
      BY <3>1, <1>2, <2>2 DEF Allocated
    <3> QED BY <3>2, <3>3, <2>4, MovingKept DEF AllocatedForMoving
  <2>13. CandidatesTrained'
    <3> SUFFICES ASSUME NEW q \in Ranks, Built(q)' PROVE candidate'[q] = Trained(proposal, q)'
      BY DEF CandidatesTrained
    <3>1. next = "swap" /\ p = "build"
      BY <2>4, <2>5, <1>3, <1>7 DEF Built, Phases
    <3>2. proposal' = proposal /\ counts' = counts
      BY <3>1, <1>1, <2>4
    <3>3. Built(q)
      BY <3>1, <1>2, <2>2 DEF Built
    <3> QED BY <3>2, <3>3, <2>4, MovingKept DEF CandidatesTrained, Trained
  <2> QED BY <2>6, <2>7, <2>8, <2>9, <2>10, <2>11, <2>12, <2>13
<1> QED BY <1>6, <1>7

\* A transfer changes what a rank holds of an allocated layer, and that is
\* verified later.
LEMMA TransferKeeps ==
  ASSUME MInv, NEW p \in Ranks, NEW q \in Ranks, Transfer(p, q)
  PROVE  MInv'
<1> USE DEF MInv, plan
<1>1. UNCHANGED <<pc, vote, step, plan, candidate>>
  BY DEF Transfer
<1>2. DOMAIN incoming' = Ranks /\ \A r \in Ranks : DOMAIN incoming'[r] = DOMAIN incoming[r]
  BY DEF Transfer, MigrationTypes
<1>3. MigrationTypes'
  BY <1>1, <1>2 DEF MigrationTypes
<1>4. Together' /\ VotesInPhases' /\ StepsClose' /\ CountsAgree'
  BY <1>1 DEF Together, VotesInPhases, StepsClose, CountsAgree
<1>5. StagesTrained'
  BY <1>1 DEF StagesTrained, Trained, Span
<1>6. AllocatedForMoving'
  BY <1>1, <1>2, MovingKept DEF AllocatedForMoving, Allocated
<1>7. CandidatesTrained'
  BY <1>1, MovingKept DEF CandidatesTrained, Trained, Built
<1> QED BY <1>3, <1>4, <1>5, <1>6, <1>7

LEMMA ExchangedKeeps ==
  ASSUME MInv, NEW r \in Ranks, Exchanged(r)
  PROVE  MInv'
<1> USE DEF MInv, plan
<1>1. /\ pc[r] = "exchange" /\ pc' = [pc EXCEPT ![r] = "build"]
      /\ UNCHANGED <<vote, step, plan, incoming, candidate>>
  BY DEF Exchanged
<1>2. \A q \in Ranks : pc[q] \in {"exchange", "build"} /\ pc'[q] \in {"exchange", "build"}
  BY <1>1, ExchangeTogether DEF MigrationTypes
<1>3. vote[r] = "none"
  BY <1>1 DEF VotesInPhases, Phases
<1>4. MigrationTypes'
  BY <1>1 DEF MigrationTypes, Phases
<1>5. Together'
  BY <1>2 DEF Together, Moments
<1>6. VotesInPhases'
  BY <1>1 DEF VotesInPhases, MigrationTypes, Phases
<1>7. StepsClose'
  BY <1>1, <1>2 DEF StepsClose
<1>8. CountsAgree'
  BY <1>1, <1>2 DEF CountsAgree
<1>9. StagesTrained'
  BY <1>1 DEF StagesTrained, Trained, Span
<1>10. AllocatedForMoving'
  BY <1>1, <1>2, MovingKept DEF AllocatedForMoving, Allocated
<1>11. CandidatesTrained'
  <2>1. \A q \in Ranks : Built(q)' => Built(q)
    BY <1>1, <1>3 DEF Built, MigrationTypes
  <2> QED BY <2>1, <1>1, MovingKept DEF CandidatesTrained, Trained
<1> QED BY <1>4, <1>5, <1>6, <1>7, <1>8, <1>9, <1>10, <1>11

LEMMA SwapKeeps ==
  ASSUME MInv, NEW r \in Ranks, Swap(r)
  PROVE  MInv'
<1> USE DEF MInv
<1>1. /\ pc[r] = "swap" /\ pc' = [pc EXCEPT ![r] = "settled"]
      /\ stage' = [stage EXCEPT ![r] = candidate[r]]
      /\ counts' = [counts EXCEPT ![r] = proposal]
      /\ UNCHANGED <<vote, step, proposal, incoming, candidate>>
  BY DEF Swap
<1>2. \A q \in Ranks : pc[q] \in {"swap", "settled"} /\ pc'[q] \in {"swap", "settled"}
  BY <1>1 DEF Together, Moments, MigrationTypes
<1>3. MigrationTypes'
  BY <1>1 DEF MigrationTypes
<1>4. Together'
  BY <1>2 DEF Together, Moments
<1>5. VotesInPhases'
  BY <1>1, <1>2 DEF VotesInPhases, MigrationTypes, Phases
<1>6. StepsClose'
  BY <1>1, <1>2 DEF StepsClose
<1>7. CountsAgree'
  BY <1>1 DEF CountsAgree, MigrationTypes
<1>8. StagesTrained'
  <2>1. candidate[r] = Trained(proposal, r)
    BY <1>1 DEF CandidatesTrained, Built
  <2> SUFFICES ASSUME NEW q \in Ranks PROVE stage'[q] = Trained(counts[q], q)'
    BY DEF StagesTrained
  <2>2. CASE q = r
    BY <2>1, <2>2, <1>1 DEF MigrationTypes, Trained, Span
  <2>3. CASE q # r
    BY <2>3, <1>1 DEF MigrationTypes, StagesTrained, Trained, Span
  <2> QED BY <2>2, <2>3
<1>9. AllocatedForMoving'
  BY <1>2 DEF AllocatedForMoving, Allocated
<1>10. CandidatesTrained'
  <2>1. \A q \in Ranks : Built(q)' => Built(q)
    BY <1>1, <1>2 DEF Built, MigrationTypes
  <2> QED BY <2>1, <1>1 DEF CandidatesTrained, Trained, Span
<1> QED BY <1>3, <1>4, <1>5, <1>6, <1>7, <1>8, <1>9, <1>10

LEMMA SettleKeeps ==
  ASSUME MInv, Settle
  PROVE  MInv'
BY LeaveToTrain DEF MInv, Settle, CountsAgree, MigrationTypes

LEMMA MigrationStep == MInv /\ [Next]_vars => MInv'
<1> SUFFICES ASSUME MInv, [Next]_vars PROVE MInv'
  OBVIOUS
<1>1. CASE UNCHANGED vars
  <2> USE <1>1 DEF vars, MInv
  <2>1. MigrationTypes' /\ Together' /\ VotesInPhases' /\ StepsClose' /\ CountsAgree'
    BY DEF MigrationTypes, Together, VotesInPhases, StepsClose, CountsAgree
  <2>2. StagesTrained'
    BY DEF StagesTrained, Trained, Span
  <2>3. AllocatedForMoving'
    BY MovingKept DEF AllocatedForMoving, Allocated
  <2>4. CandidatesTrained'
    BY MovingKept DEF CandidatesTrained, Built, Trained
  <2> QED BY <2>1, <2>2, <2>3, <2>4
<1>2. CASE \E r \in Ranks : Train(r)
  BY <1>2, TrainKeeps
<1>3. CASE \E r \in Ranks : Raise(r) \/ Gather(r)
  BY <1>3, RaiseKeeps
<1>4. CASE \E r \in Ranks : Prepare(r)
  BY <1>4, PrepareKeeps
<1>5. CASE \E r \in Ranks : Build(r)
  BY <1>5, BuildKeeps
<1>6. CASE \E r \in Ranks : Exchanged(r)
  BY <1>6, ExchangedKeeps
<1>7. CASE \E r \in Ranks : Swap(r)
  BY <1>7, SwapKeeps
<1>8. CASE \E p, q \in Ranks : Transfer(p, q)
  BY <1>8, TransferKeeps
<1>9. CASE \E p \in Phases : Collect(p)
  BY <1>9, CollectKeeps
<1>10. CASE Settle
  BY <1>10, SettleKeeps
<1> QED BY <1>1, <1>2, <1>3, <1>4, <1>5, <1>6, <1>7, <1>8, <1>9, <1>10 DEF Next

LEMMA MigrationInvariant == Spec => []MInv
BY MigrationStarts, MigrationStep, PTL DEF Spec

\* Types the invariant does not need.
Bounded ==
  /\ \A r \in Ranks : step[r] <= TotalSteps
  /\ sent \in [Ranks -> Nat]
  /\ faults \in 0 .. MaxFaults

LEMMA FaultIsCounted ==
  ASSUME faults \in 0 .. MaxFaults, Fault
  PROVE  faults' \in 0 .. MaxFaults
BY MigrationAssumption DEF Fault

LEMMA BoundedStep ==
  ASSUME MInv, Bounded, [Next]_vars
  PROVE  Bounded'
<1> USE DEF Bounded
<1>0. step \in [Ranks -> Nat] /\ TotalSteps \in Nat
  BY MigrationAssumption DEF MInv, MigrationTypes
<1>1. CASE UNCHANGED vars
  BY <1>1 DEF vars
<1>2. ASSUME NEW r \in Ranks, Train(r) PROVE Bounded'
  BY <1>0, <1>2 DEF Train
<1>3. ASSUME NEW r \in Ranks, Raise(r) PROVE Bounded'
  BY <1>3, FaultIsCounted DEF Raise
<1>4. ASSUME NEW r \in Ranks, Gather(r) \/ Prepare(r) \/ Build(r) \/ Exchanged(r) \/ Swap(r) PROVE Bounded'
  BY <1>4 DEF Gather, Prepare, Build, Exchanged, Swap
<1>5. ASSUME NEW p \in Ranks, NEW q \in Ranks, Transfer(p, q) PROVE Bounded'
  <2>1. faults' \in 0 .. MaxFaults /\ step' = step
    BY <1>5, FaultIsCounted DEF Transfer
  <2>2. sent' = [sent EXCEPT ![p] = @ + 1, ![q] = @ + 1]
    BY <1>5 DEF Transfer
  <2> QED BY <2>1, <2>2
<1>6. ASSUME NEW to, Leave(to) PROVE Bounded'
  BY <1>6 DEF Leave
<1>7. ASSUME NEW p \in Phases, Collect(p) PROVE Bounded'
  BY <1>6, <1>7 DEF Collect
<1>8. CASE Settle
  BY <1>6, <1>8 DEF Settle
<1> QED BY <1>1, <1>2, <1>3, <1>4, <1>5, <1>7, <1>8 DEF Next

------------------------------------------------------------------------------
(* What follows from it.                                                   *)

\* Every variable has its type: whatever fails, a rank's partition is one of the
\* possible ones and its model has exactly the layers of its part.
THEOREM MigrationKeepsTypes == Spec => []MigrationTypeOK
<1>1. Init => Bounded
  BY MigrationAssumption DEF Init, Bounded
<1>2. MInv /\ Bounded => MigrationTypeOK
  <2> SUFFICES ASSUME MInv, Bounded PROVE MigrationTypeOK
    OBVIOUS
  <2>1. MigrationTypes /\ StagesTrained
    BY DEF MInv
  <2>2. step \in [Ranks -> 0 .. TotalSteps]
    BY <2>1, MigrationAssumption DEF Bounded, MigrationTypes
  <2>3. ASSUME NEW r \in Ranks PROVE stage[r] \in [Span(counts[r], r) -> Good]
    <3>1. counts[r] \in Partitions /\ stage[r] = [l \in Span(counts[r], r) |-> <<l, step[r]>>]
      BY <2>1 DEF MigrationTypes, StagesTrained, Trained
    <3>2. Span(counts[r], r) \subseteq Layers
      BY <3>1, SpansAreLayers
    <3> QED BY <2>2, <3>1, <3>2 DEF Good
  <2> QED BY <2>1, <2>2, <2>3 DEF MigrationTypes, MigrationTypeOK, Bounded
<1> QED BY <1>1, <1>2, BoundedStep, MigrationInvariant, PTL DEF Spec

\* The partition the ranks train or are bound to train.
Agreed == IF pc[0] \in {"swap", "settled"} THEN proposal ELSE counts[0]

LEMMA ActiveIsTrained ==
  ASSUME MInv
  PROVE  Agreed \in Partitions /\ \A r \in Ranks : Active(r) = Trained(Agreed, r)
<1> USE DEF MInv
<1>1. Agreed \in Partitions
  BY RanksAreNumbers DEF Agreed, MigrationTypes
<1>2. CASE pc[0] \in {"swap", "settled"}
  <2>1. \A r \in Ranks : pc[r] \in {"swap", "settled"}
    BY <1>2, RanksAreNumbers DEF Together, Moments
  <2>2. \A r \in Ranks : pc[r] = "swap" => candidate[r] = Trained(proposal, r)
    BY DEF CandidatesTrained, Built
  <2>3. \A r \in Ranks : pc[r] = "settled" => stage[r] = Trained(proposal, r)
    BY DEF StagesTrained, CountsAgree
  <2> QED BY <1>1, <1>2, <2>1, <2>2, <2>3 DEF Active, Agreed
<1>3. CASE pc[0] \notin {"swap", "settled"}
  <2>1. \A r \in Ranks : pc[r] \notin {"swap", "settled"}
    BY <1>3, RanksAreNumbers DEF Together, Moments
  <2>2. \A r \in Ranks : counts[r] = counts[0]
    BY <2>1, RanksAreNumbers DEF CountsAgree
  <2> QED BY <1>1, <1>3, <2>1, <2>2 DEF Active, Agreed, StagesTrained
<1> QED BY <1>2, <1>3

LEMMA OwnerIsAgreed ==
  ASSUME MInv, NEW l \in Layers
  PROVE  /\ Owner(l) = OwnerIn(Agreed, l) /\ Owner(l) \in Ranks
         /\ {r \in Ranks : l \in DOMAIN Active(r)} = {Owner(l)}
         /\ Active(Owner(l))[l][2] = step[Owner(l)]
<1>1. Agreed \in Partitions /\ \A r \in Ranks : Active(r) = Trained(Agreed, r)
  BY ActiveIsTrained
<1>2. \A r \in Ranks : DOMAIN Active(r) = Span(Agreed, r)
  BY <1>1 DEF Trained
<1>3. /\ OwnerIn(Agreed, l) \in Ranks /\ l \in Span(Agreed, OwnerIn(Agreed, l))
      /\ \A r \in Ranks : l \in Span(Agreed, r) => r = OwnerIn(Agreed, l)
  BY <1>1, OwnersExist
<1>4. Owner(l) = OwnerIn(Agreed, l)
  BY <1>2, <1>3 DEF Owner
<1>5. Active(Owner(l))[l] = <<l, step[Owner(l)]>>
  BY <1>1, <1>3, <1>4 DEF Trained
<1> QED BY <1>2, <1>3, <1>4, <1>5

\* Every layer is active on exactly one rank at any time, whatever partition is
\* planned and whichever rank fails in whichever phase (migrate).
THEOREM LayersHaveOneOwner == Spec => []OneOwner
<1>1. MInv => OneOwner
  BY OwnerIsAgreed, FS_Singleton DEF OneOwner
<1> QED BY <1>1, MigrationInvariant, PTL

\* Ranks that train agree on the partition and have exactly their layers of it,
\* with every update, however many sessions there were (migrate, maybe_rebalance).
THEOREM StagesStayTrained == Spec => []TrainedStages
<1>1. MInv => TrainedStages
  BY DEF MInv, TrainedStages, StagesTrained, Trained, CountsAgree
<1> QED BY <1>1, MigrationInvariant, PTL

------------------------------------------------------------------------------
(* A session is one move of a pipeline of owners.                          *)

\* The refinement mapping in terms of what is agreed.
owners == [l \in Layers |-> Owner(l)]
updated == [l \in Layers |-> Active(Owner(l))[l][2]]

Mapped ==
  /\ Agreed \in Partitions
  /\ owners = [l \in Layers |-> OwnerIn(Agreed, l)]
  /\ updated = [l \in Layers |-> step[OwnerIn(Agreed, l)]]

LEMMA MappingIsAgreed == MInv => Mapped
BY OwnerIsAgreed, ActiveIsTrained DEF Mapped, owners, updated

LEMMA StutterOfOwners ==
  ASSUME Mapped, Mapped', UNCHANGED step, Agreed' = Agreed
  PROVE  UNCHANGED <<owners, updated>>
BY DEF Mapped, OwnerIn, Span

\* A rank's step of training is a step of the owner of its layers.
LEMMA TrainIsStep ==
  ASSUME MInv, Mapped, Mapped', NEW r \in Ranks, Train(r)
  PROVE  LayerOwnersSpec!Step(r)
<1> DEFINE own(l) == OwnerIn(Agreed, l)
<1>1. \A l \in Layers : own(l) \in Ranks
  BY OwnersExist DEF Mapped
<1>2. Agreed' = Agreed
  BY RanksAreNumbers DEF Train, MInv, MigrationTypes, Agreed
<1>3. step' = [step EXCEPT ![r] = step[r] + 1] /\ step \in [Ranks -> Nat]
  BY DEF Train, MInv, MigrationTypes
<1>4. \A q \in Ranks : step[q] = step[r] \/ step[q] = step[r] + 1
  BY DEF Train
<1>5. owners = [l \in Layers |-> own(l)] /\ updated = [l \in Layers |-> step[own(l)]]
  BY DEF Mapped
<1>6. owners' = [l \in Layers |-> own(l)] /\ updated' = [l \in Layers |-> step'[own(l)]]
  BY <1>2 DEF Mapped, OwnerIn, Span
<1> HIDE DEF own
<1>7. \A l, m \in Layers : own(l) = r =>
        updated[l] <= updated[m] /\ updated[m] <= updated[l] + 1
  BY <1>1, <1>3, <1>4, <1>5
<1>8. updated' = [l \in Layers |-> IF own(l) = r THEN updated[l] + 1 ELSE updated[l]]
  BY <1>1, <1>3, <1>5, <1>6
<1> QED BY <1>5, <1>6, <1>7, <1>8 DEF LayerOwnersSpec!Step, owners, updated

\* A vote that ends a phase is a move when it is the last one, and no step of the
\* owners otherwise.
LEMMA CollectIsMove ==
  ASSUME MInv, Mapped, Mapped', NEW p \in Phases, Collect(p)
  PROVE  LayerOwnersSpec!Move \/ UNCHANGED <<owners, updated>>
<1>1. \A r \in Ranks : pc[r] = p
  BY DEF Collect
<1>2. p \notin {"train", "swap", "settled"}
  BY DEF Phases
<1>3. \A q, r \in Ranks : step[q] = step[r]
  BY <1>1, <1>2, SessionAfterStep DEF MInv
<1>4. step' = step /\ counts' = counts /\ pc' \in [Ranks -> {pc'[0]}]
  BY RanksAreNumbers DEF Collect, Leave, Raises
<1>5. CASE pc'[0] = "swap"
  <2>1. \A l, m \in Layers : updated[l] = updated[m]
    BY <1>3, OwnersExist DEF Mapped
  <2>2. owners' \in LayerOwnersSpec!Pipelines
    <3>1. Agreed' \in Partitions /\ owners' = [l \in Layers |-> OwnerIn(Agreed', l)]
      BY DEF Mapped, OwnerIn, Span
    <3> QED BY <3>1, OwnersFormPipeline
  <2>3. updated' = updated
    <3>1. Agreed' \in Partitions /\ updated' = [l \in Layers |-> step[OwnerIn(Agreed', l)]]
      BY <1>4 DEF Mapped, OwnerIn, Span
    <3>2. \A l \in Layers : step[OwnerIn(Agreed', l)] = step[OwnerIn(Agreed, l)]
      BY <3>1, <1>3, OwnersExist DEF Mapped
    <3> QED BY <3>1, <3>2 DEF Mapped
  <2> QED BY <2>1, <2>2, <2>3 DEF LayerOwnersSpec!Move, owners, updated
<1>6. CASE pc'[0] # "swap"
  <2>1. pc'[0] # "settled"
    BY RanksAreNumbers DEF Collect, Leave, Continue, Phases
  <2>2. Agreed' = Agreed
    BY <1>1, <1>2, <1>4, <1>6, <2>1, RanksAreNumbers DEF Agreed
  <2> QED BY <2>2, <1>4, StutterOfOwners
<1> QED BY <1>5, <1>6

LEMMA SwapsAgree ==
  ASSUME MInv, (\E r \in Ranks : Swap(r)) \/ Settle
  PROVE  Agreed' = Agreed /\ step' = step
<1> USE DEF MInv
<1>1. CASE \E r \in Ranks : Swap(r)
  <2>1. PICK r \in Ranks : Swap(r)
    BY <1>1
  <2>2. /\ pc[0] \in {"swap", "settled"} /\ pc'[0] \in {"swap", "settled"}
        /\ UNCHANGED <<proposal, step>>
    BY <2>1, RanksAreNumbers DEF Swap, Together, Moments, MigrationTypes
  <2> QED BY <2>2 DEF Agreed
<1>2. CASE Settle
  <2>1. /\ pc[0] = "settled" /\ pc'[0] = "train" /\ counts[0] = proposal
        /\ UNCHANGED <<counts, step>>
    BY <1>2, RanksAreNumbers DEF Settle, Leave, CountsAgree
  <2> QED BY <2>1 DEF Agreed
<1> QED BY <1>1, <1>2

LEMMA OthersAgree ==
  ASSUME MInv,
         \/ UNCHANGED vars
         \/ \E r \in Ranks : Raise(r) \/ Gather(r) \/ Prepare(r) \/ Build(r) \/ Exchanged(r)
         \/ \E r, q \in Ranks : Transfer(r, q)
  PROVE  Agreed' = Agreed /\ step' = step
<1>1. UNCHANGED <<step, counts, proposal>>
  BY DEF vars, plan, Raise, Gather, Prepare, Build, Exchanged, Transfer
<1>2. pc'[0] \in {"swap", "settled"} <=> pc[0] \in {"swap", "settled"}
  <2>1. CASE \E r \in Ranks : Exchanged(r)
    <3>1. PICK r \in Ranks : Exchanged(r)
      BY <2>1
    <3>2. pc[r] = "exchange" /\ pc' = [pc EXCEPT ![r] = "build"] /\ DOMAIN pc = Ranks
      BY <3>1 DEF Exchanged, MInv, MigrationTypes
    <3> QED BY <3>2, RanksAreNumbers
  <2>2. CASE pc' = pc
    BY <2>2
  <2> QED BY <2>1, <2>2 DEF vars, Raise, Gather, Prepare, Build, Transfer
<1> QED BY <1>1, <1>2 DEF Agreed

\* Migration implements LayerOwners: seen from the layers a session that ends
\* with the swap is one move between two steps, at its last vote, and one that
\* fails is nothing; training steps add one update to what a rank owns (migrate).
THEOREM SessionsAreMoves == Spec => MovesBetweenSteps
<1>1. Init => LayerOwnersSpec!Init
  <2> SUFFICES ASSUME Init PROVE LayerOwnersSpec!Init
    OBVIOUS
  <2>1. MInv /\ Mapped
    BY MigrationStarts, MappingIsAgreed
  <2>2. owners \in LayerOwnersSpec!Pipelines
    BY <2>1, OwnersFormPipeline DEF Mapped
  <2>3. updated = [l \in Layers |-> 0]
    BY <2>1, OwnersExist DEF Mapped, Init
  <2> QED BY <2>2, <2>3 DEF LayerOwnersSpec!Init, owners, updated
<1>2. MInv /\ Mapped /\ Mapped' /\ [Next]_vars =>
        LayerOwnersSpec!Next \/ UNCHANGED <<owners, updated>>
  <2> SUFFICES ASSUME MInv, Mapped, Mapped', [Next]_vars
               PROVE  LayerOwnersSpec!Next \/ UNCHANGED <<owners, updated>>
    OBVIOUS
  <2>1. CASE \E r \in Ranks : Train(r)
    BY <2>1, TrainIsStep DEF LayerOwnersSpec!Next
  <2>2. CASE \E p \in Phases : Collect(p)
    BY <2>2, CollectIsMove DEF LayerOwnersSpec!Next
  <2>3. CASE (\E r \in Ranks : Swap(r)) \/ Settle
    BY <2>3, SwapsAgree, StutterOfOwners
  <2>4. CASE \/ UNCHANGED vars
             \/ \E r \in Ranks : Raise(r) \/ Gather(r) \/ Prepare(r) \/ Build(r) \/ Exchanged(r)
             \/ \E r, q \in Ranks : Transfer(r, q)
    BY <2>4, OthersAgree, StutterOfOwners
  <2> QED BY <2>1, <2>2, <2>3, <2>4 DEF Next
<1>3. MInv /\ Mapped /\ Mapped' /\ [Next]_vars =>
        [LayerOwnersSpec!Next]_<<[l \in Layers |-> Owner(l)], [l \in Layers |-> Active(Owner(l))[l][2]]>>
  BY <1>2 DEF owners, updated
<1> QED BY <1>1, <1>3, MigrationInvariant, MappingIsAgreed, PTL
    DEF Spec, MovesBetweenSteps, LayerOwnersSpec!Spec

------------------------------------------------------------------------------
(* Partitions of a pretrained model.                                        *)

\* Dividing by a positive number.
LEMMA Quotient ==
  ASSUME NEW n \in Nat, NEW d \in Nat, d > 0
  PROVE  n \div d \in Nat /\ d * (n \div d) <= n /\ n < d * (n \div d) + d
<1>1. n \div d \in Int
  BY SMT
<1>2. n \div d >= 0
  BY SMT
<1>3. d * (n \div d) <= n
  BY SMT
<1>4. n < d * (n \div d) + d
  BY SMT
<1> QED BY <1>1, <1>2, <1>3, <1>4

\* Adding the divisor or more adds one to the quotient or more.
LEMMA QuotientGrows ==
  ASSUME NEW n \in Nat, NEW k \in Nat, NEW d \in Nat, d > 0, d <= k
  PROVE  n \div d < (n + k) \div d
<1> DEFINE a == n \div d
           b == (n + k) \div d
<1>1. a \in Nat /\ d * a <= n
  BY Quotient
<1>2. b \in Nat /\ n + k < d * b + d
  BY Quotient
<1>3. d * a < d * b
  <2>1. d * a \in Nat /\ d * b \in Nat
    BY <1>1, <1>2
  <2> HIDE DEF a, b
  <2> QED BY <1>1, <1>2, <2>1
<1>4. ~(b <= a)
  <2> HIDE DEF a, b
  <2> QED BY <1>1, <1>2, <1>3, SMT
<1> QED BY <1>1, <1>2, <1>4

\* The largest of a set of numbers below a bound.
LEMMA LargestIsThere ==
  ASSUME NEW T, NEW k \in Nat, T \subseteq 0 .. k, T # {}
  PROVE  Max(T) \in T
<1> DEFINE Left == {k - x : x \in T}
<1>1. Left \subseteq Nat /\ Left # {}
  <2>1. PICK x \in T : TRUE
    OBVIOUS
  <2>2. k - x \in Left
    BY <2>1
  <2> QED BY <2>2
<1>2. PICK m \in Left : \A y \in Left : m <= y
  BY <1>1, LeastOfSet
<1>3. PICK x \in T : m = k - x
  OBVIOUS
<1>4. \A y \in T : x >= y
  <2> TAKE y \in T
  <2>1. k - y \in Left
    OBVIOUS
  <2>2. x \in Nat /\ y \in Nat
    OBVIOUS
  <2>3. k - x <= k - y
    BY <2>1, <1>2, <1>3
  <2> QED BY <2>2, <2>3
<1> QED BY <1>4 DEF Max

LEMMA SmallerOfTwo ==
  ASSUME NEW a \in Nat, NEW b \in Nat
  PROVE  Min({a, b}) \in {a, b} /\ Min({a, b}) <= a /\ Min({a, b}) <= b
<1>1. \E x \in {a, b} : \A y \in {a, b} : x <= y
  <2>1. CASE a <= b
    BY <2>1
  <2>2. CASE b < a
    BY <2>2
  <2> QED BY <2>1, <2>2
<1>2. Min({a, b}) \in {a, b} /\ \A y \in {a, b} : Min({a, b}) <= y
  BY <1>1 DEF Min
<1> QED BY <1>2

\* What a layout that can be is made of.
LEMMA LayoutTypes ==
  ASSUME layout \in Layouts
  PROVE  /\ layout.task \in {"qa", "mt5"}
         /\ EncoderEnd \in Nat \ {0} /\ DecoderEnd \in Nat /\ EncoderEnd < DecoderEnd
         /\ Units \in Nat /\ Units >= 3
         /\ layout.task = "mt5" => Units = DecoderEnd + 2
<1>1. /\ layout.task \in {"qa", "mt5"} /\ layout.encoder \in Nat \ {0} /\ layout.decoder \in Nat \ {0}
  BY LayoutAssumption
<1> QED BY <1>1 DEF EncoderEnd, DecoderEnd, Units

LEMMA StagesArePositive ==
  ASSUME layout \in Layouts
  PROVE  StageCount \in Nat \ {0}
<1>1. CASE layout.size # Chosen
  BY <1>1, LayoutAssumption DEF StageCount, Chosen
<1>2. CASE layout.size = Chosen
  <2> DEFINE w == layout.world
             k == Min({Units, w})
             T == {n \in 1 .. k : w % n = 0}
  <2>1. w \in Nat \ {0} /\ Units \in Nat /\ Units >= 3
    BY LayoutAssumption, LayoutTypes
  <2>2. k \in Nat /\ k >= 1
    <3> HIDE DEF w
    <3>1. k \in {Units, w}
      BY <2>1, SmallerOfTwo
    <3> QED BY <2>1, <3>1
  <2>3. 1 \in T
    <3> HIDE DEF w, k
    <3>1. w % 1 = 0
      BY <2>1
    <3> QED BY <2>2, <3>1
  <2>4. T \subseteq 0 .. k
    <3> HIDE DEF w, k
    <3> QED BY <2>2
  <2>5. Max(T) \in T
    <3> HIDE DEF T, k
    <3> QED BY <2>2, <2>3, <2>4, LargestIsThere
  <2>6. StageCount = Max(T)
    BY <1>2 DEF StageCount
  <2> HIDE DEF k
  <2> QED BY <2>2, <2>5, <2>6
<1> QED BY <1>1, <1>2

\* Boundaries of a layout that is not refused begin with the first unit, end
\* with the last, and leave no stage without a unit (pipeline_layout).
LEMMA BoundariesGrow ==
  ASSUME layout \in Layouts, ~Refuses
  PROVE  /\ Boundary(0) = 0 /\ Boundary(StageCount) = Units
         /\ \A r \in Nat : Boundary(r) \in Nat /\ Boundary(r) < Boundary(r + 1)
<1>1. StageCount \in Nat \ {0} /\ Units \in Nat
  BY StagesArePositive, LayoutTypes
<1>2. StageCount <= Units
  BY <1>1 DEF Refuses
<1> DEFINE u == Units
           d == StageCount
<1> HIDE DEF u, d
<1>3. d \in Nat /\ d > 0 /\ u \in Nat /\ d <= u
  BY <1>1, <1>2 DEF u, d
<1>4. (u * 0) \div d = 0
  <2>1. u * 0 = 0
    BY <1>3
  <2>2. 0 \div d \in Nat /\ d * (0 \div d) <= 0
    BY <1>3, Quotient
  <2> QED BY <1>3, <2>1, <2>2
<1>5. (u * d) \div d = u
  <2> DEFINE q == (u * d) \div d
  <2>1. u * d \in Nat
    BY <1>3
  <2>2. q \in Nat /\ d * q <= u * d /\ u * d < d * q + d
    BY <1>3, <2>1, Quotient
  <2> HIDE DEF q
  <2>3. q <= u
    BY <1>3, <2>2, SMT
  <2>4. u <= q
    BY <1>3, <2>2, SMT
  <2> QED BY <1>3, <2>2, <2>3, <2>4 DEF q
<1>6. \A r \in Nat : (u * r) \div d \in Nat /\ (u * r) \div d < (u * (r + 1)) \div d
  <2> TAKE r \in Nat
  <2>1. u * r \in Nat /\ u * (r + 1) = u * r + u
    BY <1>3
  <2>2. (u * r) \div d < (u * r + u) \div d
    BY <1>3, <2>1, QuotientGrows
  <2>3. (u * r) \div d \in Nat
    BY <1>3, <2>1, Quotient
  <2> QED BY <2>1, <2>2, <2>3
<1> QED BY <1>4, <1>5, <1>6 DEF Boundary, u, d

------------------------------------------------------------------------------
(* What a stage has after a unit is what the next would expect.             *)

\* The state before the next unit.
TensorsFit == tensors = IF unit = 0 THEN <<>> ELSE ActivationNames(unit - 1)

PlaceInModel ==
  /\ pipelineRank \in Nat /\ pipelineRank < StageCount
  /\ unit \in Boundary(pipelineRank) .. Boundary(pipelineRank + 1)
  /\ passed = "finished" => unit = Units

PartitionInv ==
  /\ layout \in Layouts
  /\ passed \in {"running", "finished", "refused"}
  /\ passed # "refused" => ~Refuses /\ TensorsFit /\ PlaceInModel

\* Sequences of one, two and three members.
LEMMA ShortSequences ==
  ASSUME NEW S, NEW s \in Seq(S)
  PROVE  /\ Len(s) = 1 => s = <<s[1]>>
         /\ Len(s) = 2 => s = <<s[1], s[2]>>
         /\ Len(s) = 3 => s = <<s[1], s[2], s[3]>>
<1>1. ASSUME Len(s) = 1 PROVE s = <<s[1]>>
  <2>1. s[1] \in S
    BY <1>1, ElementOfSeq
  <2> DEFINE t == <<s[1]>>
  <2>2. t \in Seq(S)
    BY <2>1
  <2>3. Len(t) = 1
    OBVIOUS
  <2>4. t[1] = s[1]
    OBVIOUS
  <2> HIDE DEF t
  <2>5. \A i \in 1 .. Len(s) : s[i] = t[i]
    BY <1>1, <2>4
  <2>6. s = t
    BY <1>1, <2>2, <2>3, <2>5, SeqEqual
  <2> QED BY <2>6 DEF t
<1>2. ASSUME Len(s) = 2 PROVE s = <<s[1], s[2]>>
  <2>1. s[1] \in S /\ s[2] \in S
    BY <1>2, ElementOfSeq
  <2> DEFINE t == <<s[1], s[2]>>
  <2>2. t \in Seq(S)
    BY <2>1
  <2>3. Len(t) = 2
    OBVIOUS
  <2>4. t[1] = s[1] /\ t[2] = s[2]
    OBVIOUS
  <2> HIDE DEF t
  <2>5. \A i \in 1 .. Len(s) : s[i] = t[i]
    BY <1>2, <2>4
  <2>6. s = t
    BY <1>2, <2>2, <2>3, <2>5, SeqEqual
  <2> QED BY <2>6 DEF t
<1>3. ASSUME Len(s) = 3 PROVE s = <<s[1], s[2], s[3]>>
  <2>1. s[1] \in S /\ s[2] \in S /\ s[3] \in S
    <3>1. 1 \in 1 .. Len(s) /\ 2 \in 1 .. Len(s) /\ 3 \in 1 .. Len(s)
      BY <1>3
    <3> QED BY <3>1, ElementOfSeq
  <2> DEFINE t == <<s[1], s[2], s[3]>>
  <2>2. t \in Seq(S)
    BY <2>1
  <2>3. Len(t) = 3
    OBVIOUS
  <2>4. t[1] = s[1] /\ t[2] = s[2] /\ t[3] = s[3]
    OBVIOUS
  <2> HIDE DEF t
  <2>5. \A i \in 1 .. Len(s) : s[i] = t[i]
    BY <1>3, <2>4
  <2>6. s = t
    BY <1>3, <2>2, <2>3, <2>5, SeqEqual
  <2> QED BY <2>6 DEF t
<1> QED BY <1>1, <1>2, <1>3

\* Appending to sequences of one and two, removing the last of three or the first of two.
LEMMA ShortAppends ==
  ASSUME NEW S, NEW s \in Seq(S), NEW b \in S
  PROVE  /\ Len(s) = 1 => Append(s, b) = <<s[1], b>>
         /\ Len(s) = 2 => Append(s, b) = <<s[1], s[2], b>>
         /\ Len(s) = 3 => SubSeq(s, 1, 2) \o SubSeq(s, 4, 3) = <<s[1], s[2]>>
         /\ Len(s) = 2 => SubSeq(s, 1, 0) \o SubSeq(s, 2, 2) = <<s[2]>>
<1> DEFINE t == Append(s, b)
<1>1. t \in Seq(S) /\ Len(t) = Len(s) + 1 /\ (\A i \in 1 .. Len(s) : t[i] = s[i]) /\ t[Len(s) + 1] = b
  BY AppendProperties
<1> HIDE DEF t
<1>2. ASSUME Len(s) = 1 PROVE t = <<s[1], b>>
  <2>1. Len(t) = 2 /\ t[1] = s[1] /\ t[2] = b
    BY <1>1, <1>2
  <2> QED BY <1>1, <2>1, ShortSequences
<1>3. ASSUME Len(s) = 2 PROVE t = <<s[1], s[2], b>>
  <2>1. Len(t) = 3 /\ t[1] = s[1] /\ t[2] = s[2] /\ t[3] = b
    BY <1>1, <1>3
  <2> QED BY <1>1, <2>1, ShortSequences
<1>4. ASSUME Len(s) = 3 PROVE SubSeq(s, 1, 2) \o SubSeq(s, 4, 3) = <<s[1], s[2]>>
  <2> DEFINE q == SubSeq(s, 1, 2)
  <2>1. SubSeq(s, 4, 3) = <<>>
    BY SubSeqEmpty
  <2>2. \A i \in 1 .. 2 : s[i] \in S
    BY <1>4, ElementOfSeq
  <2>3. q \in Seq(S) /\ Len(q) = 2 /\ \A i \in 1 .. 2 : q[i] = s[i]
    <3>1. /\ q \in Seq(S) /\ Len(q) = 2 - 1 + 1 /\ \A i \in 1 .. 2 - 1 + 1 : q[i] = s[1 + i - 1]
      BY <2>2, SubSeqProperties
    <3> HIDE DEF q
    <3>2. \A i \in 1 .. 2 : q[i] = s[i]
      BY <3>1
    <3> QED BY <3>1, <3>2
  <2> HIDE DEF q
  <2>4. q \o <<>> = q
    BY <2>3, ConcatEmptySeq
  <2>5. q = <<s[1], s[2]>>
    BY <2>3, ShortSequences
  <2> QED BY <2>1, <2>4, <2>5 DEF q
<1>5. ASSUME Len(s) = 2 PROVE SubSeq(s, 1, 0) \o SubSeq(s, 2, 2) = <<s[2]>>
  <2> DEFINE q == SubSeq(s, 2, 2)
  <2>1. SubSeq(s, 1, 0) = <<>>
    BY SubSeqEmpty
  <2>2. \A i \in 2 .. 2 : s[i] \in S
    BY <1>5, ElementOfSeq
  <2>3. q \in Seq(S) /\ Len(q) = 1 /\ q[1] = s[2]
    <3>1. /\ q \in Seq(S) /\ Len(q) = 2 - 2 + 1 /\ \A i \in 1 .. 2 - 2 + 1 : q[i] = s[2 + i - 1]
      BY <2>2, SubSeqProperties
    <3> HIDE DEF q
    <3>2. q[1] = s[2]
      BY <3>1
    <3> QED BY <3>1, <3>2
  <2> HIDE DEF q
  <2>4. <<>> \o q = q
    BY <2>3, ConcatEmptySeq
  <2>5. q = <<s[2]>>
    BY <2>3, ShortSequences
  <2> QED BY <2>1, <2>4, <2>5 DEF q
<1> QED BY <1>2, <1>3, <1>4, <1>5 DEF t
\* Assigning to a name of a state, and removing its last or first.
LEMMA PutAndRemove ==
  /\ Put(<<>>, "encoded") = <<"encoded">>
  /\ Put(<<"encoded">>, "decoded") = <<"encoded", "decoded">>
  /\ \A n \in {"encoded", "decoded"} : Put(<<"encoded", "decoded">>, n) = <<"encoded", "decoded">>
  /\ \A b \in {"encoder_bias", "decoder_bias"} :
       /\ Put(<<"encoded", "decoded">>, b) = <<"encoded", "decoded", b>>
       /\ \A n \in {"encoded", "decoded", b} :
            Put(<<"encoded", "decoded", b>>, n) = <<"encoded", "decoded", b>>
       /\ RemoveFirst(<<"encoded", "decoded", b>>, b) = <<"encoded", "decoded">>
  /\ RemoveFirst(<<"encoded", "decoded">>, "encoded") = <<"decoded">>
<1> DEFINE Names == {"encoded", "decoded", "encoder_bias", "decoder_bias"}
<1>1. ASSUME NEW s, NEW n, NEW i \in DOMAIN s, s[i] = n
      PROVE  Put(s, n) = s
  BY <1>1 DEF Put, ToSet
<1>2. ASSUME NEW s, NEW n, \A i \in DOMAIN s : s[i] # n
      PROVE  Put(s, n) = Append(s, n)
  BY <1>2 DEF Put, ToSet
<1>3. ASSUME NEW s \in Seq(Names), NEW n, NEW k \in 1 .. Len(s), s[k] = n,
             \A i \in 1 .. Len(s) : s[i] = n => i = k
      PROVE  RemoveFirst(s, n) = SubSeq(s, 1, k - 1) \o SubSeq(s, k + 1, Len(s))
  <2>1. {i \in 1 .. Len(s) : s[i] = n} = {k}
    BY <1>3
  <2>2. Min({k}) = k
    BY DEF Min
  <2>3. SelectInSeq(s, LAMBDA v : v = n) = k
    BY <2>1, <2>2 DEF SelectInSeq
  <2>4. RemoveFirst(s, n) = RemoveAt(s, k)
    BY <1>3, <2>3 DEF RemoveFirst
  <2> QED BY <2>4 DEF RemoveAt
<1>4. Put(<<>>, "encoded") = <<"encoded">>
  <2> DEFINE e == <<>>
             t == Append(e, "encoded")
  <2>1. e \in Seq(Names) /\ Len(e) = 0 /\ DOMAIN e = 1 .. 0
    OBVIOUS
  <2>2. "encoded" \in Names
    OBVIOUS
  <2> HIDE DEF e, Names
  <2>3. t \in Seq(Names) /\ Len(t) = Len(e) + 1 /\ t[Len(e) + 1] = "encoded"
    BY <2>1, <2>2, AppendProperties
  <2> HIDE DEF t
  <2>4. Len(t) = 1 /\ t[1] = "encoded"
    BY <2>1, <2>3
  <2>5. t = <<"encoded">>
    BY <2>3, <2>4, ShortSequences
  <2>6. \A i \in DOMAIN e : e[i] # "encoded"
    BY <2>1
  <2>7. Put(e, "encoded") = <<"encoded">>
    BY <1>2, <2>5, <2>6 DEF t
  <2> QED BY <2>7 DEF e
<1>5. Put(<<"encoded">>, "decoded") = <<"encoded", "decoded">>
  <2> DEFINE s == <<"encoded">>
  <2>1. s \in Seq(Names) /\ Len(s) = 1 /\ DOMAIN s = 1 .. 1 /\ s[1] = "encoded"
    OBVIOUS
  <2>2. "decoded" \in Names
    OBVIOUS
  <2> HIDE DEF s, Names
  <2>3. Append(s, "decoded") = <<"encoded", "decoded">>
    BY <2>1, <2>2, ShortAppends
  <2>4. \A i \in DOMAIN s : s[i] # "decoded"
    BY <2>1
  <2>5. Put(s, "decoded") = <<"encoded", "decoded">>
    BY <1>2, <2>3, <2>4
  <2> QED BY <2>5 DEF s
<1> DEFINE two == <<"encoded", "decoded">>
<1>6. two \in Seq(Names) /\ Len(two) = 2 /\ DOMAIN two = 1 .. 2 /\ two[1] = "encoded" /\ two[2] = "decoded"
  OBVIOUS
<1>7. ASSUME NEW b \in {"encoder_bias", "decoder_bias"}
      PROVE  LET s == <<"encoded", "decoded", b>>
             IN  /\ s \in Seq(Names) /\ Len(s) = 3 /\ DOMAIN s = 1 .. 3
                 /\ s[1] = "encoded" /\ s[2] = "decoded" /\ s[3] = b
  <2> DEFINE s == <<"encoded", "decoded", b>>
  <2>1. b \in Names
    OBVIOUS
  <2>2. s \in Seq(Names)
    BY <2>1
  <2>3. Len(s) = 3 /\ DOMAIN s = 1 .. 3
    OBVIOUS
  <2>4. s[1] = "encoded" /\ s[2] = "decoded" /\ s[3] = b
    OBVIOUS
  <2> QED BY <2>2, <2>3, <2>4
<1>8. ASSUME NEW n \in {"encoded", "decoded"}
      PROVE  Put(two, n) = two
  <2> HIDE DEF two, Names
  <2> QED BY <1>1, <1>6
<1>9. ASSUME NEW b \in {"encoder_bias", "decoder_bias"}
      PROVE  Put(two, b) = <<"encoded", "decoded", b>>
  <2>1. b \in Names
    OBVIOUS
  <2> HIDE DEF two, Names
  <2>2. Append(two, b) = <<two[1], two[2], b>>
    BY <1>6, <2>1, ShortAppends
  <2>3. \A i \in DOMAIN two : two[i] # b
    BY <1>6
  <2> QED BY <1>2, <1>6, <2>2, <2>3
<1>10. ASSUME NEW b \in {"encoder_bias", "decoder_bias"}, NEW n \in {"encoded", "decoded", b}
       PROVE  Put(<<"encoded", "decoded", b>>, n) = <<"encoded", "decoded", b>>
  <2> DEFINE s == <<"encoded", "decoded", b>>
  <2>1. s \in Seq(Names) /\ Len(s) = 3 /\ DOMAIN s = 1 .. 3 /\ s[1] = "encoded" /\ s[2] = "decoded" /\ s[3] = b
    BY <1>7
  <2> HIDE DEF s, Names
  <2>2. Put(s, n) = s
    BY <1>1, <2>1
  <2> QED BY <2>2 DEF s
<1>11. ASSUME NEW b \in {"encoder_bias", "decoder_bias"}
       PROVE  RemoveFirst(<<"encoded", "decoded", b>>, b) = two
  <2> DEFINE s == <<"encoded", "decoded", b>>
  <2>1. s \in Seq(Names) /\ Len(s) = 3 /\ s[1] = "encoded" /\ s[2] = "decoded" /\ s[3] = b
    BY <1>7
  <2> HIDE DEF s, Names
  <2>2. 3 \in 1 .. Len(s) /\ \A i \in 1 .. Len(s) : s[i] = b => i = 3
    BY <2>1
  <2>3. RemoveFirst(s, b) = SubSeq(s, 1, 3 - 1) \o SubSeq(s, 3 + 1, Len(s))
    BY <1>3, <2>1, <2>2
  <2>4. 3 - 1 = 2 /\ 3 + 1 = 4
    OBVIOUS
  <2>5. s[1] \in Names
    BY <2>1 DEF Names
  <2>6. SubSeq(s, 1, 2) \o SubSeq(s, 4, 3) = <<s[1], s[2]>>
    BY <2>1, <2>5, ShortAppends
  <2>7. RemoveFirst(s, b) = two
    BY <2>1, <2>3, <2>4, <2>6 DEF two
  <2> QED BY <2>7 DEF s
<1>12. RemoveFirst(two, "encoded") = <<"decoded">>
  <2> HIDE DEF two, Names
  <2>1. 1 \in 1 .. Len(two) /\ \A i \in 1 .. Len(two) : two[i] = "encoded" => i = 1
    BY <1>6
  <2>2. RemoveFirst(two, "encoded") = SubSeq(two, 1, 1 - 1) \o SubSeq(two, 1 + 1, Len(two))
    BY <1>3, <1>6, <2>1
  <2>3. 1 - 1 = 0 /\ 1 + 1 = 2
    OBVIOUS
  <2>4. two[1] \in Names
    BY <1>6 DEF Names
  <2>5. SubSeq(two, 1, 0) \o SubSeq(two, 2, 2) = <<two[2]>>
    BY <1>6, <2>4, ShortAppends
  <2> QED BY <1>6, <2>2, <2>3, <2>5
<1> QED BY <1>4, <1>5, <1>8, <1>9, <1>10, <1>11, <1>12

\* The names that activation_shapes puts together.
LEMMA ConcatNames ==
  /\ \A b \in {"encoder_bias", "decoder_bias"} :
       /\ <<"encoded">> \o <<"decoded">> \o <<b>> \o <<>> = <<"encoded", "decoded", b>>
       /\ <<"encoded">> \o <<"decoded">> \o <<>> \o <<b>> = <<"encoded", "decoded", b>>
  /\ <<"encoded">> \o <<"decoded">> \o <<>> \o <<>> = <<"encoded", "decoded">>
  /\ <<>> \o <<"decoded">> \o <<>> \o <<>> = <<"decoded">>
<1> DEFINE Names == {"encoded", "decoded", "encoder_bias", "decoder_bias"}
           one == <<"encoded">>
           two == <<"encoded", "decoded">>
<1>1. one \in Seq(Names) /\ Len(one) = 1 /\ one[1] = "encoded"
  OBVIOUS
<1>2. two \in Seq(Names) /\ Len(two) = 2 /\ two[1] = "encoded" /\ two[2] = "decoded"
  OBVIOUS
<1>3. "decoded" \in Names
  OBVIOUS
<1>4. one \o <<"decoded">> = two
  <2> HIDE DEF one, Names
  <2>1. Append(one, "decoded") = <<one[1], "decoded">>
    BY <1>1, <1>3, ShortAppends
  <2>2. Append(one, "decoded") = one \o <<"decoded">>
    BY <1>1, <1>3, AppendIsConcat
  <2> QED BY <1>1, <2>1, <2>2
<1>5. two \o <<>> = two
  <2> HIDE DEF two, Names
  <2> QED BY <1>2, ConcatEmptySeq
<1>6. ASSUME NEW b \in {"encoder_bias", "decoder_bias"}
      PROVE  two \o <<b>> = <<"encoded", "decoded", b>> /\ two \o <<b>> \o <<>> = <<"encoded", "decoded", b>>
  <2>1. b \in Names
    OBVIOUS
  <2> HIDE DEF two, Names
  <2>2. Append(two, b) = <<two[1], two[2], b>>
    BY <1>2, <2>1, ShortAppends
  <2>3. Append(two, b) = two \o <<b>> /\ Append(two, b) \in Seq(Names)
    BY <1>2, <2>1, AppendIsConcat, AppendProperties
  <2>4. Append(two, b) \o <<>> = Append(two, b)
    BY <2>3, ConcatEmptySeq
  <2> QED BY <1>2, <2>2, <2>3, <2>4
<1>7. <<>> \o <<"decoded">> \o <<>> \o <<>> = <<"decoded">>
  <2> DEFINE d == <<"decoded">>
  <2>1. d \in Seq(Names)
    OBVIOUS
  <2> HIDE DEF d, Names
  <2>2. <<>> \o d = d /\ d \o <<>> = d
    BY <2>1, ConcatEmptySeq
  <2>3. <<>> \o d \o <<>> \o <<>> = d
    BY <2>2
  <2> QED BY <2>3 DEF d
<1> QED BY <1>4, <1>5, <1>6, <1>7

\* The names expected after a unit, by the part of the model it is in.
LEMMA NamesExpected ==
  ASSUME layout \in Layouts, NEW k \in Nat
  PROVE  ActivationNames(k) =
           IF layout.task = "qa" THEN <<"hidden">>
           ELSE IF 0 < k /\ k < EncoderEnd THEN <<"encoded", "decoded", "encoder_bias">>
           ELSE IF EncoderEnd < k /\ k < DecoderEnd THEN <<"encoded", "decoded", "decoder_bias">>
           ELSE IF k < DecoderEnd THEN <<"encoded", "decoded">>
           ELSE <<"decoded">>
<1>1. EncoderEnd \in Nat /\ DecoderEnd \in Nat /\ EncoderEnd < DecoderEnd
  BY LayoutTypes
<1>2. CASE layout.task = "qa"
  BY <1>2 DEF ActivationNames
<1>3. CASE layout.task # "qa"
  <2> DEFINE A == IF k < DecoderEnd THEN <<"encoded">> ELSE <<>>
             B == IF 0 < k /\ k < EncoderEnd THEN <<"encoder_bias">> ELSE <<>>
             C == IF EncoderEnd < k /\ k < DecoderEnd THEN <<"decoder_bias">> ELSE <<>>
  <2>1. ActivationNames(k) = A \o <<"decoded">> \o B \o C
    BY <1>3 DEF ActivationNames
  <2>2. CASE 0 < k /\ k < EncoderEnd
    <3>1. A = <<"encoded">> /\ B = <<"encoder_bias">> /\ C = <<>>
      BY <1>1, <2>2
    <3> HIDE DEF A, B, C
    <3> QED BY <1>3, <2>1, <2>2, <3>1, ConcatNames
  <2>3. CASE EncoderEnd < k /\ k < DecoderEnd
    <3>1. A = <<"encoded">> /\ B = <<>> /\ C = <<"decoder_bias">>
      BY <1>1, <2>3
    <3>2. ~(0 < k /\ k < EncoderEnd)
      BY <1>1, <2>3
    <3> HIDE DEF A, B, C
    <3> QED BY <1>3, <2>1, <2>3, <3>1, <3>2, ConcatNames
  <2>4. CASE k < DecoderEnd /\ ~(0 < k /\ k < EncoderEnd) /\ ~(EncoderEnd < k /\ k < DecoderEnd)
    <3>1. A = <<"encoded">> /\ B = <<>> /\ C = <<>>
      BY <1>1, <2>4
    <3> HIDE DEF A, B, C
    <3> QED BY <1>3, <2>1, <2>4, <3>1, ConcatNames
  <2>5. CASE ~(k < DecoderEnd)
    <3>1. A = <<>> /\ B = <<>> /\ C = <<>>
      BY <1>1, <2>5
    <3>2. ~(0 < k /\ k < EncoderEnd)
      BY <1>1, <2>5
    <3> HIDE DEF A, B, C
    <3> QED BY <1>3, <2>1, <2>5, <3>1, <3>2, ConcatNames
  <2> QED BY <2>2, <2>3, <2>4, <2>5
<1> QED BY <1>2, <1>3

\* A unit turns what is expected before it into what is expected after it.
LEMMA UnitsFit ==
  ASSUME layout \in Layouts, unit \in Nat, TensorsFit
  PROVE  AfterUnit(tensors) = ActivationNames(unit)
<1>1. /\ layout.task \in {"qa", "mt5"}
      /\ EncoderEnd \in Nat \ {0} /\ DecoderEnd \in Nat /\ EncoderEnd < DecoderEnd
  BY LayoutTypes
<1>2. CASE layout.task = "qa"
  BY <1>2, NamesExpected DEF AfterUnit
<1>3. CASE layout.task = "mt5" /\ unit = 0
  <2>1. tensors = <<>>
    BY <1>3 DEF TensorsFit
  <2>2. /\ ~(unit \in 1 .. EncoderEnd - 1) /\ unit # EncoderEnd
        /\ ~(unit \in EncoderEnd + 1 .. DecoderEnd - 1) /\ unit # DecoderEnd
    BY <1>1, <1>3
  <2>3. AfterUnit(tensors) = Put(Put(tensors, "encoded"), "decoded")
    BY <1>1, <1>3, <2>2 DEF AfterUnit
  <2>4. AfterUnit(tensors) = <<"encoded", "decoded">>
    BY <2>1, <2>3, PutAndRemove
  <2> QED BY <1>1, <1>3, <2>4, NamesExpected
<1>4. CASE layout.task = "mt5" /\ unit # 0
  <2>1. tensors = ActivationNames(unit - 1) /\ unit - 1 \in Nat
    BY <1>4 DEF TensorsFit
  <2>2. CASE unit \in 1 .. EncoderEnd
    <3>1. \/ tensors = <<"encoded", "decoded">>
          \/ tensors = <<"encoded", "decoded", "encoder_bias">>
      <4>1. unit - 1 < EncoderEnd /\ unit - 1 < DecoderEnd
        BY <1>1, <2>2
      <4> QED BY <1>1, <1>4, <2>1, <4>1, NamesExpected
    <3>2. Put(Put(tensors, "encoded"), "encoder_bias") = <<"encoded", "decoded", "encoder_bias">>
      BY <3>1, PutAndRemove
    <3>3. CASE unit = EncoderEnd
      <4>1. AfterUnit(tensors) = <<"encoded", "decoded">>
        BY <1>1, <1>4, <3>2, <3>3, PutAndRemove DEF AfterUnit
      <4> QED BY <1>1, <1>4, <3>3, <4>1, NamesExpected
    <3>4. CASE unit # EncoderEnd
      <4>1. unit \in 1 .. EncoderEnd - 1
        BY <1>1, <2>2, <3>4
      <4>2. AfterUnit(tensors) = <<"encoded", "decoded", "encoder_bias">>
        BY <1>1, <1>4, <3>2, <4>1 DEF AfterUnit
      <4> QED BY <1>1, <1>4, <4>1, <4>2, NamesExpected
    <3> QED BY <3>3, <3>4
  <2>3. CASE unit \in EncoderEnd + 1 .. DecoderEnd
    <3>1. \/ tensors = <<"encoded", "decoded">>
          \/ tensors = <<"encoded", "decoded", "decoder_bias">>
      <4>1. unit - 1 >= EncoderEnd /\ unit - 1 < DecoderEnd
        BY <1>1, <2>3
      <4> QED BY <1>1, <1>4, <2>1, <4>1, NamesExpected
    <3>2. Put(Put(tensors, "decoded"), "decoder_bias") = <<"encoded", "decoded", "decoder_bias">>
      BY <3>1, PutAndRemove
    <3>3. CASE unit = DecoderEnd
      <4>1. ~(unit \in 1 .. EncoderEnd - 1) /\ unit # EncoderEnd /\ ~(unit \in EncoderEnd + 1 .. DecoderEnd - 1)
        BY <1>1, <3>3
      <4>2. AfterUnit(tensors) = <<"decoded">>
        BY <1>1, <1>4, <3>2, <3>3, <4>1, PutAndRemove DEF AfterUnit
      <4> QED BY <1>1, <1>4, <3>3, <4>2, NamesExpected
    <3>4. CASE unit # DecoderEnd
      <4>1. unit \in EncoderEnd + 1 .. DecoderEnd - 1
        BY <1>1, <2>3, <3>4
      <4>2. ~(unit \in 1 .. EncoderEnd - 1) /\ unit # EncoderEnd
        BY <1>1, <4>1
      <4>3. AfterUnit(tensors) = <<"encoded", "decoded", "decoder_bias">>
        BY <1>1, <1>4, <3>2, <4>1, <4>2 DEF AfterUnit
      <4> QED BY <1>1, <1>4, <4>1, <4>3, NamesExpected
    <3> QED BY <3>3, <3>4
  <2>4. CASE unit > DecoderEnd
    <3>1. tensors = <<"decoded">>
      BY <1>1, <1>4, <2>1, <2>4, NamesExpected
    <3>2. AfterUnit(tensors) = tensors
      BY <1>1, <1>4, <2>4 DEF AfterUnit
    <3> QED BY <1>1, <1>4, <2>4, <3>1, <3>2, NamesExpected
  <2> QED BY <1>1, <1>4, <2>2, <2>3, <2>4
<1> QED BY <1>1, <1>2, <1>3, <1>4


LEMMA PartitionStarts ==
  ASSUME PartitionInit
  PROVE  PartitionInv
<1>1. layout \in Layouts /\ pipelineRank = 0 /\ unit = 0 /\ tensors = <<>>
  BY DEF PartitionInit
<1>2. passed \in {"running", "finished", "refused"} /\ passed # "finished"
  BY DEF PartitionInit
<1>3. ASSUME passed # "refused" PROVE ~Refuses /\ TensorsFit /\ PlaceInModel
  <2>1. ~Refuses
    BY <1>3 DEF PartitionInit
  <2>2. TensorsFit
    BY <1>1 DEF TensorsFit
  <2>3. StageCount \in Nat \ {0}
    BY <1>1, StagesArePositive
  <2>4. Boundary(0) = 0 /\ Boundary(0 + 1) \in Nat /\ 0 < Boundary(0 + 1)
    <3>1. Boundary(0) = 0 /\ \A r \in Nat : Boundary(r) \in Nat /\ Boundary(r) < Boundary(r + 1)
      BY <1>1, <2>1, BoundariesGrow
    <3>2. Boundary(0) < Boundary(0 + 1) /\ Boundary(0 + 1) \in Nat
      BY <3>1
    <3> QED BY <3>1, <3>2
  <2>5. PlaceInModel
    BY <1>1, <1>2, <2>3, <2>4 DEF PlaceInModel
  <2> QED BY <2>1, <2>2, <2>5
<1> QED BY <1>1, <1>2, <1>3 DEF PartitionInv

\* Nothing that depends on the layout alone changes.
LEMMA LayoutStays ==
  ASSUME layout' = layout
  PROVE  /\ Units' = Units /\ EncoderEnd' = EncoderEnd /\ DecoderEnd' = DecoderEnd
         /\ StageCount' = StageCount /\ Refuses' = Refuses
         /\ \A r : Boundary(r)' = Boundary(r)
         /\ \A k : ActivationNames(k)' = ActivationNames(k)
<1>1. Units' = Units /\ EncoderEnd' = EncoderEnd /\ DecoderEnd' = DecoderEnd
  BY DEF Units, EncoderEnd, DecoderEnd
<1>2. StageCount' = StageCount
  BY <1>1 DEF StageCount
<1>3. Refuses' = Refuses
  BY <1>1, <1>2 DEF Refuses
<1>4. \A r : Boundary(r)' = Boundary(r)
  BY <1>1, <1>2 DEF Boundary
<1>5. \A k : ActivationNames(k)' = ActivationNames(k)
  BY <1>1 DEF ActivationNames
<1> QED BY <1>1, <1>2, <1>3, <1>4, <1>5

LEMMA PartitionStep ==
  ASSUME PartitionInv, [PartitionNext]_partitionVars
  PROVE  PartitionInv'
<1>1. CASE UNCHANGED partitionVars
  <2>1. layout' = layout /\ pipelineRank' = pipelineRank /\ unit' = unit /\ tensors' = tensors /\ passed' = passed
    BY <1>1 DEF partitionVars
  <2> QED BY <2>1, LayoutStays DEF PartitionInv, TensorsFit, PlaceInModel
<1>2. CASE PartitionNext
  <2>1. layout \in Layouts /\ layout' = layout /\ passed = "running"
    BY <1>2 DEF PartitionInv, PartitionNext, RunUnit, HandOver, FinishForward
  <2>2. ~Refuses /\ TensorsFit /\ PlaceInModel
    BY <2>1 DEF PartitionInv
  <2>3. /\ pipelineRank \in Nat /\ pipelineRank < StageCount
        /\ unit \in Boundary(pipelineRank) .. Boundary(pipelineRank + 1)
    BY <2>2 DEF PlaceInModel
  <2>4. /\ Boundary(StageCount) = Units
        /\ \A r \in Nat : Boundary(r) \in Nat /\ Boundary(r) < Boundary(r + 1)
    BY <2>1, <2>2, BoundariesGrow
  <2>5. /\ Boundary(pipelineRank) \in Nat
        /\ pipelineRank + 1 \in Nat /\ Boundary(pipelineRank + 1) \in Nat
        /\ Boundary(pipelineRank + 1) < Boundary(pipelineRank + 1 + 1)
        /\ Boundary(pipelineRank + 1 + 1) \in Nat
        /\ Boundary(pipelineRank) < Boundary(pipelineRank + 1)
    <3>1. pipelineRank + 1 \in Nat /\ pipelineRank + 1 + 1 \in Nat
      BY <2>3
    <3> QED BY <2>3, <2>4, <3>1
  <2>6. unit \in Nat
    BY <2>3, <2>5
  <2>7. StageCount \in Nat \ {0}
    BY <2>1, StagesArePositive
  <2>8. ~Refuses' /\ StageCount' = StageCount /\ Units' = Units
    BY <2>1, <2>2, LayoutStays
  <2>9. /\ \A r : Boundary(r)' = Boundary(r)
        /\ \A k : ActivationNames(k)' = ActivationNames(k)
    BY <2>1, LayoutStays
  <2>10. CASE RunUnit
    <3>1. /\ unit \in Owned(pipelineRank) /\ tensors' = AfterUnit(tensors) /\ unit' = unit + 1
          /\ pipelineRank' = pipelineRank /\ passed' = passed
      BY <2>10 DEF RunUnit
    <3>2. TensorsFit'
      <4>1. tensors' = ActivationNames(unit)
        BY <2>1, <2>2, <2>6, <3>1, UnitsFit
      <4>2. unit' # 0 /\ unit' - 1 = unit
        BY <2>6, <3>1
      <4> QED BY <2>1, <4>1, <4>2 DEF TensorsFit, ActivationNames, EncoderEnd, DecoderEnd
    <3>3. PlaceInModel'
      <4>1. unit < Boundary(pipelineRank + 1) /\ unit >= Boundary(pipelineRank)
        BY <2>5, <2>6, <3>1 DEF Owned
      <4>2. unit + 1 \in Boundary(pipelineRank) .. Boundary(pipelineRank + 1)
        BY <2>5, <2>6, <4>1
      <4> QED BY <2>1, <2>3, <2>8, <3>1, <4>2 DEF PlaceInModel, Boundary
    <3> QED BY <2>1, <2>8, <3>1, <3>2, <3>3 DEF PartitionInv
  <2>11. CASE HandOver
    <3>1. /\ unit = Boundary(pipelineRank + 1) /\ pipelineRank + 1 < StageCount
          /\ pipelineRank' = pipelineRank + 1 /\ tensors' = ActivationNames(unit - 1)
          /\ unit' = unit /\ passed' = passed
      BY <2>11 DEF HandOver
    <3>2. TensorsFit'
      <4>1. unit # 0
        BY <2>5, <3>1
      <4> QED BY <2>1, <3>1, <4>1 DEF TensorsFit, ActivationNames, EncoderEnd, DecoderEnd
    <3>3. PlaceInModel'
      <4>1. unit \in Boundary(pipelineRank + 1) .. Boundary(pipelineRank + 1 + 1)
        BY <2>5, <3>1
      <4> QED BY <2>1, <2>5, <2>8, <3>1, <4>1 DEF PlaceInModel, Boundary
    <3> QED BY <2>1, <2>8, <3>1, <3>2, <3>3 DEF PartitionInv
  <2>12. CASE FinishForward
    <3>1. /\ unit = Boundary(pipelineRank + 1) /\ pipelineRank + 1 = StageCount
          /\ passed' = "finished" /\ pipelineRank' = pipelineRank /\ unit' = unit /\ tensors' = tensors
      BY <2>12 DEF FinishForward
    <3>2. TensorsFit'
      BY <2>2, <2>9, <3>1 DEF TensorsFit
    <3>3. PlaceInModel'
      BY <2>3, <2>4, <2>8, <2>9, <3>1 DEF PlaceInModel
    <3> QED BY <2>1, <2>8, <3>1, <3>2, <3>3 DEF PartitionInv
  <2> QED BY <1>2, <2>10, <2>11, <2>12 DEF PartitionNext
<1> QED BY <1>1, <1>2

\* However a model of any depth is cut into any number of stages it can be cut
\* into, the tensors sent over a cut are those the next stage expects, in its
\* order; every stage has units and all units are run (pipeline_layout,
\* qa_layout, activation_shapes, MT5Partition.forward).
THEOREM CutsFit == PartitionSpec => []StagesFit
<1>1. PartitionInit => PartitionInv
  BY PartitionStarts
<1>2. PartitionInv /\ [PartitionNext]_partitionVars => PartitionInv'
  BY PartitionStep
<1>3. PartitionInv => StagesFit
  <2> SUFFICES ASSUME PartitionInv PROVE StagesFit
    OBVIOUS
  <2>1. layout \in Layouts
    BY DEF PartitionInv
  <2>2. ASSUME passed = "running", unit = Boundary(pipelineRank + 1), pipelineRank + 1 < StageCount
        PROVE  tensors = ActivationNames(unit - 1)
    <3>1. ~Refuses /\ TensorsFit /\ PlaceInModel
      BY <2>2 DEF PartitionInv
    <3>2. pipelineRank \in Nat
      BY <3>1 DEF PlaceInModel
    <3>3. unit # 0
      <4>1. Boundary(pipelineRank) \in Nat /\ Boundary(pipelineRank) < Boundary(pipelineRank + 1)
        BY <2>1, <3>1, <3>2, BoundariesGrow
      <4> QED BY <2>2, <4>1
    <3> QED BY <3>1, <3>3 DEF TensorsFit
  <2>3. passed = "finished" => unit = Units
    BY DEF PartitionInv, PlaceInModel
  <2>4. ASSUME passed # "refused", NEW r \in 0 .. StageCount - 1
        PROVE  Owned(r) # {}
    <3>1. ~Refuses
      BY <2>4 DEF PartitionInv
    <3>2. StageCount \in Nat \ {0}
      BY <2>1, StagesArePositive
    <3>3. r \in Nat /\ r + 1 \in Nat
      BY <3>2
    <3>4. Boundary(r) \in Nat /\ Boundary(r) < Boundary(r + 1) /\ Boundary(r + 1) \in Nat
      BY <2>1, <3>1, <3>3, BoundariesGrow
    <3>5. Boundary(r) \in Owned(r)
      BY <3>4 DEF Owned
    <3> QED BY <3>5
  <2> QED BY <2>2, <2>3, <2>4 DEF StagesFit
<1> QED BY <1>1, <1>2, <1>3, PTL DEF PartitionSpec

------------------------------------------------------------------------------
(* PlacementSearch: lemmas about numbers of devices.                         *)

Assignments == [Devices -> Parts]

\* How many devices there are.
LEMMA DevicesCounted ==
  /\ Way * PartitionSize \in Nat /\ Way \in Nat /\ PartitionSize \in Nat /\ Way > 1 /\ PartitionSize > 1
  /\ IsFiniteSet(Devices) /\ Cardinality(Devices) = Way * PartitionSize
  /\ IsFiniteSet(Parts) /\ Cardinality(Parts) = Way
  /\ Devices \subseteq Nat /\ Parts \subseteq Nat
<1>1. Way \in Nat /\ PartitionSize \in Nat /\ Way > 1 /\ PartitionSize > 1
  BY SearchAssumption
<1>2. Way * PartitionSize \in Nat
  BY <1>1
<1>a. Way * PartitionSize - 1 \in Int /\ ~(0 > Way * PartitionSize - 1)
  BY <1>1, SMT
<1>3. IsFiniteSet(Devices) /\ Cardinality(Devices) = Way * PartitionSize
  <2> DEFINE n == Way * PartitionSize
  <2>1. n \in Nat /\ ~(0 > n - 1)
    BY <1>2, <1>a
  <2> HIDE DEF n
  <2>2. IsFiniteSet(0 .. n - 1) /\ Cardinality(0 .. n - 1) = IF 0 > n - 1 THEN 0 ELSE n - 1 - 0 + 1
    BY <2>1, FS_Interval
  <2>3. Cardinality(0 .. n - 1) = n
    BY <2>1, <2>2
  <2> QED BY <2>2, <2>3 DEF Devices, n
<1>4. IsFiniteSet(Parts) /\ Cardinality(Parts) = Way
  <2>1. IsFiniteSet(0 .. Way - 1) /\ Cardinality(0 .. Way - 1) = IF 0 > Way - 1 THEN 0 ELSE Way - 1 - 0 + 1
    BY <1>1, FS_Interval
  <2> QED BY <1>1, <2>1 DEF Parts
<1>5. Devices \subseteq Nat /\ Parts \subseteq Nat
  BY <1>1 DEF Devices, Parts
<1> QED BY <1>1, <1>2, <1>3, <1>4, <1>5

\* Sizes of partitions are natural numbers.
LEMMA SizeIsNatural ==
  ASSUME NEW s, NEW p
  PROVE  /\ IsFiniteSet(MembersOf(s, p)) /\ Cardinality(MembersOf(s, p)) \in Nat
         /\ MembersOf(s, p) \subseteq Devices
<1>1. MembersOf(s, p) \in SUBSET Devices
  BY DEF MembersOf
<1> QED BY <1>1, DevicesCounted, FS_Subset, FS_CardinalityType

\* The size of partition p after device d moved to q.
LEMMA SizeAfterMove ==
  ASSUME NEW s \in Assignments, NEW d \in Devices, NEW q \in Parts, NEW p \in Parts
  PROVE  /\ [s EXCEPT ![d] = q] \in Assignments
         /\ s[d] = q => [s EXCEPT ![d] = q] = s
         /\ s[d] # q =>
              Cardinality(MembersOf([s EXCEPT ![d] = q], p)) =
                IF p = q THEN Cardinality(MembersOf(s, p)) + 1
                ELSE IF p = s[d] THEN Cardinality(MembersOf(s, p)) - 1
                ELSE Cardinality(MembersOf(s, p))
<1> DEFINE t == [s EXCEPT ![d] = q]
           M == MembersOf(s, p)
<1>1. t \in Assignments
  BY DEF Assignments
<1>2. s[d] = q => t = s
  BY DEF Assignments
<1>3. IsFiniteSet(M)
  BY SizeIsNatural
<1>4. ASSUME s[d] # q, p = q
      PROVE  Cardinality(MembersOf(t, p)) = Cardinality(M) + 1
  <2>1. MembersOf(t, p) = M \cup {d}
    BY <1>4 DEF MembersOf, Assignments
  <2>2. d \notin M
    BY <1>4 DEF MembersOf
  <2> QED BY <2>1, <2>2, <1>3, FS_AddElement
<1>5. ASSUME s[d] # q, p # q, p = s[d]
      PROVE  Cardinality(MembersOf(t, p)) = Cardinality(M) - 1
  <2>1. MembersOf(t, p) = M \ {d}
    BY <1>5 DEF MembersOf, Assignments
  <2>2. d \in M
    BY <1>5 DEF MembersOf
  <2> QED BY <2>1, <2>2, <1>3, FS_RemoveElement
<1>6. ASSUME s[d] # q, p # q, p # s[d]
      PROVE  MembersOf(t, p) = M
  BY <1>6 DEF MembersOf, Assignments
<1> QED BY <1>1, <1>2, <1>4, <1>5, <1>6

\* The devices in partitions before the n-th.
Before(s, n) == {d \in Devices : s[d] < n}

LEMMA BeforeGrows ==
  ASSUME NEW s \in Assignments, NEW n \in Nat
  PROVE  /\ Cardinality(Before(s, n)) \in Nat
         /\ Cardinality(Before(s, 0)) = 0
         /\ Cardinality(Before(s, n + 1)) = Cardinality(Before(s, n)) + Cardinality(MembersOf(s, n))
<1>0. \A d \in Devices : s[d] \in Nat
  BY DevicesCounted DEF Assignments
<1>1. Before(s, n) \in SUBSET Devices
  BY DEF Before
<1>2. IsFiniteSet(Before(s, n)) /\ Cardinality(Before(s, n)) \in Nat
  BY <1>1, DevicesCounted, FS_Subset, FS_CardinalityType
<1>3. Before(s, 0) = {}
  BY <1>0 DEF Before
<1>4. Before(s, n + 1) = Before(s, n) \cup MembersOf(s, n)
  BY <1>0 DEF Before, MembersOf
<1>5. Before(s, n) \cap MembersOf(s, n) = {}
  BY <1>0 DEF Before, MembersOf
<1>6. IsFiniteSet(MembersOf(s, n)) /\ Cardinality(MembersOf(s, n)) \in Nat
  BY SizeIsNatural
<1>7. Cardinality(Before(s, n + 1)) =
        Cardinality(Before(s, n)) + Cardinality(MembersOf(s, n)) - Cardinality({})
  BY <1>2, <1>4, <1>5, <1>6, FS_Union
<1> QED BY <1>2, <1>3, <1>6, <1>7, FS_EmptySet

\* If no partition has too many devices, each has as many as it should.
LEMMA NoneOverIsBalanced ==
  ASSUME NEW s \in Assignments, \A p \in Parts : Cardinality(MembersOf(s, p)) <= PartitionSize
  PROVE  IsBalanced(s)
<1> SUFFICES ASSUME NEW q \in Parts, Cardinality(MembersOf(s, q)) # PartitionSize
             PROVE  FALSE
  BY DEF IsBalanced
<1> DEFINE f == [n \in Nat |-> Cardinality(Before(s, n))]
           size == [n \in Nat |-> Cardinality(MembersOf(s, n))]
           K == PartitionSize
           Bound(n) == n * K - (IF q < n THEN 1 ELSE 0)
           Bad == {n \in Nat : n <= Way /\ ~(f[n] <= Bound(n))}
<1>1. \A n \in Nat : f[n] \in Nat /\ size[n] \in Nat /\ f[n + 1] = f[n] + size[n]
  BY BeforeGrows, SizeIsNatural
<1>2. f[0] = 0
  BY BeforeGrows
<1>3. K \in Nat /\ Way \in Nat /\ q \in Nat /\ q < Way
  BY DevicesCounted DEF Parts
<1>4. \A n \in Nat : n < Way => size[n] <= K
  BY <1>3 DEF Parts
<1>5. size[q] <= K - 1
  <2>1. size[q] = Cardinality(MembersOf(s, q)) /\ size[q] # K
    BY <1>3
  <2>2. size[q] <= K /\ size[q] \in Nat
    BY <1>1, <1>3, <1>4
  <2> HIDE DEF f, size
  <2> QED BY <2>1, <2>2, <1>3
<1>6. f[Way] = Way * K
  <2>1. Before(s, Way) = Devices
    BY <1>3 DEF Before, Assignments, Parts
  <2> QED BY <2>1, DevicesCounted
<1>7. Bad = {}
  <2>1. SUFFICES ASSUME Bad # {} PROVE FALSE
    OBVIOUS
  <2>2. PICK n \in Bad : \A m \in Bad : n <= m
    BY <2>1, LeastOfSet
  <2> HIDE DEF f, size
  <2>3. n # 0
    BY <1>2, <1>3
  <2>4. n - 1 \in Nat /\ n - 1 \notin Bad /\ n - 1 < Way
    BY <2>2, <2>3, <1>3
  <2>5. f[n - 1] <= Bound(n - 1)
    BY <2>4, <2>2, <1>3
  <2>6. f[n] = f[n - 1] + size[n - 1]
    BY <2>4, <1>1
  <2>7. size[n - 1] <= K /\ (n - 1 = q => size[n - 1] <= K - 1)
    BY <2>4, <1>4, <1>5
  <2>8. n * K = (n - 1) * K + K
    BY <2>4, <1>3
  <2>9. (n - 1) * K \in Nat /\ f[n - 1] \in Nat /\ size[n - 1] \in Nat
    BY <2>4, <1>3, <1>1
  <2>10. f[n] <= Bound(n)
    <3>1. CASE q < n - 1
      BY <3>1, <2>5, <2>6, <2>7, <2>8, <2>9, <1>3, <2>4
    <3>2. CASE q = n - 1
      BY <3>2, <2>5, <2>6, <2>7, <2>8, <2>9, <1>3, <2>4
    <3>3. CASE q > n - 1
      BY <3>3, <2>5, <2>6, <2>7, <2>8, <2>9, <1>3, <2>4
    <3> QED BY <3>1, <3>2, <3>3, <1>3, <2>4
  <2> QED BY <2>10, <2>2
<1>8. f[Way] <= Bound(Way)
  <2> HIDE DEF f, size
  <2>1. Way \notin Bad
    BY <1>7
  <2> QED BY <2>1, <1>3
<1>9. Way * K \in Nat
  BY <1>3
<1> HIDE DEF f, size
<1> QED BY <1>8, <1>6, <1>9, <1>3

\* If one partition has too many devices, another has too few.
LEMMA SomeUnder ==
  ASSUME NEW s \in Assignments, NEW q \in Parts, Cardinality(MembersOf(s, q)) > PartitionSize
  PROVE  \E p \in Parts : Cardinality(MembersOf(s, p)) < PartitionSize
<1> SUFFICES ASSUME \A p \in Parts : ~(Cardinality(MembersOf(s, p)) < PartitionSize)
             PROVE  FALSE
  OBVIOUS
<1> DEFINE f == [n \in Nat |-> Cardinality(Before(s, n))]
           size == [n \in Nat |-> Cardinality(MembersOf(s, n))]
           K == PartitionSize
           Bound(n) == n * K + (IF q < n THEN 1 ELSE 0)
           Bad == {n \in Nat : n <= Way /\ ~(f[n] >= Bound(n))}
<1>1. \A n \in Nat : f[n] \in Nat /\ size[n] \in Nat /\ f[n + 1] = f[n] + size[n]
  BY BeforeGrows, SizeIsNatural
<1>2. f[0] = 0
  BY BeforeGrows
<1>3. K \in Nat /\ Way \in Nat /\ q \in Nat /\ q < Way
  BY DevicesCounted DEF Parts
<1>4. \A n \in Nat : n < Way => size[n] >= K
  <2> TAKE n \in Nat
  <2>1. n < Way => n \in Parts
    BY <1>3 DEF Parts
  <2>2. n < Way => ~(size[n] < K)
    BY <2>1
  <2> HIDE DEF f, size
  <2> QED BY <2>2, <1>1, <1>3
<1>5. size[q] >= K + 1
  <2>1. size[q] = Cardinality(MembersOf(s, q)) /\ size[q] > K
    BY <1>3
  <2> HIDE DEF f, size
  <2> QED BY <2>1, <1>1, <1>3
<1>6. f[Way] = Way * K
  <2>1. Before(s, Way) = Devices
    BY <1>3 DEF Before, Assignments, Parts
  <2> QED BY <2>1, DevicesCounted
<1>7. Bad = {}
  <2>1. SUFFICES ASSUME Bad # {} PROVE FALSE
    OBVIOUS
  <2>2. PICK n \in Bad : \A m \in Bad : n <= m
    BY <2>1, LeastOfSet
  <2> HIDE DEF f, size
  <2>3. n # 0
    BY <1>2, <1>3
  <2>4. n - 1 \in Nat /\ n - 1 \notin Bad /\ n - 1 < Way
    BY <2>2, <2>3, <1>3
  <2>5. f[n - 1] >= Bound(n - 1)
    BY <2>4, <2>2, <1>3
  <2>6. f[n] = f[n - 1] + size[n - 1]
    BY <2>4, <1>1
  <2>7. size[n - 1] >= K /\ (n - 1 = q => size[n - 1] >= K + 1)
    BY <2>4, <1>4, <1>5
  <2>8. n * K = (n - 1) * K + K
    BY <2>4, <1>3
  <2>9. (n - 1) * K \in Nat /\ f[n - 1] \in Nat /\ size[n - 1] \in Nat
    BY <2>4, <1>3, <1>1
  <2>10. f[n] >= Bound(n)
    <3>1. CASE q < n - 1
      BY <3>1, <2>5, <2>6, <2>7, <2>8, <2>9, <1>3, <2>4
    <3>2. CASE q = n - 1
      BY <3>2, <2>5, <2>6, <2>7, <2>8, <2>9, <1>3, <2>4
    <3>3. CASE q > n - 1
      BY <3>3, <2>5, <2>6, <2>7, <2>8, <2>9, <1>3, <2>4
    <3> QED BY <3>1, <3>2, <3>3, <1>3, <2>4
  <2> QED BY <2>10, <2>2
<1>8. f[Way] >= Bound(Way)
  <2> HIDE DEF f, size
  <2>1. Way \notin Bad
    BY <1>7
  <2> QED BY <2>1, <1>3
<1>9. Way * K \in Nat
  BY <1>3
<1> HIDE DEF f, size
<1> QED BY <1>8, <1>6, <1>9, <1>3

------------------------------------------------------------------------------
(* Lemmas about the crossover.                                               *)

\* Every device before the n-th is in a partition that has room for it.
Fits(s, n) ==
  \A d \in Devices : d < n => Cardinality(MembersOf(s, s[d])) <= PartitionSize

\* One step of the repair.
LEMMA RepairFits ==
  ASSUME NEW s \in Assignments, NEW n \in Devices, Fits(s, n)
  PROVE  Repaired(s, n) \in Assignments /\ Fits(Repaired(s, n), n + 1)
<1>0. n \in Nat /\ PartitionSize \in Nat /\ Devices \subseteq Nat
  BY DevicesCounted
<1>1. \A p : Cardinality(MembersOf(s, p)) \in Nat
  BY SizeIsNatural
<1>2. CASE Cardinality(MembersOf(s, s[n])) <= PartitionSize
  <2>1. Repaired(s, n) = s
    BY <1>2 DEF Repaired
  <2>2. Fits(s, n + 1)
    <3> SUFFICES ASSUME NEW d \in Devices, d < n + 1
                 PROVE  Cardinality(MembersOf(s, s[d])) <= PartitionSize
      BY DEF Fits
    <3>1. d < n \/ d = n
      BY <1>0
    <3> QED BY <3>1, <1>2 DEF Fits
  <2> QED BY <2>1, <2>2
<1>3. CASE ~(Cardinality(MembersOf(s, s[n])) <= PartitionSize)
  <2> DEFINE Room == {p \in Parts : Cardinality(MembersOf(s, p)) < PartitionSize}
             q == Min(Room)
             t == [s EXCEPT ![n] = q]
  <2>1. s[n] \in Parts
    BY DEF Assignments
  <2>2. Cardinality(MembersOf(s, s[n])) > PartitionSize
    BY <1>3, <1>1, <1>0
  <2>3. Room # {}
    BY <2>1, <2>2, SomeUnder
  <2>4. Room \subseteq Nat
    BY DevicesCounted
  <2>5. q \in Room
    <3>1. \E x \in Room : \A y \in Room : x <= y
      BY <2>3, <2>4, LeastOfSet
    <3> QED BY <3>1 DEF Min
  <2>6. Repaired(s, n) = t
    BY <1>3 DEF Repaired
  <2> HIDE DEF q
  <2>7. q \in Parts /\ Cardinality(MembersOf(s, q)) < PartitionSize /\ s[n] # q
    BY <2>5, <2>2, <1>0, <1>1
  <2>8. t \in Assignments
    BY <2>7, SizeAfterMove
  <2>9. \A p \in Parts : Cardinality(MembersOf(s, p)) <= PartitionSize
                          => Cardinality(MembersOf(t, p)) <= PartitionSize
    <3> TAKE p \in Parts
    <3>1. Cardinality(MembersOf(t, p)) =
                IF p = q THEN Cardinality(MembersOf(s, p)) + 1
                ELSE IF p = s[n] THEN Cardinality(MembersOf(s, p)) - 1
                ELSE Cardinality(MembersOf(s, p))
      BY <2>7, SizeAfterMove
    <3> QED BY <3>1, <2>7, <1>0, <1>1
  <2>10. Fits(t, n + 1)
    <3> SUFFICES ASSUME NEW d \in Devices, d < n + 1
                 PROVE  Cardinality(MembersOf(t, t[d])) <= PartitionSize
      BY DEF Fits
    <3>1. CASE d = n
      <4>1. t[d] = q
        BY <3>1 DEF Assignments
      <4>2. Cardinality(MembersOf(s, q)) <= PartitionSize
        BY <2>7, <1>0, <1>1
      <4>3. Cardinality(MembersOf(t, q)) <= PartitionSize
        BY <2>7, <2>9, <4>2
      <4> QED BY <4>1, <4>3
    <3>2. CASE d # n
      <4>1. t[d] = s[d] /\ d < n
        BY <3>2, <1>0 DEF Assignments
      <4>2. s[d] \in Parts /\ Cardinality(MembersOf(s, s[d])) <= PartitionSize
        BY <4>1 DEF Fits, Assignments
      <4> QED BY <4>1, <4>2, <2>9
    <3> QED BY <3>1, <3>2
  <2> QED BY <2>6, <2>8, <2>10
<1> QED BY <1>2, <1>3

\* f lists the assignments of a repair that starts with s, up to the m-th.
Repairs(f, s, m) == f = [n \in 0 .. m |-> IF n = 0 THEN s ELSE Repaired(f[n - 1], n - 1)]

LEMMA RepairsExist ==
  ASSUME NEW s, NEW n \in Nat
  PROVE  \E f : Repairs(f, s, n)
<1> DEFINE Bad == {m \in Nat : ~\E f : Repairs(f, s, m)}
<1>1. SUFFICES ASSUME Bad # {} PROVE FALSE
  OBVIOUS
<1>2. PICK m \in Bad : \A k \in Bad : m <= k
  BY <1>1, LeastOfSet
<1>3. m \in Nat /\ ~\E f : Repairs(f, s, m)
  OBVIOUS
<1>4. CASE m = 0
  <2> DEFINE g == [i \in 0 .. 0 |-> s]
  <2>1. Repairs(g, s, 0)
    BY DEF Repairs
  <2> QED BY <2>1, <1>4, <1>3
<1>5. CASE m # 0
  <2>1. m - 1 \in Nat /\ m - 1 \notin Bad
    BY <1>2, <1>3, <1>5
  <2>2. PICK f : Repairs(f, s, m - 1)
    BY <2>1
  <2> DEFINE g == [i \in 0 .. m |-> IF i = m THEN Repaired(f[m - 1], m - 1) ELSE f[i]]
             h == [i \in 0 .. m |-> IF i = 0 THEN s ELSE Repaired(g[i - 1], i - 1)]
  <2>3. \A i \in 0 .. m : g[i] = h[i]
    <3> TAKE i \in 0 .. m
    <3>1. CASE i = m
      <4>1. g[i - 1] = f[m - 1]
        BY <3>1, <2>1
      <4>2. h[i] = Repaired(g[i - 1], i - 1)
        BY <3>1, <1>5
      <4> QED BY <3>1, <4>1, <4>2, <1>3
    <3>2. CASE i # m
      <4>1. i \in 0 .. m - 1 /\ (i # 0 => i - 1 \in 0 .. m - 1)
        BY <3>2, <2>1
      <4>2. g[i] = f[i] /\ (i # 0 => g[i - 1] = f[i - 1])
        BY <4>1, <2>1
      <4>3. f[i] = IF i = 0 THEN s ELSE Repaired(f[i - 1], i - 1)
        BY <2>2, <4>1 DEF Repairs
      <4> QED BY <4>2, <4>3
    <3> QED BY <3>1, <3>2
  <2>4. g = h
    BY <2>3
  <2>5. Repairs(g, s, m)
    BY <2>4 DEF Repairs
  <2> QED BY <2>5, <1>3
<1> QED BY <1>4, <1>5

\* Whatever the parents and the points are, the repair ends balanced.
LEMMA CrossoverBalances ==
  ASSUME NEW one \in Assignments, NEW two \in Assignments, NEW points
  PROVE  Crossover(one, two, points) \in Assignments /\ IsBalanced(Crossover(one, two, points))
<1> DEFINE N == Way * PartitionSize
           s == [d \in Devices |-> IF d \in points THEN one[d] ELSE two[d]]
           repaired == CHOOSE f : f = [n \in 0 .. N |-> IF n = 0 THEN s ELSE Repaired(f[n - 1], n - 1)]
           Bad == {n \in Nat : n <= N /\ ~(repaired[n] \in Assignments /\ Fits(repaired[n], n))}
<1>1. Crossover(one, two, points) = repaired[N]
  BY DEF Crossover
<1>2. N \in Nat
  BY DevicesCounted
<1>3. Repairs(repaired, s, N)
  <2>1. \E f : f = [n \in 0 .. N |-> IF n = 0 THEN s ELSE Repaired(f[n - 1], n - 1)]
    <3>1. \E f : Repairs(f, s, N)
      BY <1>2, RepairsExist
    <3> QED BY <3>1 DEF Repairs
  <2> QED BY <2>1 DEF Repairs
<1>4. s \in Assignments /\ Devices \subseteq Nat
  BY DevicesCounted DEF Assignments
<1> HIDE DEF repaired, s
<1>5. \A n \in 0 .. N : repaired[n] = IF n = 0 THEN s ELSE Repaired(repaired[n - 1], n - 1)
  BY <1>3 DEF Repairs
<1>6. Bad = {}
  <2> SUFFICES ASSUME Bad # {} PROVE FALSE
    OBVIOUS
  <2>1. PICK m \in Bad : \A k \in Bad : m <= k
    BY LeastOfSet
  <2>2. m # 0
    <3>1. 0 \in 0 .. N
      BY <1>2
    <3>2. repaired[0] = s /\ Fits(s, 0)
      BY <1>4, <1>5, <3>1 DEF Fits
    <3> QED BY <3>2, <1>4
  <2>3. m - 1 \in Nat /\ m - 1 \notin Bad /\ m <= N
    BY <2>1, <2>2
  <2>4. repaired[m - 1] \in Assignments /\ Fits(repaired[m - 1], m - 1)
    BY <2>3, <1>2
  <2>5. m - 1 \in Devices
    BY <2>3, <1>2 DEF Devices
  <2>6. m \in 0 .. N /\ (m - 1) + 1 = m
    BY <2>3, <1>2
  <2>7. repaired[m] = Repaired(repaired[m - 1], m - 1)
    BY <2>6, <1>5, <2>2
  <2>8. repaired[m] \in Assignments /\ Fits(repaired[m], m)
    BY <2>4, <2>5, <2>6, <2>7, RepairFits
  <2> QED BY <2>8, <2>1
<1>7. repaired[N] \in Assignments /\ Fits(repaired[N], N)
  <2>1. N \notin Bad
    BY <1>6
  <2> HIDE DEF N
  <2> QED BY <2>1, <1>2
<1>8. \A p \in Parts : Cardinality(MembersOf(repaired[N], p)) <= PartitionSize
  <2> TAKE p \in Parts
  <2> DEFINE t == repaired[N]
  <2>1. CASE MembersOf(t, p) = {}
    BY <2>1, FS_EmptySet, DevicesCounted
  <2>2. CASE MembersOf(t, p) # {}
    <3>1. PICK d \in Devices : t[d] = p
      BY <2>2 DEF MembersOf
    <3>2. d < N
      BY <1>2 DEF Devices
    <3> QED BY <3>1, <3>2, <1>7 DEF Fits
  <2> QED BY <2>1, <2>2
<1> QED BY <1>1, <1>7, <1>8, NoneOverIsBalanced

------------------------------------------------------------------------------
(* Lemmas about costs.                                                       *)

LEMMA LeastIsThere ==
  ASSUME NEW T, T \subseteq Nat, T # {}
  PROVE  Min(T) \in T /\ Min(T) \in Nat /\ \A y \in T : Min(T) <= y
<1>1. \E x \in T : \A y \in T : x <= y
  BY LeastOfSet
<1>2. Min(T) \in T /\ \A y \in T : Min(T) <= y
  BY <1>1 DEF Min
<1> QED BY <1>2

\* An integer function on a finite set is smallest somewhere.
LEMMA SmallestValue ==
  ASSUME NEW D, IsFiniteSet(D), D # {}, NEW v, \A x \in D : v[x] \in Int
  PROVE  \E x \in D : \A y \in D : v[x] <= v[y]
<1> DEFINE Below(x) == {y \in D : v[y] < v[x]}
           Sizes == {Cardinality(Below(x)) : x \in D}
<1>1. \A x \in D : IsFiniteSet(Below(x)) /\ Cardinality(Below(x)) \in Nat
  <2> TAKE x \in D
  <2>1. Below(x) \in SUBSET D
    OBVIOUS
  <2> HIDE DEF Below
  <2> QED BY <2>1, FS_Subset, FS_CardinalityType
<1>2. Sizes \subseteq Nat /\ Sizes # {}
  <2> HIDE DEF Below
  <2> QED BY <1>1
<1>3. PICK m \in Sizes : \A n \in Sizes : m <= n
  BY <1>2, LeastOfSet
<1>4. PICK x \in D : m = Cardinality(Below(x))
  OBVIOUS
<1>5. \A y \in D : v[x] <= v[y]
  <2> SUFFICES ASSUME NEW y \in D, v[y] < v[x] PROVE FALSE
    OBVIOUS
  <2>1. Below(y) \in SUBSET Below(x) /\ y \in Below(x) /\ y \notin Below(y)
    OBVIOUS
  <2>2. Cardinality(Below(y)) \in Sizes
    OBVIOUS
  <2> HIDE DEF Below
  <2>3. Cardinality(Below(y)) <= Cardinality(Below(x)) /\ Cardinality(Below(x)) # Cardinality(Below(y))
    BY <2>1, <1>1, FS_Subset
  <2>4. m <= Cardinality(Below(y))
    BY <2>2, <1>3
  <2> QED BY <2>3, <2>4, <1>1, <1>4
<1> QED BY <1>5

LEMMA LargestImage ==
  ASSUME NEW D, IsFiniteSet(D), D # {}, NEW v, \A x \in D : v[x] \in Int
  PROVE  \E x \in D : Max({v[y] : y \in D}) = v[x]
<1> DEFINE w == [x \in D |-> - v[x]]
           T == {v[y] : y \in D}
<1>1. \A x \in D : w[x] \in Int
  OBVIOUS
<1>2. PICK x \in D : \A y \in D : w[x] <= w[y]
  <2> HIDE DEF w
  <2> QED BY <1>1, SmallestValue
<1>3. \A y \in D : v[x] >= v[y]
  <2> TAKE y \in D
  <2>1. - v[x] <= - v[y] /\ v[x] \in Int /\ v[y] \in Int
    BY <1>2
  <2> QED BY <2>1
<1>4. v[x] \in T /\ \A z \in T : v[x] >= z
  BY <1>3
<1>5. Max(T) \in T
  <2> HIDE DEF T
  <2> QED BY <1>4 DEF Max
<1> QED BY <1>5

LEMMA ForemostIsThere ==
  ASSUME NEW value, DOMAIN value \subseteq Nat, IsFiniteSet(DOMAIN value), DOMAIN value # {},
         \A x \in DOMAIN value : value[x] \in Int
  PROVE  Foremost(value) \in DOMAIN value
<1> DEFINE D == DOMAIN value
<1>1. PICK x \in D : \A y \in D : value[x] <= value[y]
  BY SmallestValue
<1> DEFINE T == {y \in D : value[y] = value[x]}
<1>2. T \subseteq Nat /\ T # {}
  OBVIOUS
<1>3. PICK z \in T : \A y \in T : z <= y
  BY <1>2, LeastOfSet
<1>4. \A y \in D : value[z] < value[y] \/ (value[z] = value[y] /\ z <= y)
  <2> TAKE y \in D
  <2>1. value[z] = value[x] /\ value[x] <= value[y]
    BY <1>1
  <2>2. CASE value[y] = value[x]
    BY <2>1, <2>2, <1>3
  <2>3. CASE value[y] # value[x]
    BY <2>1, <2>3
  <2> QED BY <2>2, <2>3
<1> QED BY <1>4 DEF Foremost

\* f adds up the values of g over each subset of S that has at most n elements,
\* taking one element after the other.
Small(S, n) == {T \in SUBSET S : Cardinality(T) <= n}
OneOf(T) == CHOOSE x \in T : TRUE
Sums(f, g, S, n) ==
  f = [T \in Small(S, n) |-> IF T = {} THEN 0 ELSE g[OneOf(T)] + f[T \ {OneOf(T)}]]

LEMMA OneFewer ==
  ASSUME NEW S, IsFiniteSet(S), NEW n \in Nat, NEW T \in Small(S, n), T # {}
  PROVE  /\ OneOf(T) \in T /\ n # 0
         /\ T \ {OneOf(T)} \in Small(S, n - 1)
         /\ Cardinality(T \ {OneOf(T)}) \in Nat /\ Cardinality(T) \in Nat
         /\ Cardinality(T \ {OneOf(T)}) < Cardinality(T)
<1>1. OneOf(T) \in T
  BY DEF OneOf
<1>2. T \in SUBSET S /\ Cardinality(T) <= n
  BY DEF Small
<1>3. IsFiniteSet(T) /\ Cardinality(T) \in Nat
  BY <1>2, FS_Subset, FS_CardinalityType
<1>4. Cardinality(T \ {OneOf(T)}) = Cardinality(T) - 1
  BY <1>1, <1>3, FS_RemoveElement
<1>5. Cardinality(T) # 0
  BY <1>3, FS_EmptySet
<1> QED BY <1>1, <1>2, <1>3, <1>4, <1>5 DEF Small

LEMMA SumsExist ==
  ASSUME NEW S, IsFiniteSet(S), NEW g, NEW n \in Nat
  PROVE  \E f : Sums(f, g, S, n)
<1> DEFINE Bad == {m \in Nat : ~\E f : Sums(f, g, S, m)}
<1>1. SUFFICES ASSUME Bad # {} PROVE FALSE
  OBVIOUS
<1>2. PICK m \in Bad : \A k \in Bad : m <= k
  BY <1>1, LeastOfSet
<1>3. m \in Nat /\ ~\E f : Sums(f, g, S, m)
  OBVIOUS
<1>4. CASE m = 0
  <2> DEFINE f == [T \in Small(S, 0) |-> 0]
  <2>1. \A T \in Small(S, 0) : T = {}
    BY OneFewer
  <2>2. f = [T \in Small(S, 0) |-> IF T = {} THEN 0 ELSE g[OneOf(T)] + f[T \ {OneOf(T)}]]
    BY <2>1
  <2>3. Sums(f, g, S, 0)
    BY <2>2 DEF Sums
  <2> QED BY <2>3, <1>3, <1>4
<1>5. CASE m # 0
  <2>1. m - 1 \in Nat /\ m - 1 \notin Bad
    BY <1>2, <1>3, <1>5
  <2>2. PICK f : Sums(f, g, S, m - 1)
    BY <2>1
  <2> DEFINE Step(T) == IF T = {} THEN 0 ELSE g[OneOf(T)] + f[T \ {OneOf(T)}]
             h == [T \in Small(S, m) |-> Step(T)]
             e == [T \in Small(S, m) |-> IF T = {} THEN 0 ELSE g[OneOf(T)] + h[T \ {OneOf(T)}]]
  <2>3. \A T \in Small(S, m - 1) : T \in Small(S, m) /\ f[T] = Step(T)
    <3> TAKE T \in Small(S, m - 1)
    <3>1. f[T] = Step(T)
      BY <2>2 DEF Sums
    <3>2. T \in SUBSET S /\ Cardinality(T) <= m - 1
      BY DEF Small
    <3>3. Cardinality(T) \in Nat
      BY <3>2, FS_Subset, FS_CardinalityType
    <3> QED BY <3>1, <3>2, <3>3, <1>3 DEF Small
  <2>4. \A T \in Small(S, m) : h[T] = e[T]
    <3> TAKE T \in Small(S, m)
    <3>1. CASE T = {}
      BY <3>1
    <3>2. CASE T # {}
      <4>1. T \ {OneOf(T)} \in Small(S, m - 1)
        BY <3>2, <1>3, OneFewer
      <4> DEFINE U == T \ {OneOf(T)}
      <4>2. U \in Small(S, m) /\ f[U] = Step(U)
        BY <4>1, <2>3
      <4>3. h[U] = f[U]
        BY <4>2
      <4>4. h[T] = g[OneOf(T)] + f[U]
        BY <3>2
      <4>5. e[T] = g[OneOf(T)] + h[U]
        BY <3>2
      <4> QED BY <4>3, <4>4, <4>5
    <3> QED BY <3>1, <3>2
  <2>5. h = e
    BY <2>4
  <2>6. Sums(h, g, S, m)
    BY <2>5 DEF Sums
  <2> QED BY <2>6, <1>3
<1> QED BY <1>4, <1>5

LEMMA SumsAreNatural ==
  ASSUME NEW S, IsFiniteSet(S), NEW g, \A x \in S : g[x] \in Nat, NEW n \in Nat,
         NEW f, Sums(f, g, S, n), NEW U \in Small(S, n)
  PROVE  f[U] \in Nat
<1> DEFINE Bad == {m \in Nat : \E T \in Small(S, n) : Cardinality(T) = m /\ f[T] \notin Nat}
<1>1. \A T \in Small(S, n) : Cardinality(T) \in Nat
  BY FS_Subset, FS_CardinalityType DEF Small
<1>2. SUFFICES ASSUME Bad # {} PROVE FALSE
  BY <1>1
<1>3. PICK m \in Bad : \A k \in Bad : m <= k
  BY <1>2, LeastOfSet
<1>4. PICK T \in Small(S, n) : Cardinality(T) = m /\ f[T] \notin Nat
  OBVIOUS
<1>5. f[T] = IF T = {} THEN 0 ELSE g[OneOf(T)] + f[T \ {OneOf(T)}]
  BY DEF Sums
<1>6. T # {}
  BY <1>4, <1>5
<1> DEFINE V == T \ {OneOf(T)}
<1>7. V \in Small(S, n - 1) /\ Cardinality(V) \in Nat /\ Cardinality(V) < m /\ OneOf(T) \in S
  BY <1>4, <1>6, OneFewer DEF Small
<1>8. V \in Small(S, n)
  BY <1>7 DEF Small
<1>9. f[V] \in Nat
  <2>1. Cardinality(V) \notin Bad
    <3>1. m \in Nat
      OBVIOUS
    <3> HIDE DEF Bad, V
    <3> QED BY <1>3, <1>7, <3>1
  <2> QED BY <2>1, <1>7, <1>8
<1>10. g[OneOf(T)] \in Nat
  BY <1>7
<1> QED BY <1>4, <1>5, <1>6, <1>9, <1>10

\* A sum of natural numbers is one.
LEMMA SumIsNatural ==
  ASSUME NEW S, IsFiniteSet(S), NEW g, \A x \in S : g[x] \in Nat
  PROVE  SumFunctionOnSet(g, S) \in Nat
<1> DEFINE iter == CHOOSE iter : iter = [s \in SUBSET S |->
                     IF s = {} THEN 0 ELSE g[CHOOSE x \in s : TRUE] + iter[s \ {CHOOSE x \in s : TRUE}]]
           n == Cardinality(S)
<1>1. SumFunctionOnSet(g, S) = iter[S]
  BY DEF SumFunctionOnSet, FoldFunctionOnSet, MapThenFoldSet
<1>2. n \in Nat /\ Small(S, n) = SUBSET S
  BY FS_CardinalityType, FS_Subset DEF Small
<1>3. \E f : Sums(f, g, S, n)
  BY <1>2, SumsExist
<1>4. Sums(iter, g, S, n)
  <2>1. \E f : f = [s \in SUBSET S |->
                 IF s = {} THEN 0 ELSE g[CHOOSE x \in s : TRUE] + f[s \ {CHOOSE x \in s : TRUE}]]
    BY <1>2, <1>3 DEF Sums, OneOf
  <2> QED BY <2>1, <1>2 DEF Sums, OneOf
<1> HIDE DEF iter
<1>5. S \in Small(S, n)
  BY <1>2
<1> QED BY <1>1, <1>2, <1>4, <1>5, SumsAreNatural

LEMMA TotalIsNatural ==
  ASSUME NEW d \in Devices, NEW S \in SUBSET Devices
  PROVE  TotalCost(d, S) \in Nat
<1> DEFINE g == [e \in Devices |-> LinkCost(d, e)]
<1>1. \A e \in S : g[e] \in Nat
  BY SearchAssumption
<1>2. IsFiniteSet(S)
  BY DevicesCounted, FS_Subset
<1> HIDE DEF g
<1>3. SumFunctionOnSet(g, S) \in Nat
  BY <1>1, <1>2, SumIsNatural
<1> QED BY <1>3 DEF TotalCost, g

LEMMA SyncIsNatural ==
  ASSUME NEW s
  PROVE  SyncCost(s) \in Nat
<1> DEFINE v == [d \in Devices |-> TotalCost(d, MembersOf(s, s[d]) \ {d})]
<1>1. \A d \in Devices : v[d] \in Nat /\ v[d] \in Int
  <2> TAKE d \in Devices
  <2>1. MembersOf(s, s[d]) \ {d} \in SUBSET Devices
    BY DEF MembersOf
  <2>2. TotalCost(d, MembersOf(s, s[d]) \ {d}) \in Nat
    BY <2>1, TotalIsNatural
  <2> QED BY <2>2
<1>2. SyncCost(s) = Max({v[d] : d \in Devices})
  <2>1. {v[d] : d \in Devices} = {TotalCost(d, MembersOf(s, s[d]) \ {d}) : d \in Devices}
    OBVIOUS
  <2> QED BY <2>1 DEF SyncCost
<1>3. IsFiniteSet(Devices) /\ Devices # {}
  <2>1. Cardinality(Devices) # 0
    BY DevicesCounted, SMT
  <2> QED BY <2>1, DevicesCounted, FS_EmptySet
<1> HIDE DEF v
<1> QED BY <1>1, <1>2, <1>3, LargestImage

LEMMA CrossIsNatural ==
  ASSUME NEW s \in Assignments, IsBalanced(s), NEW p \in Parts, NEW q \in Parts
  PROVE  CrossCost(s, p, q) \in Nat
<1> DEFINE A == MembersOf(s, p)
           B == MembersOf(s, q)
           Slowest(f) == Max({LinkCost(d, f[d]) : d \in A})
           T == {Slowest(f) : f \in Bijection(A, B)}
<1>1. IsFiniteSet(A) /\ IsFiniteSet(B) /\ Cardinality(A) = PartitionSize /\ Cardinality(B) = PartitionSize
      /\ A \subseteq Devices /\ B \subseteq Devices
  BY SizeIsNatural DEF IsBalanced
<1>2. Bijection(A, B) # {}
  <2> HIDE DEF A, B
  <2>1. ExistsBijection(A, B)
    BY <1>1, FS_SameCardinalityBij
  <2> QED BY <2>1 DEF ExistsBijection
<1>3. A # {}
  <2>1. PartitionSize # 0
    BY DevicesCounted
  <2> QED BY <1>1, <2>1, FS_EmptySet
<1> HIDE DEF A, B
<1>4. \A f \in Bijection(A, B) : Slowest(f) \in Nat
  <2> TAKE f \in Bijection(A, B)
  <2> DEFINE v == [d \in A |-> LinkCost(d, f[d])]
  <2>1. f \in [A -> B]
    BY DEF Bijection, Injection
  <2>2. \A d \in A : v[d] \in Nat /\ v[d] \in Int
    BY <1>1, <2>1, SearchAssumption
  <2>3. Slowest(f) = Max({v[d] : d \in A})
    <3>1. {v[d] : d \in A} = {LinkCost(d, f[d]) : d \in A}
      OBVIOUS
    <3> QED BY <3>1
  <2> HIDE DEF v, Slowest
  <2> QED BY <1>1, <1>3, <2>2, <2>3, LargestImage
<1> HIDE DEF Slowest
<1>5. T \subseteq Nat /\ T # {}
  BY <1>2, <1>4
<1>6. CrossCost(s, p, q) = Min(T)
  BY DEF CrossCost, Slowest, A, B
<1> HIDE DEF T
<1> QED BY <1>5, <1>6, LeastIsThere

LEMMA RouteIsNatural ==
  ASSUME NEW s \in Assignments, IsBalanced(s), NEW route \in Routes
  PROVE  RouteCost(s, route) \in Nat
<1> DEFINE g == [i \in 1 .. Way - 1 |-> CrossCost(s, route[i], route[i + 1])]
<1>1. route \in [1 .. Way -> Parts] /\ Way \in Nat
  BY DevicesCounted DEF Routes, Bijection, Injection
<1>2. \A i \in 1 .. Way - 1 : g[i] \in Nat
  <2> TAKE i \in 1 .. Way - 1
  <2>1. i \in 1 .. Way /\ i + 1 \in 1 .. Way
    BY <1>1
  <2>2. CrossCost(s, route[i], route[i + 1]) \in Nat
    BY <2>1, <1>1, CrossIsNatural
  <2> QED BY <2>2
<1>3. DOMAIN g = 1 .. Way - 1 /\ IsFiniteSet(1 .. Way - 1)
  BY <1>1, FS_Interval
<1>4. RouteCost(s, route) = SumFunctionOnSet(g, DOMAIN g)
  BY DEF RouteCost, SumFunction
<1> HIDE DEF g
<1> QED BY <1>2, <1>3, <1>4, SumIsNatural

\* There is a route through all partitions.
LEMMA SomeRoute == Routes # {}
<1> DEFINE f == [k \in 1 .. Way |-> k - 1]
<1>1. Way \in Nat
  BY DevicesCounted
<1>2. f \in [1 .. Way -> Parts]
  BY <1>1 DEF Parts
<1>3. IsInjective(f)
  BY <1>1 DEF IsInjective
<1>4. \A p \in Parts : \E k \in 1 .. Way : f[k] = p
  <2> TAKE p \in Parts
  <2>1. p + 1 \in 1 .. Way /\ f[p + 1] = p
    BY <1>1 DEF Parts
  <2> QED BY <2>1
<1>5. f \in Routes
  BY <1>2, <1>3, <1>4 DEF Routes, Bijection, Injection, Surjection
<1> QED BY <1>5

LEMMA ScoreIsNatural ==
  ASSUME NEW s \in Assignments, IsBalanced(s)
  PROVE  Score(s) \in Nat
<1> DEFINE T == {RouteCost(s, route) : route \in Routes}
<1>1. T \subseteq Nat /\ T # {}
  BY RouteIsNatural, SomeRoute
<1> HIDE DEF T
<1>2. Min(T) \in Nat
  BY <1>1, LeastIsThere
<1>3. Score(s) = 2 * SyncCost(s) + 2 * Min(T)
  BY DEF Score, T
<1> QED BY <1>2, <1>3, SyncIsNatural

------------------------------------------------------------------------------
(* Lemmas about the choice of a move.                                        *)

\* The device that would move is one of the partition, where it has company.
LEMMA MoverIsMovable ==
  ASSUME child \in Assignments, NEW p \in Parts, Movable(p) # {}, Cardinality(MembersOf(child, p)) > 1
  PROVE  Mover(p) \in Movable(p) /\ Near(Mover(p)) \in Nat
<1> DEFINE value == [d \in Movable(p) |-> Near(d)]
<1>1. Movable(p) \subseteq MembersOf(child, p) /\ Movable(p) \subseteq Devices
  BY DEF Movable, MembersOf
<1>2. ASSUME NEW d \in Movable(p) PROVE Near(d) \in Nat
  <2> DEFINE T == {LinkCost(d, e) : e \in MembersOf(child, child[d]) \ {d}}
             M == MembersOf(child, p)
  <2>1. d \in Devices /\ child[d] = p
    BY <1>1 DEF MembersOf
  <2>2. M \subseteq Devices /\ IsFiniteSet(M)
    BY SizeIsNatural
  <2>3. M # {d}
    BY FS_Singleton
  <2>4. M \ {d} # {}
    BY <1>1, <2>3
  <2>5. T \subseteq Nat /\ T # {}
    BY <2>1, <2>2, <2>4, SearchAssumption
  <2>6. Near(d) = Min(T)
    BY DEF Near
  <2> HIDE DEF T
  <2> QED BY <2>5, <2>6, LeastIsThere
<1>3. DOMAIN value = Movable(p) /\ \A d \in Movable(p) : value[d] \in Int
  BY <1>2
<1>4. Movable(p) \subseteq Nat /\ IsFiniteSet(Movable(p))
  BY <1>1, DevicesCounted, FS_Subset
<1>5. Mover(p) = Foremost(value)
  BY DEF Mover
<1> HIDE DEF value
<1>6. Mover(p) \in Movable(p)
  BY <1>3, <1>4, <1>5, ForemostIsThere
<1> QED BY <1>6, <1>2

LEMMA GainIsInteger ==
  ASSUME child \in Assignments, NEW d \in Devices, Near(d) \in Nat,
         NEW q \in Parts, Cardinality(MembersOf(child, q)) > 0
  PROVE  Gain(d, q) \in Int
<1> DEFINE a == TotalCost(d, MembersOf(child, q))
           b == Scale \div Cardinality(MembersOf(child, q))
<1>1. a \in Nat
  BY SizeIsNatural, TotalIsNatural
<1>2. Scale \in Int
  BY DevicesCounted DEF Scale
<1>3. Cardinality(MembersOf(child, q)) \in Nat
  BY SizeIsNatural
<1>4. b \in Int
  BY <1>2, <1>3
<1>5. Gain(d, q) = b * a - Scale * Near(d)
  BY DEF Gain
<1> HIDE DEF a, b
<1> QED BY <1>1, <1>2, <1>4, <1>5

\* A partition has somewhere else to move to.
LEMMA OthersExist ==
  ASSUME NEW p \in Parts
  PROVE  Parts \ {p} # {} /\ IsFiniteSet(Parts \ {p}) /\ Parts \ {p} \subseteq Nat
<1>1. 0 \in Parts /\ 1 \in Parts
  BY DevicesCounted DEF Parts
<1>2. Parts \ {p} \in SUBSET Parts
  OBVIOUS
<1> QED BY <1>1, <1>2, DevicesCounted, FS_Subset

LEMMA DestinationIsElsewhere ==
  ASSUME child \in Assignments, NEW p \in Parts, Mover(p) \in Devices, Near(Mover(p)) \in Nat,
         \A q \in Parts : Cardinality(MembersOf(child, q)) > 0
  PROVE  Destination(p) \in Parts \ {p} /\ Loss(p) \in Int
<1> DEFINE gain == [q \in Parts \ {p} |-> Gain(Mover(p), q)]
           value == [q \in Parts \ {p} |-> - Gain(Mover(p), q)]
<1>1. \A q \in Parts \ {p} : Gain(Mover(p), q) \in Int
  BY GainIsInteger
<1>2. \A q \in Parts \ {p} : value[q] \in Int /\ gain[q] \in Int
  BY <1>1
<1>3. DOMAIN value = Parts \ {p}
  OBVIOUS
<1>4. Destination(p) = Foremost(value)
  BY DEF Destination
<1>5. Loss(p) = - Max({gain[q] : q \in Parts \ {p}})
  <2>1. {gain[q] : q \in Parts \ {p}} = {Gain(Mover(p), q) : q \in Parts \ {p}}
    OBVIOUS
  <2> QED BY <2>1 DEF Loss
<1> HIDE DEF value, gain
<1>6. Destination(p) \in Parts \ {p}
  BY <1>2, <1>3, <1>4, OthersExist, ForemostIsThere
<1>7. PICK q \in Parts \ {p} : Max({gain[r] : r \in Parts \ {p}}) = gain[q]
  BY <1>2, OthersExist, LargestImage
<1> QED BY <1>2, <1>5, <1>6, <1>7

------------------------------------------------------------------------------
(* The inductive invariant of the search.                                    *)

Balanced == {s \in Assignments : IsBalanced(s)}
Moves == [device : Devices, from : Parts]

SearchTypes ==
  /\ population \in [1 .. PopulationSize -> Balanced] /\ others \in Seq(Balanced)
  /\ parents \in (1 .. PopulationSize) \X (1 .. PopulationSize)
  /\ kept \in Balanced /\ child \in Assignments
  /\ start \in Parts /\ here \in Parts /\ movements \in Seq(Moves)
  /\ lockedDevices \in SUBSET Devices /\ lockedPartitions \in SUBSET Parts
  /\ searching \in {"breeding", "cycles", "moving", "scoring", "placed"}

\* While devices move, the start lacks one and another partition has it.
SizesInCycle ==
  \A p \in Parts :
    Cardinality(MembersOf(child, p)) = PartitionSize + (IF p = here THEN 1 ELSE 0) - (IF p = start THEN 1 ELSE 0)

\* Wherever a cycle is cut and closed, the partitions are balanced again, and
\* what is taken back goes to the start or to a partition moved to before.
ClosesBalanced ==
  \A l \in 1 .. Len(movements) :
    IsBalanced(Closed(child, l)) /\ movements[l].from \in lockedPartitions \cup {start}

\* The last device that moved is where the cycle is; and until the cycle is back
\* at the start every move is of another device.
LastMove ==
  /\ movements = <<>> => here = start /\ Movable(start) # {}
  /\ movements # <<>> => here \in lockedPartitions /\ child[movements[Len(movements)].device] = here
  /\ here # start => Len(movements) <= Cardinality(lockedDevices)

InCycle == searching = "moving" => SizesInCycle /\ ClosesBalanced /\ LastMove
BetweenCycles == searching # "moving" => IsBalanced(child)

\* No device that moved is in a partition that none moved to.
UntouchedPartitions ==
  searching \in {"cycles", "moving"} =>
    \A p \in Parts \ lockedPartitions : MembersOf(child, p) \cap lockedDevices = {}

MinimaFall ==
  /\ minScores \in Seq(Nat) /\ trail \in Nat
  /\ Len(others) = trail /\ Len(minScores) = PopulationSize + trail
  /\ \A i \in 1 .. Len(minScores) - 1 : minScores[i + 1] <= minScores[i]
  /\ \E s \in Candidates : Score(s) <= minScores[Len(minScores)]

RanksFit ==
  /\ {ranks[d] : d \in Devices} = Devices
  /\ \A d, e \in Devices : (ranks[d] % Way = ranks[e] % Way) = (child[d] = child[e])

SearchInv ==
  /\ SearchTypes
  /\ InCycle
  /\ BetweenCycles
  /\ UntouchedPartitions
  /\ MinimaFall
  /\ searching = "placed" => RanksFit

------------------------------------------------------------------------------
(* The steps of a cycle.                                                     *)

\* In a cycle no partition is empty, and the current one has several devices.
LEMMA CycleSizes ==
  ASSUME SearchTypes, SizesInCycle
  PROVE  /\ \A p \in Parts : Cardinality(MembersOf(child, p)) > 0
         /\ Cardinality(MembersOf(child, here)) > 1
<1>1. PartitionSize \in Nat /\ PartitionSize > 1
  BY DevicesCounted
<1>2. here \in Parts
  BY DEF SearchTypes
<1> QED BY <1>1, <1>2 DEF SizesInCycle

\* A move takes a device of the current partition elsewhere; one that does not
\* end the cycle takes a device that has not moved.
LEMMA NextMoveIsSound ==
  ASSUME SearchInv, searching = "moving", ~CycleOver
  PROVE  /\ NextMove[1] \in Devices /\ NextMove[2] \in Parts
         /\ child[NextMove[1]] = here /\ NextMove[2] # here
         /\ NextMove[2] # start => NextMove[1] \notin lockedDevices
<1>1. SearchTypes /\ SizesInCycle /\ LastMove
  BY DEF SearchInv, InCycle
<1>2. CASE Movable(here) # {}
  <2>1. NextMove = <<Mover(here), Destination(here)>>
    BY <1>2 DEF NextMove
  <2>2. here \in Parts /\ child \in Assignments
    BY <1>1 DEF SearchTypes
  <2>3. Mover(here) \in Movable(here) /\ Near(Mover(here)) \in Nat
    BY <1>1, <1>2, <2>2, CycleSizes, MoverIsMovable
  <2>4. Mover(here) \in Devices /\ child[Mover(here)] = here /\ Mover(here) \notin lockedDevices
    BY <2>3 DEF Movable, MembersOf
  <2>5. Destination(here) \in Parts \ {here}
    BY <1>1, <2>2, <2>3, <2>4, CycleSizes, DestinationIsElsewhere
  <2> QED BY <2>1, <2>4, <2>5
<1>3. CASE Movable(here) = {}
  <2>1. movements # <<>>
    BY <1>1, <1>3 DEF LastMove
  <2>2. here # start
    BY <2>1 DEF CycleOver
  <2> DEFINE last == movements[Len(movements)]
  <2>3. NextMove = <<last.device, start>>
    BY <1>3 DEF NextMove
  <2>4. movements \in Seq(Moves) /\ start \in Parts
    BY <1>1 DEF SearchTypes
  <2>5. last \in Moves
    BY <2>1, <2>4
  <2>6. last.device \in Devices
    BY <2>5 DEF Moves
  <2>7. child[last.device] = here
    BY <1>1, <2>1 DEF LastMove
  <2> QED BY <2>2, <2>3, <2>4, <2>6, <2>7
<1> QED BY <1>2, <1>3

LEMMA MoveTypes ==
  ASSUME SearchInv, Move
  PROVE  /\ SearchTypes'
         /\ SizesInCycle'
         /\ here' # here /\ child[NextMove[1]] = here
<1>1. SearchTypes /\ SizesInCycle /\ searching = "moving" /\ ~CycleOver
  BY DEF SearchInv, InCycle, Move
<1> DEFINE d == NextMove[1]
           q == NextMove[2]
<1>2. d \in Devices /\ q \in Parts /\ child[d] = here /\ q # here
  BY <1>1, NextMoveIsSound
<1>3. /\ child' = [child EXCEPT ![d] = q] /\ here' = q /\ start' = start
      /\ lockedDevices' = lockedDevices \cup {d} /\ lockedPartitions' = lockedPartitions \cup {q}
      /\ movements' = Append(movements, [device |-> d, from |-> here])
      /\ UNCHANGED <<population, others, parents, kept, searching>>
  BY DEF Move
<1> HIDE DEF d, q
<1>4. child \in Assignments /\ here \in Parts /\ movements \in Seq(Moves) /\ start \in Parts
  BY <1>1 DEF SearchTypes
<1>5. child' \in Assignments
  BY <1>2, <1>3, <1>4, SizeAfterMove
<1>6. movements' \in Seq(Moves)
  <2>1. [device |-> d, from |-> here] \in Moves
    BY <1>2, <1>4 DEF Moves
  <2> QED BY <1>3, <1>4, <2>1
<1>7. SearchTypes'
  BY <1>1, <1>2, <1>3, <1>5, <1>6 DEF SearchTypes
<1>8. SizesInCycle'
  <2> SUFFICES ASSUME NEW p \in Parts
               PROVE  Cardinality(MembersOf(child', p)) =
                        PartitionSize + (IF p = q THEN 1 ELSE 0) - (IF p = start THEN 1 ELSE 0)
    BY <1>3 DEF SizesInCycle
  <2> DEFINE n == Cardinality(MembersOf(child, p))
  <2>1. Cardinality(MembersOf(child', p)) = IF p = q THEN n + 1 ELSE IF p = here THEN n - 1 ELSE n
    <3>1. Cardinality(MembersOf([child EXCEPT ![d] = q], p)) =
            IF p = q THEN n + 1 ELSE IF p = child[d] THEN n - 1 ELSE n
      BY <1>2, <1>4, SizeAfterMove
    <3> QED BY <3>1, <1>2, <1>3
  <2>2. n = PartitionSize + (IF p = here THEN 1 ELSE 0) - (IF p = start THEN 1 ELSE 0)
    BY <1>1 DEF SizesInCycle
  <2>3. PartitionSize \in Nat
    BY DevicesCounted
  <2> HIDE DEF n
  <2> QED BY <2>1, <2>2, <2>3, <1>2
<1> QED BY <1>2, <1>3, <1>7, <1>8 DEF d

\* A cycle may also be closed where the new move ends it.
LEMMA MoveCloses ==
  ASSUME SearchInv, Move
  PROVE  ClosesBalanced'
<1>1. SearchTypes /\ SizesInCycle /\ ClosesBalanced /\ searching = "moving" /\ ~CycleOver
  BY DEF SearchInv, InCycle, Move
<1> DEFINE d == NextMove[1]
           q == NextMove[2]
           n == Len(movements)
<1>2. d \in Devices /\ q \in Parts /\ child[d] = here /\ q # here
  BY <1>1, NextMoveIsSound
<1>3. /\ child' = [child EXCEPT ![d] = q] /\ start' = start
      /\ lockedPartitions' = lockedPartitions \cup {q}
      /\ movements' = Append(movements, [device |-> d, from |-> here])
  BY DEF Move
<1>4. child \in Assignments /\ here \in Parts /\ movements \in Seq(Moves) /\ start \in Parts
  BY <1>1 DEF SearchTypes
<1> HIDE DEF d, q
<1>5. /\ n \in Nat /\ Len(movements') = n + 1
      /\ \A k \in 1 .. n : movements'[k] = movements[k]
      /\ movements'[n + 1] = [device |-> d, from |-> here]
  BY <1>3, <1>4
<1>6. here \in lockedPartitions \cup {start}
  BY DEF SearchInv, InCycle, LastMove, Move
<1> SUFFICES ASSUME NEW l \in 1 .. n + 1
             PROVE  IsBalanced(Closed(child, l)') /\ movements'[l].from \in lockedPartitions' \cup {start'}
  BY <1>5 DEF ClosesBalanced, Closed, TakenBack, IsBalanced, MembersOf
<1>7. CASE l = n + 1
  <2>1. TakenBack(child, l)' = child'
    <3>1. \A e \in Devices : {k \in l + 1 .. Len(movements') : movements'[k].device = e} = {}
      BY <1>5, <1>7
    <3>2. child' = [e \in Devices |-> child'[e]]
      BY <1>2, <1>3, <1>4, SizeAfterMove DEF Assignments
    <3> QED BY <3>1, <3>2 DEF TakenBack
  <2>2. Closed(child, l)' = [child' EXCEPT ![d] = start]
    <3>1. movements'[l].device = d
      BY <1>5, <1>7
    <3>2. Closed(child, l)' = [TakenBack(child, l)' EXCEPT ![movements'[l].device] = start']
      BY DEF Closed
    <3> QED BY <3>1, <3>2, <2>1, <1>3
  <2>3. [child' EXCEPT ![d] = start] = [child EXCEPT ![d] = start]
    BY <1>3, <1>4, <1>2 DEF Assignments
  <2>4. IsBalanced([child EXCEPT ![d] = start])
    <3> SUFFICES ASSUME NEW p \in Parts
                 PROVE  Cardinality(MembersOf([child EXCEPT ![d] = start], p)) = PartitionSize
      BY DEF IsBalanced
    <3> DEFINE m == Cardinality(MembersOf(child, p))
    <3>1. m = PartitionSize + (IF p = here THEN 1 ELSE 0) - (IF p = start THEN 1 ELSE 0)
      BY <1>1 DEF SizesInCycle
    <3>2. PartitionSize \in Nat
      BY DevicesCounted
    <3>3. CASE here = start
      <4>1. [child EXCEPT ![d] = start] = child
        BY <3>3, <1>2, <1>4, SizeAfterMove
      <4> QED BY <4>1, <3>1, <3>2, <3>3
    <3>4. CASE here # start
      <4>1. Cardinality(MembersOf([child EXCEPT ![d] = start], p)) =
              IF p = start THEN m + 1 ELSE IF p = here THEN m - 1 ELSE m
        BY <3>4, <1>2, <1>4, SizeAfterMove
      <4> HIDE DEF m
      <4> QED BY <4>1, <3>1, <3>2, <3>4
    <3> QED BY <3>3, <3>4
  <2>5. movements'[l].from \in lockedPartitions' \cup {start'}
    BY <1>5, <1>7, <1>6, <1>3
  <2> QED BY <2>2, <2>3, <2>4, <2>5
<1>8. CASE l # n + 1
  <2>1. l \in 1 .. n
    BY <1>8, <1>5
  <2> DEFINE after(e) == {k \in l + 1 .. n : movements[k].device = e}
             next(e) == {k \in l + 1 .. n + 1 : movements'[k].device = e}
  <2>2. ASSUME NEW e \in Devices
        PROVE  (IF next(e) = {} THEN child'[e] ELSE movements'[Min(next(e))].from)
               = (IF after(e) = {} THEN child[e] ELSE movements[Min(after(e))].from)
    <3>1. after(e) \subseteq Nat /\ after(e) \subseteq l + 1 .. n
      BY <2>1
    <3>2. CASE e # d
      <4>1. next(e) = after(e)
        BY <3>2, <1>5, <2>1
      <4>2. child'[e] = child[e]
        BY <3>2, <1>2, <1>3, <1>4 DEF Assignments
      <4>3. after(e) # {} => Min(after(e)) \in after(e)
        BY <3>1, LeastIsThere
      <4>4. after(e) # {} => movements'[Min(after(e))] = movements[Min(after(e))]
        <5>1. \A k \in l + 1 .. n : k \in 1 .. n
          BY <2>1, <1>5
        <5> HIDE DEF after
        <5> QED BY <4>3, <3>1, <5>1, <1>5
      <4> QED BY <4>1, <4>2, <4>4
    <3>3. CASE e = d
      <4>1. next(e) = after(e) \cup {n + 1}
        BY <3>3, <1>5, <2>1
      <4>2. next(e) # {} /\ next(e) \subseteq Nat
        BY <4>1, <3>1, <1>5
      <4>3. Min(next(e)) \in next(e) /\ \A k \in next(e) : Min(next(e)) <= k
        BY <4>2, LeastIsThere
      <4>4. CASE after(e) = {}
        <5>1. next(e) = {n + 1}
          BY <4>1, <4>4
        <5>2. Min(next(e)) = n + 1
          BY <4>3, <5>1
        <5>3. movements'[Min(next(e))].from = here
          <6> HIDE DEF next
          <6> QED BY <5>2, <1>5
        <5> QED BY <4>2, <4>4, <5>3, <3>3, <1>2
      <4>5. CASE after(e) # {}
        <5>1. Min(after(e)) \in after(e) /\ Min(after(e)) \in Nat /\ \A k \in after(e) : Min(after(e)) <= k
          BY <3>1, <4>5, LeastIsThere
        <5> DEFINE a == Min(after(e))
                   b == Min(next(e))
        <5>2. a \in l + 1 .. n
          BY <5>1
        <5>3. b <= a
          BY <4>1, <4>3, <5>1
        <5>4. b \in after(e)
          <6>1. b # n + 1
            <7> HIDE DEF a, b, after, next
            <7> QED BY <5>2, <5>3, <1>5, <2>1
          <6> HIDE DEF after, next
          <6> QED BY <6>1, <4>3, <4>1
        <5>5. a <= b /\ b \in Nat
          BY <5>4, <5>1, <3>1
        <5>6. a = b
          <6> HIDE DEF a, b
          <6> QED BY <5>1, <5>3, <5>5 DEF a
        <5>7. a \in 1 .. n
          <6> HIDE DEF a
          <6> QED BY <5>2, <2>1, <1>5
        <5>8. movements'[a] = movements[a]
          BY <5>7, <1>5
        <5> QED BY <4>2, <4>5, <5>6, <5>8
      <4> QED BY <4>4, <4>5
    <3> QED BY <3>2, <3>3
  <2>3. TakenBack(child, l)' = [e \in Devices |-> IF next(e) = {} THEN child'[e] ELSE movements'[Min(next(e))].from]
    BY <1>5 DEF TakenBack
  <2>4. TakenBack(child, l) = [e \in Devices |-> IF after(e) = {} THEN child[e] ELSE movements[Min(after(e))].from]
    BY DEF TakenBack
  <2> HIDE DEF after, next
  <2>5. TakenBack(child, l)' = TakenBack(child, l)
    BY <2>2, <2>3, <2>4
  <2>6. Closed(child, l)' = Closed(child, l)
    BY <2>5, <2>1, <1>5, <1>3 DEF Closed
  <2>7. IsBalanced(Closed(child, l)) /\ movements[l].from \in lockedPartitions \cup {start}
    BY <2>1, <1>1 DEF ClosesBalanced
  <2> QED BY <2>1, <2>6, <2>7, <1>5, <1>3
<1> QED BY <1>7, <1>8

LEMMA MoveLeads ==
  ASSUME SearchInv, Move
  PROVE  LastMove' /\ UntouchedPartitions'
<1>1. SearchTypes /\ LastMove /\ searching = "moving" /\ ~CycleOver
  BY DEF SearchInv, InCycle, Move
<1> DEFINE d == NextMove[1]
           q == NextMove[2]
           n == Len(movements)
<1>2. d \in Devices /\ q \in Parts /\ child[d] = here /\ q # here /\ (q # start => d \notin lockedDevices)
  BY <1>1, NextMoveIsSound
<1>3. /\ child' = [child EXCEPT ![d] = q] /\ start' = start /\ here' = q /\ searching' = "moving"
      /\ lockedDevices' = lockedDevices \cup {d} /\ lockedPartitions' = lockedPartitions \cup {q}
      /\ movements' = Append(movements, [device |-> d, from |-> here])
  BY <1>1 DEF Move
<1>4. child \in Assignments /\ movements \in Seq(Moves) /\ lockedDevices \in SUBSET Devices
  BY <1>1 DEF SearchTypes
<1> HIDE DEF d, q
<1>5. n \in Nat /\ Len(movements') = n + 1 /\ movements'[n + 1] = [device |-> d, from |-> here] /\ movements' # <<>>
  BY <1>3, <1>4
<1>6. child'[d] = q
  BY <1>2, <1>3, <1>4 DEF Assignments
<1>7. q # start => n + 1 <= Cardinality(lockedDevices')
  <2> SUFFICES ASSUME q # start PROVE n + 1 <= Cardinality(lockedDevices')
    OBVIOUS
  <2>1. IsFiniteSet(lockedDevices) /\ Cardinality(lockedDevices) \in Nat
    BY <1>4, DevicesCounted, FS_Subset, FS_CardinalityType
  <2>2. Cardinality(lockedDevices') = Cardinality(lockedDevices) + 1
    BY <2>1, <1>2, <1>3, FS_AddElement
  <2>3. n <= Cardinality(lockedDevices)
    <3>1. CASE here # start
      BY <3>1, <1>1 DEF LastMove
    <3>2. CASE here = start
      <4>1. movements = <<>>
        BY <3>2, <1>1 DEF CycleOver
      <4> QED BY <4>1, <2>1
    <3> QED BY <3>1, <3>2
  <2> QED BY <2>1, <2>2, <2>3, <1>5
<1>8. LastMove'
  <2>1. movements'[Len(movements')].device = d
    BY <1>5
  <2> QED BY <2>1, <1>3, <1>5, <1>6, <1>7 DEF LastMove
<1>9. UntouchedPartitions'
  <2> SUFFICES ASSUME NEW p \in Parts \ lockedPartitions', NEW e \in MembersOf(child', p), e \in lockedDevices'
               PROVE  FALSE
    BY <1>3 DEF UntouchedPartitions, MembersOf
  <2>1. p # q /\ p \in Parts \ lockedPartitions
    BY <1>3
  <2>2. e \in Devices /\ child'[e] = p
    BY DEF MembersOf
  <2>3. e # d
    BY <2>1, <2>2, <1>6
  <2>4. child[e] = p /\ e \in lockedDevices
    BY <2>2, <2>3, <1>3, <1>4 DEF Assignments
  <2>5. e \in MembersOf(child, p)
    BY <2>2, <2>4 DEF MembersOf
  <2> QED BY <2>1, <2>4, <2>5, <1>1 DEF SearchInv, UntouchedPartitions
<1> QED BY <1>8, <1>9

\* What the steps of a cycle leave alone.
LEMMA CandidatesKept ==
  ASSUME MinimaFall, UNCHANGED <<population, others, minScores, trail>>
  PROVE  MinimaFall'
BY DEF MinimaFall, Candidates, Score, SyncCost, RouteCost, CrossCost

LEMMA MoveKeeps == SearchInv /\ Move => SearchInv'
<1> SUFFICES ASSUME SearchInv, Move PROVE SearchInv'
  OBVIOUS
<1>1. searching' = "moving" /\ UNCHANGED <<population, others, minScores, trail>>
  BY DEF Move
<1>2. MinimaFall'
  BY <1>1, CandidatesKept DEF SearchInv
<1> QED BY <1>1, <1>2, MoveTypes, MoveCloses, MoveLeads DEF SearchInv, InCycle, BetweenCycles

\* A cycle that must begin finds a device to move: the partitions that none moved
\* to hold several, none of which has moved.
LEMMA CyclesBegin ==
  ASSUME SearchInv, searching = "cycles", MoreCycles
  PROVE  \E p \in Parts : Movable(p) # {}
<1>1. lockedPartitions \in SUBSET Parts /\ lockedPartitions # Parts /\ IsBalanced(child)
  BY DEF SearchInv, SearchTypes, MoreCycles, BetweenCycles
<1>2. PICK p \in Parts : p \notin lockedPartitions
  BY <1>1
<1>3. MembersOf(child, p) \cap lockedDevices = {}
  BY <1>2 DEF SearchInv, UntouchedPartitions
<1>4. MembersOf(child, p) # {}
  <2>1. Cardinality(MembersOf(child, p)) = PartitionSize /\ PartitionSize # 0
    BY <1>1, DevicesCounted DEF IsBalanced
  <2> QED BY <2>1, FS_EmptySet
<1>5. Movable(p) # {}
  BY <1>3, <1>4 DEF Movable
<1> QED BY <1>5

LEMMA BeginCycleKeeps == SearchInv /\ BeginCycle => SearchInv'
<1> SUFFICES ASSUME SearchInv, BeginCycle PROVE SearchInv'
  OBVIOUS
<1> DEFINE able == {p \in Parts : Movable(p) # {}}
           value == [p \in able |-> Loss(p)]
<1>1. /\ searching = "cycles" /\ searching' = "moving" /\ able # {}
      /\ start' = Foremost(value) /\ here' = start' /\ movements' = <<>> /\ kept' \in {kept, child}
      /\ UNCHANGED <<population, others, minScores, parents, trail, child, lockedDevices, lockedPartitions>>
  BY DEF BeginCycle
<1>2. SearchTypes /\ IsBalanced(child) /\ MinimaFall
  BY <1>1 DEF SearchInv, BetweenCycles
<1>3. child \in Assignments
  BY <1>2 DEF SearchTypes
<1>4. \A p \in Parts : Cardinality(MembersOf(child, p)) = PartitionSize
  BY <1>2 DEF IsBalanced
<1>5. PartitionSize \in Nat /\ PartitionSize > 1
  BY DevicesCounted
<1>6. \A p \in able : value[p] \in Int
  <2> TAKE p \in able
  <2>1. Mover(p) \in Movable(p) /\ Near(Mover(p)) \in Nat
    BY <1>3, <1>4, <1>5, MoverIsMovable
  <2>2. Mover(p) \in Devices
    BY <2>1 DEF Movable, MembersOf
  <2>3. \A q \in Parts : Cardinality(MembersOf(child, q)) > 0
    BY <1>4, <1>5
  <2>4. Loss(p) \in Int
    BY <1>3, <2>1, <2>2, <2>3, DestinationIsElsewhere
  <2> QED BY <2>4
<1>7. DOMAIN value = able /\ able \in SUBSET Parts
  OBVIOUS
<1>8. able \subseteq Nat /\ IsFiniteSet(able)
  BY <1>7, DevicesCounted, FS_Subset
<1> HIDE DEF value
<1>9. start' \in able
  BY <1>1, <1>6, <1>7, <1>8, ForemostIsThere
<1>10. SearchTypes'
  <2>1. kept' \in Balanced
    BY <1>1, <1>2, <1>3 DEF SearchTypes, Balanced
  <2>2. start' \in Parts /\ here' \in Parts /\ movements' \in Seq(Moves)
    BY <1>1, <1>9
  <2> QED BY <2>1, <2>2, <1>1, <1>2 DEF SearchTypes
<1>11. SizesInCycle' /\ ClosesBalanced' /\ LastMove'
  <2>1. SizesInCycle'
    BY <1>1, <1>4, <1>5 DEF SizesInCycle, MembersOf
  <2>2. ClosesBalanced'
    BY <1>1 DEF ClosesBalanced
  <2>3. Movable(start)' # {}
    BY <1>1, <1>9 DEF Movable, MembersOf
  <2> QED BY <2>1, <2>2, <2>3, <1>1 DEF LastMove
<1>12. UntouchedPartitions'
  BY <1>1 DEF SearchInv, UntouchedPartitions, MembersOf
<1>13. MinimaFall'
  BY <1>1, <1>2, CandidatesKept
<1> QED BY <1>1, <1>10, <1>11, <1>12, <1>13 DEF SearchInv, InCycle, BetweenCycles

\* A cycle that ends has moved a device to its start: it is back there, or all
\* devices have moved, also those that were in the start.
LEMMA StartIsLocked ==
  ASSUME SearchInv, searching = "moving", CycleOver
  PROVE  start \in lockedPartitions
<1>1. SearchTypes /\ SizesInCycle /\ LastMove /\ movements # <<>>
  BY DEF SearchInv, InCycle, CycleOver
<1>2. CASE here = start
  BY <1>1, <1>2 DEF LastMove
<1>3. CASE here # start
  <2> SUFFICES ASSUME start \notin lockedPartitions PROVE FALSE
    OBVIOUS
  <2>1. Len(movements) = Way * PartitionSize /\ Len(movements) <= Cardinality(lockedDevices)
    BY <1>1, <1>3 DEF CycleOver, LastMove
  <2>2. lockedDevices \in SUBSET Devices /\ start \in Parts
    BY <1>1 DEF SearchTypes
  <2>3. Cardinality(lockedDevices) <= Cardinality(Devices) /\ Cardinality(lockedDevices) \in Nat
    BY <2>2, DevicesCounted, FS_Subset, FS_CardinalityType
  <2>4. Cardinality(lockedDevices) = Cardinality(Devices)
    BY <2>1, <2>3, DevicesCounted
  <2>5. lockedDevices = Devices
    BY <2>2, <2>4, DevicesCounted, FS_Subset
  <2>6. MembersOf(child, start) = {}
    BY <2>2, <2>5 DEF SearchInv, UntouchedPartitions, MembersOf
  <2>7. Cardinality(MembersOf(child, start)) > 0
    BY <1>1, <2>2, CycleSizes
  <2> QED BY <2>6, <2>7, FS_EmptySet
<1> QED BY <1>2, <1>3

LEMMA EndCycleKeeps == SearchInv /\ EndCycle => SearchInv'
<1> SUFFICES ASSUME SearchInv, EndCycle PROVE SearchInv'
  OBVIOUS
<1>1. /\ searching = "moving" /\ CycleOver /\ searching' = "cycles"
      /\ UNCHANGED <<population, others, minScores, parents, trail, kept, movements, start, here,
                     lockedDevices, lockedPartitions>>
  BY DEF EndCycle
<1>2. PICK l \in 1 .. Len(movements) : child' = Closed(child, l)
  BY DEF EndCycle
<1>3. SearchTypes /\ ClosesBalanced /\ MinimaFall
  BY <1>1 DEF SearchInv, InCycle
<1>4. start \in lockedPartitions
  BY <1>1, StartIsLocked
<1>5. movements \in Seq(Moves) /\ start \in Parts /\ child \in Assignments
  BY <1>3 DEF SearchTypes
<1>6. \A k \in 1 .. Len(movements) : movements[k] \in Moves
  BY <1>5
<1> DEFINE after(e) == {k \in l + 1 .. Len(movements) : movements[k].device = e}
           back == [e \in Devices |-> IF after(e) = {} THEN child[e] ELSE movements[Min(after(e))].from]
<1>7. child' = [back EXCEPT ![movements[l].device] = start]
  BY <1>2 DEF Closed, TakenBack
<1>8. \A e \in Devices : after(e) # {} => Min(after(e)) \in 1 .. Len(movements)
  <2> TAKE e \in Devices
  <2>1. after(e) \subseteq Nat /\ after(e) \subseteq 1 .. Len(movements)
    OBVIOUS
  <2> HIDE DEF after
  <2> QED BY <2>1, LeastIsThere
<1> HIDE DEF after
<1>9. \A e \in Devices : back[e] \in Parts
  <2> TAKE e \in Devices
  <2>1. CASE after(e) = {}
    BY <2>1, <1>5 DEF Assignments
  <2>2. CASE after(e) # {}
    BY <2>2, <1>6, <1>8 DEF Moves
  <2> QED BY <2>1, <2>2
<1>10. movements[l].device \in Devices
  BY <1>6 DEF Moves
<1>11. child' \in Assignments
  BY <1>5, <1>7, <1>9, <1>10 DEF Assignments
<1>12. IsBalanced(child')
  BY <1>2, <1>3 DEF ClosesBalanced
<1>13. UntouchedPartitions'
  <2> SUFFICES ASSUME NEW p \in Parts \ lockedPartitions, NEW e \in MembersOf(child', p), e \in lockedDevices
               PROVE  FALSE
    BY <1>1 DEF UntouchedPartitions, MembersOf
  <2>1. e \in Devices /\ child'[e] = p
    BY DEF MembersOf
  <2>2. p # start
    BY <1>4
  <2>3. e # movements[l].device
    BY <2>1, <2>2, <1>7, <1>10
  <2>4. back[e] = p
    BY <2>1, <2>3, <1>7
  <2>5. CASE after(e) = {}
    <3>1. e \in MembersOf(child, p)
      BY <2>1, <2>4, <2>5 DEF MembersOf
    <3> QED BY <3>1, <1>1 DEF SearchInv, UntouchedPartitions
  <2>6. CASE after(e) # {}
    <3>1. movements[Min(after(e))].from = p
      BY <2>1, <2>4, <2>6
    <3>2. movements[Min(after(e))].from \in lockedPartitions \cup {start}
      BY <2>1, <2>6, <1>8, <1>3 DEF ClosesBalanced
    <3> QED BY <3>1, <3>2, <2>2
  <2> QED BY <2>5, <2>6
<1>14. SearchTypes'
  BY <1>1, <1>3, <1>11 DEF SearchTypes
<1>15. MinimaFall'
  BY <1>1, <1>3, CandidatesKept
<1> QED BY <1>1, <1>12, <1>13, <1>14, <1>15 DEF SearchInv, InCycle, BetweenCycles, IsBalanced, MembersOf

LEMMA TakeOffspringKeeps == SearchInv /\ TakeOffspring => SearchInv'
<1> SUFFICES ASSUME SearchInv, TakeOffspring PROVE SearchInv'
  OBVIOUS
<1>1. /\ searching' = "scoring" /\ child' = kept
      /\ UNCHANGED <<population, others, minScores, parents, trail, kept, movements, start, here,
                     lockedDevices, lockedPartitions>>
  BY DEF TakeOffspring
<1>2. SearchTypes /\ MinimaFall
  BY DEF SearchInv
<1>3. child' \in Assignments /\ IsBalanced(child')
  BY <1>1, <1>2 DEF SearchTypes, Balanced
<1>4. SearchTypes'
  BY <1>1, <1>2, <1>3 DEF SearchTypes
<1>5. MinimaFall'
  BY <1>1, <1>2, CandidatesKept
<1> QED BY <1>1, <1>3, <1>4, <1>5 DEF SearchInv, InCycle, BetweenCycles, UntouchedPartitions, IsBalanced, MembersOf

LEMMA BreedKeeps == SearchInv /\ Breed => SearchInv'
<1> SUFFICES ASSUME SearchInv, Breed PROVE SearchInv'
  OBVIOUS
<1>1. /\ searching' = "cycles" /\ kept' = child'
      /\ lockedDevices' = {} /\ lockedPartitions' = {}
      /\ UNCHANGED <<population, others, minScores, trail, movements, start, here>>
  BY DEF Breed
<1>2. PICK one, two \in 1 .. PopulationSize, points \in kSubset(PointCount, Devices) :
        child' = Crossover(population[one], population[two], points) /\ parents' = <<one, two>>
  BY DEF Breed
<1>3. SearchTypes /\ MinimaFall
  BY DEF SearchInv
<1>4. population[one] \in Assignments /\ population[two] \in Assignments
  BY <1>3 DEF SearchTypes, Balanced
<1>5. child' \in Assignments /\ IsBalanced(child')
  BY <1>2, <1>4, CrossoverBalances
<1>6. SearchTypes'
  BY <1>1, <1>2, <1>3, <1>5 DEF SearchTypes, Balanced
<1>7. MinimaFall'
  BY <1>1, <1>3, CandidatesKept
<1>8. UntouchedPartitions'
  BY <1>1 DEF UntouchedPartitions
<1> QED BY <1>1, <1>5, <1>6, <1>7, <1>8 DEF SearchInv, InCycle, BetweenCycles, IsBalanced, MembersOf

------------------------------------------------------------------------------
(* The candidates and their scores.                                          *)

\* The least score of a set of candidates.
LEMMA LeastScore ==
  ASSUME NEW C, C \subseteq Balanced, C # {}
  PROVE  LET m == Min({Score(s) : s \in C})
         IN  m \in Nat /\ (\E s \in C : Score(s) = m) /\ \A s \in C : m <= Score(s)
<1> DEFINE T == {Score(s) : s \in C}
<1>1. T \subseteq Nat /\ T # {}
  BY ScoreIsNatural DEF Balanced
<1>2. Min(T) \in T /\ Min(T) \in Nat /\ \A y \in T : Min(T) <= y
  <2> HIDE DEF T
  <2> QED BY <1>1, LeastIsThere
<1> QED BY <1>2

LEMMA CandidatesAreBalanced ==
  ASSUME SearchTypes
  PROVE  /\ Candidates \subseteq Balanced /\ Candidates # {}
         /\ Range(population) = {population[i] : i \in 1 .. PopulationSize}
         /\ Range(others) = {others[i] : i \in 1 .. Len(others)}
<1>1. population \in [1 .. PopulationSize -> Balanced] /\ others \in Seq(Balanced)
  BY DEF SearchTypes
<1>2. PopulationSize \in Nat /\ PopulationSize > 0
  BY SearchAssumption
<1>3. Range(population) = {population[i] : i \in 1 .. PopulationSize}
  BY <1>1 DEF Range
<1>4. Range(others) = {others[i] : i \in 1 .. Len(others)}
  BY <1>1 DEF Range
<1>5. population[1] \in Range(population)
  BY <1>2, <1>3
<1>6. \A i \in 1 .. Len(others) : others[i] \in Balanced
  BY <1>1
<1> QED BY <1>1, <1>3, <1>4, <1>5, <1>6 DEF Candidates

LEMMA CompeteTypes ==
  ASSUME SearchInv, Compete
  PROVE  /\ SearchTypes'
         /\ Candidates \subseteq Candidates'
         /\ Len(others') = Len(others) + 1
<1>1. SearchTypes /\ IsBalanced(child)
  BY DEF SearchInv, BetweenCycles, Compete
<1>2. /\ population \in [1 .. PopulationSize -> Balanced] /\ others \in Seq(Balanced)
      /\ child \in Balanced
  BY <1>1 DEF SearchTypes, Balanced
<1>3. searching' = "breeding"
      /\ UNCHANGED <<parents, child, kept, movements, start, here, lockedDevices, lockedPartitions>>
  BY DEF Compete
<1>4. parents[1] \in 1 .. PopulationSize /\ parents[2] \in 1 .. PopulationSize
  BY <1>1 DEF SearchTypes
<1>5. PICK r \in 1 .. PopulationSize :
        \/ others' = Append(others, child) /\ population' = population
        \/ population' = [population EXCEPT ![r] = child] /\ others' = Append(others, population[r])
  <2> DEFINE r == IF Score(population[parents[1]]) > Score(population[parents[2]]) THEN parents[1] ELSE parents[2]
  <2>1. \/ others' = Append(others, child) /\ population' = population
        \/ population' = [population EXCEPT ![r] = child] /\ others' = Append(others, population[r])
    BY DEF Compete
  <2>2. r \in 1 .. PopulationSize
    BY <1>4
  <2> HIDE DEF r
  <2> QED BY <2>1, <2>2
<1>6. population' \in [1 .. PopulationSize -> Balanced]
  BY <1>2, <1>5
<1>7. PICK x \in Balanced : others' = Append(others, x)
  BY <1>2, <1>5
<1>8. others' \in Seq(Balanced) /\ Len(others') = Len(others) + 1 /\ Len(others) \in Nat
  BY <1>2, <1>7
<1>9. SearchTypes'
  BY <1>1, <1>3, <1>6, <1>8 DEF SearchTypes
<1>10. \A i \in 1 .. Len(others) : others'[i] = others[i] /\ i \in 1 .. Len(others')
  BY <1>2, <1>7, <1>8
<1>11. Range(others) \subseteq Range(others')
  <2>1. Range(others) = {others[i] : i \in 1 .. Len(others)}
    BY <1>1, CandidatesAreBalanced
  <2>2. Range(others') = {others'[i] : i \in 1 .. Len(others')}
    BY <1>8 DEF Range
  <2> QED BY <2>1, <2>2, <1>10
<1>12. Range(population) \subseteq Range(population') \cup Range(others')
  <2> SUFFICES ASSUME NEW i \in 1 .. PopulationSize
               PROVE  population[i] \in Range(population') \cup Range(others')
    BY <1>1, CandidatesAreBalanced
  <2>1. Range(population') = {population'[j] : j \in 1 .. PopulationSize}
    BY <1>6 DEF Range
  <2>2. Range(others') = {others'[j] : j \in 1 .. Len(others')}
    BY <1>8 DEF Range
  <2>3. CASE population'[i] = population[i]
    BY <2>1, <2>3
  <2>4. CASE population'[i] # population[i]
    <3>1. others' = Append(others, population[i])
      BY <2>4, <1>2, <1>5
    <3>2. others'[Len(others')] = population[i]
      BY <3>1, <1>2, <1>8
    <3>3. Len(others') \in 1 .. Len(others')
      BY <1>8
    <3> QED BY <3>2, <3>3, <2>2
  <2> QED BY <2>3, <2>4
<1>13. Candidates \subseteq Candidates'
  BY <1>11, <1>12 DEF Candidates
<1> QED BY <1>8, <1>9, <1>13

LEMMA CompeteKeeps == SearchInv /\ Compete => SearchInv'
<1> SUFFICES ASSUME SearchInv, Compete PROVE SearchInv'
  OBVIOUS
<1>1. /\ searching = "scoring" /\ searching' = "breeding" /\ child' = child /\ trail' = trail + 1
      /\ minScores' = Append(minScores, Min({Score(s) : s \in Candidates'}))
  BY DEF Compete, Candidates
<1>2. SearchTypes' /\ Candidates \subseteq Candidates' /\ Len(others') = Len(others) + 1
  BY CompeteTypes
<1>3. MinimaFall /\ IsBalanced(child)
  BY <1>1 DEF SearchInv, BetweenCycles
<1>4. Candidates' \subseteq Balanced /\ Candidates' # {}
  <2>1. (Candidates \subseteq Balanced /\ Candidates # {})'
    BY <1>2, CandidatesAreBalanced, PTL
  <2> QED BY <2>1 DEF Balanced, Assignments, IsBalanced, MembersOf
<1> DEFINE m == Min({Score(s) : s \in Candidates'})
           n == Len(minScores)
<1>5. m \in Nat /\ (\E s \in Candidates' : Score(s) = m) /\ \A s \in Candidates' : m <= Score(s)
  BY <1>4, LeastScore
<1> HIDE DEF m
<1>6. PICK c \in Candidates : Score(c) <= minScores[n]
  BY <1>3 DEF MinimaFall
<1>7. minScores \in Seq(Nat) /\ PopulationSize \in Nat /\ PopulationSize > 0 /\ trail \in Nat
      /\ n = PopulationSize + trail /\ Len(others) = trail
  BY <1>3, SearchAssumption DEF MinimaFall
<1>8. n \in 1 .. n /\ minScores[n] \in Nat
  <2>1. n \in 1 .. n
    BY <1>7
  <2> QED BY <2>1, <1>7
<1>9. m <= minScores[n]
  <2>1. c \in Balanced /\ c \in Candidates'
    BY <1>2, <1>4
  <2>2. Score(c) \in Nat /\ m <= Score(c)
    BY <2>1, <1>5, ScoreIsNatural DEF Balanced
  <2> QED BY <2>2, <1>5, <1>6, <1>8
<1>10. /\ minScores' \in Seq(Nat) /\ Len(minScores') = n + 1 /\ minScores'[n + 1] = m
       /\ \A i \in 1 .. n : minScores'[i] = minScores[i]
  BY <1>1, <1>5, <1>7 DEF m
<1>11. MinimaFall'
  <2>1. \A i \in 1 .. Len(minScores') - 1 : minScores'[i + 1] <= minScores'[i]
    <3> TAKE i \in 1 .. Len(minScores') - 1
    <3>1. i \in 1 .. n
      BY <1>7, <1>10
    <3>2. CASE i = n
      BY <3>2, <1>8, <1>9, <1>10
    <3>3. CASE i # n
      <4>1. i \in 1 .. n - 1 /\ i + 1 \in 1 .. n
        BY <3>1, <3>3, <1>7
      <4>2. minScores[i + 1] <= minScores[i]
        BY <4>1, <1>3 DEF MinimaFall
      <4> QED BY <4>1, <4>2, <3>1, <1>10
    <3> QED BY <3>2, <3>3
  <2>2. \E s \in Candidates' : Score(s) <= minScores'[Len(minScores')]
    <3>1. PICK s \in Candidates' : Score(s) = m
      BY <1>5
    <3>2. Score(s) <= minScores'[Len(minScores')]
      BY <3>1, <1>5, <1>10
    <3> QED BY <3>2
  <2>3. Len(others') = trail' /\ Len(minScores') = PopulationSize + trail' /\ trail' \in Nat
    BY <1>1, <1>2, <1>7, <1>10
  <2> QED BY <2>1, <2>2, <2>3, <1>10 DEF MinimaFall, Score, SyncCost, RouteCost, CrossCost
<1> QED BY <1>1, <1>2, <1>3, <1>11 DEF SearchInv, InCycle, BetweenCycles, UntouchedPartitions, IsBalanced, MembersOf

LEMMA SearchStarts == SearchInit => SearchInv
<1> SUFFICES ASSUME SearchInit PROVE SearchInv
  OBVIOUS
<1>1. /\ population \in Populations /\ others = <<>> /\ trail = 0 /\ parents = <<1, 1>>
      /\ minScores = [i \in 1 .. PopulationSize |-> Min({Score(population[k]) : k \in 1 .. i})]
      /\ child = population[1] /\ kept = child /\ movements = <<>> /\ start = 0 /\ here = 0
      /\ lockedDevices = {} /\ lockedPartitions = {} /\ searching = "breeding"
  BY DEF SearchInit
<1>2. PopulationSize \in Nat /\ PopulationSize > 0
  BY SearchAssumption
<1>3. population \in [1 .. PopulationSize -> Balanced]
  BY <1>1, SearchAssumption DEF Balanced, Assignments
<1>4. 1 \in 1 .. PopulationSize /\ 0 \in Parts
  BY <1>2, DevicesCounted DEF Parts
<1>5. child \in Balanced /\ kept \in Balanced
  BY <1>1, <1>3, <1>4
<1>6. SearchTypes
  <2>1. <<1, 1>> \in (1 .. PopulationSize) \X (1 .. PopulationSize)
    BY <1>4
  <2>2. <<>> \in Seq(Balanced) /\ <<>> \in Seq(Moves)
    OBVIOUS
  <2> QED BY <1>1, <1>3, <1>4, <1>5, <2>1, <2>2 DEF SearchTypes, Balanced
<1> DEFINE First(i) == {population[k] : k \in 1 .. i}
           P == PopulationSize
<1>7. \A i \in 1 .. P : /\ minScores[i] \in Nat
                        /\ \E k \in 1 .. i : Score(population[k]) = minScores[i]
                        /\ \A k \in 1 .. i : minScores[i] <= Score(population[k])
  <2> TAKE i \in 1 .. P
  <2>1. First(i) \subseteq Balanced
    BY <1>3, <1>2
  <2>2. First(i) # {}
    <3>1. 1 \in 1 .. i
      BY <1>2
    <3> QED BY <3>1
  <2>3. minScores[i] = Min({Score(s) : s \in First(i)})
    <3>1. {Score(s) : s \in First(i)} = {Score(population[k]) : k \in 1 .. i}
      OBVIOUS
    <3> QED BY <3>1, <1>1
  <2>4. /\ minScores[i] \in Nat /\ \E s \in First(i) : Score(s) = minScores[i]
        /\ \A s \in First(i) : minScores[i] <= Score(s)
    <3> HIDE DEF First
    <3> QED BY <2>1, <2>2, <2>3, LeastScore
  <2> QED BY <2>4
<1>8. minScores \in Seq(Nat) /\ Len(minScores) = P
  <2>1. minScores \in [1 .. P -> Nat]
    <3>1. minScores = [i \in 1 .. P |-> minScores[i]]
      BY <1>1
    <3> QED BY <3>1, <1>7
  <2> QED BY <2>1, <1>2
<1>9. \A i \in 1 .. P - 1 : minScores[i + 1] <= minScores[i]
  <2> TAKE i \in 1 .. P - 1
  <2>1. i \in 1 .. P /\ i + 1 \in 1 .. P /\ 1 .. i \subseteq 1 .. i + 1
    BY <1>2
  <2>2. PICK k \in 1 .. i : Score(population[k]) = minScores[i]
    BY <2>1, <1>7
  <2>3. k \in 1 .. i + 1
    BY <2>1
  <2>4. minScores[i + 1] <= Score(population[k])
    BY <2>1, <2>3, <1>7
  <2> QED BY <2>2, <2>4
<1>10. \E s \in Candidates : Score(s) <= minScores[Len(minScores)]
  <2>1. P \in 1 .. P
    BY <1>2
  <2>2. PICK k \in 1 .. P : Score(population[k]) = minScores[P]
    BY <2>1, <1>7
  <2>3. population[k] \in Candidates
    BY <1>6, CandidatesAreBalanced DEF Candidates
  <2>4. Score(population[k]) <= minScores[P]
    BY <2>1, <2>2, <1>7
  <2> QED BY <2>3, <2>4, <1>8
<1>11. MinimaFall
  <2>1. Len(others) = 0
    BY <1>1
  <2>2. trail = 0 /\ Len(minScores) = PopulationSize + trail
    BY <1>1, <1>2, <1>8
  <2>3. \A i \in 1 .. Len(minScores) - 1 : minScores[i + 1] <= minScores[i]
    BY <1>8, <1>9
  <2> QED BY <2>1, <2>2, <2>3, <1>8, <1>10 DEF MinimaFall
<1> QED BY <1>1, <1>5, <1>6, <1>11 DEF SearchInv, InCycle, BetweenCycles, UntouchedPartitions, Balanced

------------------------------------------------------------------------------
(* The ranks.                                                                *)

\* f follows the matchings from the i-th device of the first stage to the m-th.
Follows(f, matches, i, m) == f = [k \in 1 .. m |-> IF k = 1 THEN i ELSE matches[k - 1][f[k - 1]]]

LEMMA LanesExist ==
  ASSUME NEW matches, NEW i, NEW n \in Nat, n > 0
  PROVE  \E f : Follows(f, matches, i, n)
<1> DEFINE Bad == {m \in Nat : m > 0 /\ ~\E f : Follows(f, matches, i, m)}
<1>1. SUFFICES ASSUME Bad # {} PROVE FALSE
  OBVIOUS
<1>2. PICK m \in Bad : \A k \in Bad : m <= k
  BY <1>1, LeastOfSet
<1>3. m \in Nat /\ m > 0 /\ ~\E f : Follows(f, matches, i, m)
  OBVIOUS
<1>4. CASE m = 1
  <2> DEFINE g == [k \in 1 .. 1 |-> i]
  <2>1. Follows(g, matches, i, 1)
    BY DEF Follows
  <2> QED BY <2>1, <1>3, <1>4
<1>5. CASE m # 1
  <2>1. m - 1 \in Nat /\ m - 1 > 0 /\ m - 1 \notin Bad
    BY <1>2, <1>3, <1>5
  <2>2. PICK f : Follows(f, matches, i, m - 1)
    BY <2>1
  <2> DEFINE g == [k \in 1 .. m |-> IF k = m THEN matches[m - 1][f[m - 1]] ELSE f[k]]
             h == [k \in 1 .. m |-> IF k = 1 THEN i ELSE matches[k - 1][g[k - 1]]]
  <2>3. \A k \in 1 .. m : g[k] = h[k]
    <3> TAKE k \in 1 .. m
    <3>1. CASE k = m
      <4>1. g[k - 1] = f[m - 1]
        BY <3>1, <2>1
      <4> QED BY <3>1, <4>1, <1>3, <1>5
    <3>2. CASE k # m
      <4>1. k \in 1 .. m - 1 /\ (k # 1 => k - 1 \in 1 .. m - 1)
        BY <3>2, <2>1
      <4>2. g[k] = f[k] /\ (k # 1 => g[k - 1] = f[k - 1])
        BY <4>1, <2>1
      <4>3. f[k] = IF k = 1 THEN i ELSE matches[k - 1][f[k - 1]]
        BY <2>2, <4>1 DEF Follows
      <4> QED BY <4>2, <4>3
    <3> QED BY <3>1, <3>2
  <2>4. g = h
    BY <2>3
  <2>5. Follows(g, matches, i, m)
    BY <2>4 DEF Follows
  <2> QED BY <2>5, <1>3
<1> QED BY <1>4, <1>5

Seats == 1 .. PartitionSize
Matchings == [1 .. Way - 1 -> Bijection(Seats, Seats)]

LEMMA LaneFollows ==
  ASSUME NEW route, NEW matches, NEW i, NEW k \in 1 .. Way
  PROVE  Lane(route, matches, i)[k] = IF k = 1 THEN i ELSE matches[k - 1][Lane(route, matches, i)[k - 1]]
<1> DEFINE lane == CHOOSE f : f = [n \in 1 .. Way |-> IF n = 1 THEN i ELSE matches[n - 1][f[n - 1]]]
<1>1. Lane(route, matches, i) = lane
  BY DEF Lane
<1>2. \E f : Follows(f, matches, i, Way)
  BY LanesExist, DevicesCounted
<1>3. Follows(lane, matches, i, Way)
  BY <1>2 DEF Follows
<1> HIDE DEF lane
<1> QED BY <1>1, <1>3 DEF Follows

\* In every stage each seat is on one lane.
LanesMeet(route, matches, k) ==
  /\ \A i \in Seats : Lane(route, matches, i)[k] \in Seats
  /\ \A i, j \in Seats : Lane(route, matches, i)[k] = Lane(route, matches, j)[k] => i = j
  /\ \A x \in Seats : \E i \in Seats : Lane(route, matches, i)[k] = x

LEMMA LanesAreApart ==
  ASSUME NEW route, NEW matches \in Matchings, NEW n \in 1 .. Way
  PROVE  LanesMeet(route, matches, n)
<1> DEFINE Bad == {k \in Nat : k \in 1 .. Way /\ ~LanesMeet(route, matches, k)}
<1>0. Way \in Nat
  BY DevicesCounted
<1>1. SUFFICES ASSUME Bad # {} PROVE FALSE
  BY <1>0
<1>2. PICK k \in Bad : \A m \in Bad : k <= m
  BY <1>1, LeastOfSet
<1>3. k \in 1 .. Way /\ ~LanesMeet(route, matches, k)
  OBVIOUS
<1>4. CASE k = 1
  <2>1. \A i \in Seats : Lane(route, matches, i)[k] = i
    BY <1>3, <1>4, LaneFollows
  <2> QED BY <2>1, <1>3 DEF LanesMeet
<1>5. CASE k # 1
  <2>1. k - 1 \in 1 .. Way - 1 /\ k - 1 \in 1 .. Way
    BY <1>0, <1>3, <1>5
  <2>2. LanesMeet(route, matches, k - 1)
    <3>1. k - 1 \notin Bad
      BY <1>2, <2>1
    <3> QED BY <3>1, <2>1
  <2> DEFINE g == matches[k - 1]
  <2>3. /\ \A x \in Seats : g[x] \in Seats
        /\ \A x, y \in Seats : g[x] = g[y] => x = y
        /\ \A y \in Seats : \E x \in Seats : g[x] = y
    <3>1. g \in Bijection(Seats, Seats)
      BY <2>1 DEF Matchings
    <3> HIDE DEF g
    <3>2. g \in [Seats -> Seats] /\ IsInjective(g)
      BY <3>1 DEF Bijection, Injection
    <3>3. \A y \in Seats : \E x \in Seats : g[x] = y
      BY <3>1 DEF Bijection, Surjection
    <3> QED BY <3>2, <3>3 DEF IsInjective
  <2>4. ASSUME NEW i \in Seats
        PROVE  Lane(route, matches, i)[k] = g[Lane(route, matches, i)[k - 1]]
    <3>1. k \in 1 .. Way
      BY <1>3
    <3>2. Lane(route, matches, i)[k] = IF k = 1 THEN i ELSE matches[k - 1][Lane(route, matches, i)[k - 1]]
      BY <3>1, LaneFollows
    <3> QED BY <3>2, <1>5
  <2> HIDE DEF g
  <2>5. \A i \in Seats : Lane(route, matches, i)[k] \in Seats
    BY <2>2, <2>3, <2>4 DEF LanesMeet
  <2>6. ASSUME NEW i \in Seats, NEW j \in Seats, Lane(route, matches, i)[k] = Lane(route, matches, j)[k]
        PROVE  i = j
    <3> DEFINE x == Lane(route, matches, i)[k - 1]
               y == Lane(route, matches, j)[k - 1]
    <3>1. x \in Seats /\ y \in Seats /\ (x = y => i = j)
      BY <2>2 DEF LanesMeet
    <3>2. g[x] = g[y]
      BY <2>4, <2>6
    <3> HIDE DEF x, y
    <3> QED BY <3>1, <3>2, <2>3
  <2>7. ASSUME NEW y \in Seats PROVE \E i \in Seats : Lane(route, matches, i)[k] = y
    <3>1. PICK x \in Seats : g[x] = y
      BY <2>3
    <3>2. PICK i \in Seats : Lane(route, matches, i)[k - 1] = x
      BY <2>2 DEF LanesMeet
    <3> QED BY <3>1, <3>2, <2>4
  <2> QED BY <1>3, <2>5, <2>6, <2>7 DEF LanesMeet
<1> QED BY <1>4, <1>5

\* The devices of a partition have seats of their own.
LEMMA SeatsDiffer ==
  ASSUME NEW s \in Balanced, NEW d \in Devices, NEW e \in Devices, s[d] = s[e], d < e
  PROVE  Seat(s, d) < Seat(s, e)
<1> DEFINE A == {x \in MembersOf(s, s[d]) : x <= d}
           B == {x \in MembersOf(s, s[e]) : x <= e}
<1>1. A \in SUBSET B /\ e \in B /\ e \notin A
  <2>1. \A x \in Devices : x \in Nat
    BY DevicesCounted
  <2>2. MembersOf(s, s[d]) \subseteq Devices /\ MembersOf(s, s[d]) = MembersOf(s, s[e])
    BY DEF MembersOf
  <2>3. e \in MembersOf(s, s[e])
    BY DEF MembersOf
  <2>4. \A x \in Devices : x <= d => x <= e
    BY <2>1
  <2>5. e <= e /\ ~(e <= d)
    BY <2>1
  <2> QED BY <2>2, <2>3, <2>4, <2>5
<1>2. IsFiniteSet(B) /\ Cardinality(B) \in Nat
  <2>1. B \in SUBSET MembersOf(s, s[e])
    OBVIOUS
  <2> HIDE DEF B
  <2> QED BY <2>1, SizeIsNatural, FS_Subset, FS_CardinalityType
<1> HIDE DEF A, B
<1>3. Cardinality(A) \in Nat /\ Cardinality(A) <= Cardinality(B) /\ Cardinality(A) # Cardinality(B)
  BY <1>1, <1>2, FS_Subset, FS_CardinalityType
<1>4. Seat(s, d) = Cardinality(A) /\ Seat(s, e) = Cardinality(B)
  BY DEF Seat, A, B
<1> QED BY <1>2, <1>3, <1>4

LEMMA SeatsFit ==
  ASSUME NEW s \in Balanced, NEW d \in Devices
  PROVE  Seat(s, d) \in Seats
<1> DEFINE A == {x \in MembersOf(s, s[d]) : x <= d}
           M == MembersOf(s, s[d])
<1>1. s[d] \in Parts /\ Cardinality(M) = PartitionSize
  BY DEF Balanced, Assignments, IsBalanced
<1>2. A \in SUBSET M /\ d \in A
  BY DevicesCounted DEF MembersOf
<1>3. IsFiniteSet(M)
  BY SizeIsNatural
<1>4. Seat(s, d) = Cardinality(A)
  BY DEF Seat
<1> HIDE DEF A, M
<1>5. IsFiniteSet(A) /\ Cardinality(A) \in Nat /\ Cardinality(A) <= PartitionSize
  BY <1>1, <1>2, <1>3, FS_Subset, FS_CardinalityType
<1>6. Cardinality(A) # 0
  BY <1>2, <1>5, FS_EmptySet
<1> QED BY <1>4, <1>5, <1>6, DevicesCounted DEF Seats

\* Two numbers of pipelines and of stages make two ranks.
LEMMA RankDigits ==
  ASSUME NEW i \in Seats, NEW k \in 1 .. Way
  PROVE  LET r == (i - 1) * Way + k - 1
         IN  r \in Devices /\ r % Way = k - 1 /\ r \div Way = i - 1
<1> DEFINE a == i - 1
           b == k - 1
           r == (i - 1) * Way + k - 1
<1>1. Way \in Nat /\ Way > 0 /\ PartitionSize \in Nat /\ Way * PartitionSize \in Nat
  BY DevicesCounted
<1>2. a \in Nat /\ b \in 0 .. Way - 1 /\ a + 1 <= PartitionSize
  BY <1>1 DEF Seats
<1>a. a * Way \in Nat
  BY <1>1, <1>2
<1>3. r = a * Way + b
  <2>1. i \in Int /\ k \in Int
    BY <1>1 DEF Seats
  <2> QED BY <2>1, <1>1, <1>a
<1> HIDE DEF a, b, r
<1>4. (a * Way + b) % Way = b
  BY <1>1, <1>2, SMT
<1>5. (a * Way + b) \div Way = a
  BY <1>1, <1>2, SMT
<1>6. a * Way + Way <= Way * PartitionSize
  <2>1. (a + 1) * Way <= PartitionSize * Way
    BY <1>1, <1>2, SMT
  <2> QED BY <2>1, <1>1, <1>2, SMT
<1>7. r \in Devices
  BY <1>1, <1>2, <1>a, <1>3, <1>6 DEF Devices
<1> QED BY <1>3, <1>4, <1>5, <1>7 DEF a, b, r

\* Every device has a place in a pipeline and a rank that says which.
LEMMA RanksAreOnesOwn ==
  ASSUME NEW s \in Balanced, NEW route \in Routes, NEW matches \in Matchings,
         NEW f, f = RankMap(s, route, matches)
  PROVE  /\ {f[d] : d \in Devices} = Devices
         /\ \A d, e \in Devices : (f[d] % Way = f[e] % Way) = (s[d] = s[e])
<1> DEFINE Stage(d) == CHOOSE k \in 1 .. Way : route[k] = s[d]
           Line(d) == CHOOSE i \in Seats : Lane(route, matches, i)[Stage(d)] = Seat(s, d)
<1>1. /\ route \in [1 .. Way -> Parts]
      /\ \A k, n \in 1 .. Way : route[k] = route[n] => k = n
      /\ \A p \in Parts : \E k \in 1 .. Way : route[k] = p
  <2>1. route \in [1 .. Way -> Parts] /\ IsInjective(route)
    BY DEF Routes, Bijection, Injection
  <2> QED BY <2>1 DEF Routes, Bijection, Surjection, IsInjective
<1>2. \A d \in Devices : Stage(d) \in 1 .. Way /\ route[Stage(d)] = s[d]
  <2> TAKE d \in Devices
  <2>1. s[d] \in Parts
    BY DEF Balanced, Assignments
  <2> QED BY <2>1, <1>1
<1> HIDE DEF Stage
<1>3. \A d \in Devices : Line(d) \in Seats /\ Lane(route, matches, Line(d))[Stage(d)] = Seat(s, d)
  <2> TAKE d \in Devices
  <2>1. \E i \in Seats : Lane(route, matches, i)[Stage(d)] = Seat(s, d)
    <3>1. Seat(s, d) \in Seats
      BY SeatsFit
    <3>2. LanesMeet(route, matches, Stage(d))
      BY <1>2, LanesAreApart
    <3> QED BY <3>1, <3>2 DEF LanesMeet
  <2> QED BY <2>1
<1>4. f \in [Devices -> Devices] /\ \A d \in Devices : f[d] % Way = Stage(d) - 1 /\ f[d] \div Way = Line(d) - 1
  <2>1. f = [d \in Devices |-> (Line(d) - 1) * Way + Stage(d) - 1]
    BY DEF RankMap, Stage, Seats
  <2> HIDE DEF Line
  <2>2. \A d \in Devices : /\ (Line(d) - 1) * Way + Stage(d) - 1 \in Devices
                           /\ ((Line(d) - 1) * Way + Stage(d) - 1) % Way = Stage(d) - 1
                           /\ ((Line(d) - 1) * Way + Stage(d) - 1) \div Way = Line(d) - 1
    BY <1>2, <1>3, RankDigits
  <2> QED BY <2>1, <2>2
<1> HIDE DEF Line
<1>5. \A d, e \in Devices : Stage(d) = Stage(e) <=> s[d] = s[e]
  BY <1>1, <1>2
<1>6. \A d \in Devices : Stage(d) \in Int /\ Line(d) \in Int
  BY <1>2, <1>3 DEF Seats
<1>7. \A d, e \in Devices : (f[d] % Way = f[e] % Way) <=> (s[d] = s[e])
  <2> TAKE d, e \in Devices
  <2>1. f[d] % Way = Stage(d) - 1 /\ f[e] % Way = Stage(e) - 1
    BY <1>4
  <2>2. (Stage(d) - 1 = Stage(e) - 1) <=> Stage(d) = Stage(e)
    BY <1>6
  <2> QED BY <2>1, <2>2, <1>5
<1>8. IsInjective(f)
  <2> SUFFICES ASSUME NEW d \in Devices, NEW e \in Devices, f[d] = f[e] PROVE d = e
    BY <1>4 DEF IsInjective
  <2>1. s[d] = s[e] /\ Stage(d) = Stage(e)
    BY <1>5, <1>7
  <2>2. Line(d) = Line(e)
    <3>1. Line(d) - 1 = Line(e) - 1
      BY <1>4
    <3> QED BY <3>1, <1>6
  <2>3. Seat(s, d) = Seat(s, e)
    BY <2>1, <2>2, <1>3
  <2>4. Seat(s, d) \in Nat /\ Seat(s, e) \in Nat
    BY SeatsFit DEF Seats
  <2>5. ~(d < e) /\ ~(e < d)
    BY <2>1, <2>3, <2>4, SeatsDiffer
  <2> QED BY <2>5, DevicesCounted
<1>9. f \in Surjection(Devices, Devices)
  <2>1. f \in Injection(Devices, Devices)
    BY <1>4, <1>8 DEF Injection
  <2> QED BY <2>1, DevicesCounted, FS_Injection
<1>10. {f[d] : d \in Devices} = Devices
  BY <1>4, <1>9 DEF Surjection
<1> QED BY <1>7, <1>10

LEMMA PlaceKeeps == SearchInv /\ Place => SearchInv'
<1> SUFFICES ASSUME SearchInv, Place PROVE SearchInv'
  OBVIOUS
<1>1. /\ searching' = "placed" /\ child' \in Candidates
      /\ UNCHANGED <<population, others, minScores, parents, trail, kept, movements, start, here,
                     lockedDevices, lockedPartitions>>
  BY DEF Place
<1>2. SearchTypes /\ MinimaFall
  BY DEF SearchInv
<1>3. child' \in Balanced
  BY <1>1, <1>2, CandidatesAreBalanced
<1>4. PICK route \in Routes, matches \in Matchings : ranks' = RankMap(child', route, matches)
  BY DEF Place, Matchings, Seats
<1>5. RanksFit'
  BY <1>3, <1>4, RanksAreOnesOwn DEF RanksFit
<1>6. SearchTypes'
  BY <1>1, <1>2, <1>3 DEF SearchTypes, Balanced
<1>7. MinimaFall'
  BY <1>1, <1>2, CandidatesKept
<1> QED BY <1>1, <1>3, <1>5, <1>6, <1>7
        DEF SearchInv, InCycle, BetweenCycles, UntouchedPartitions, Balanced, IsBalanced, MembersOf

------------------------------------------------------------------------------

LEMMA SearchStep ==
  ASSUME SearchInv, [SearchNext]_searchVars
  PROVE  SearchInv'
<1>1. CASE Breed
  BY <1>1, BreedKeeps
<1>2. CASE BeginCycle
  BY <1>2, BeginCycleKeeps
<1>3. CASE Move
  BY <1>3, MoveKeeps
<1>4. CASE EndCycle
  BY <1>4, EndCycleKeeps
<1>5. CASE TakeOffspring
  BY <1>5, TakeOffspringKeeps
<1>6. CASE Compete
  BY <1>6, CompeteKeeps
<1>7. CASE Place
  BY <1>7, PlaceKeeps
<1>8. CASE UNCHANGED searchVars
  <2>1. MinimaFall'
    BY <1>8, CandidatesKept DEF searchVars, SearchInv
  <2>2. SearchTypes' /\ (searching' = "placed" => RanksFit')
    BY <1>8 DEF searchVars, SearchInv, SearchTypes, RanksFit
  <2>3. BetweenCycles' /\ UntouchedPartitions'
    BY <1>8 DEF searchVars, SearchInv, BetweenCycles, UntouchedPartitions, IsBalanced, MembersOf
  <2>4. InCycle'
    <3>1. SizesInCycle' = SizesInCycle /\ LastMove' = LastMove
      BY <1>8 DEF searchVars, SizesInCycle, LastMove, MembersOf, Movable
    <3>2. ClosesBalanced' = ClosesBalanced
      BY <1>8 DEF searchVars, ClosesBalanced, IsBalanced, MembersOf, Closed, TakenBack
    <3> QED BY <3>1, <3>2, <1>8 DEF searchVars, SearchInv, InCycle
  <2> QED BY <2>1, <2>2, <2>3, <2>4 DEF SearchInv
<1> QED BY <1>1, <1>2, <1>3, <1>4, <1>5, <1>6, <1>7, <1>8 DEF SearchNext

\* PlacementIsSound (PlacementSearch): between cycles every candidate has as many
\* devices in each partition, a cycle that must begin finds a device to move, the
\* recorded minima never rise, and every device gets a rank of its own in the
\* stage of its partition.
THEOREM PlacementStaysSound == SearchSpec => []PlacementIsSound
<1>1. SearchInit => SearchInv
  BY SearchStarts
<1>2. SearchInv /\ [SearchNext]_searchVars => SearchInv'
  BY SearchStep
<1>3. SearchInv => PlacementIsSound
  <2> SUFFICES ASSUME SearchInv PROVE PlacementIsSound
    OBVIOUS
  <2>1. searching # "moving" => IsBalanced(child)
    BY DEF SearchInv, BetweenCycles
  <2>2. searching = "cycles" /\ MoreCycles => \E p \in Parts : Movable(p) # {}
    BY CyclesBegin
  <2>3. Len(minScores) = Len(population) + Len(others)
    <3>1. PopulationSize \in Nat /\ population \in [1 .. PopulationSize -> Balanced]
      BY SearchAssumption DEF SearchInv, SearchTypes
    <3>2. Len(population) = PopulationSize
      BY <3>1
    <3> QED BY <3>2 DEF SearchInv, MinimaFall
  <2>4. \A i \in 1 .. Len(minScores) - 1 : minScores[i + 1] <= minScores[i]
    BY DEF SearchInv, MinimaFall
  <2> QED BY <2>1, <2>2, <2>3, <2>4 DEF PlacementIsSound, SearchInv, RanksFit
<1> QED BY <1>1, <1>2, <1>3, PTL DEF SearchSpec

------------------------------------------------------------------------------
(* LaunchPlan: the search for an order.                                    *)

\* A step of a path: there and back.
TwoWay(p, a, b) == p[a][b] # Unmeasured /\ p[b][a] # Unmeasured
RoundTrip(p, a, b) == p[a][b] + p[b][a]

\* The ways through all ranks of S, and those that end in r.
Walks(p, S) ==
  {o \in [1 .. Cardinality(S) -> S] :
     /\ \A a, b \in DOMAIN o : a # b => o[a] # o[b]
     /\ \A i \in 1 .. Cardinality(S) - 1 : TwoWay(p, o[i], o[i + 1])}
WalksTo(p, S, r) == {o \in Walks(p, S) : o[Cardinality(S)] = r}

\* Least among the ways through S that end in r.
Costed(p, o) == [cost |-> CostOf(p, o), path |-> o]
IsCheapest(p, S, r, x) ==
  /\ x.path \in WalksTo(p, S, r)
  /\ x = Costed(p, x.path)
  /\ \A q \in WalksTo(p, S, r) : q = x.path \/ Better(x, Costed(p, q))

\* What the search has found when the masks in left are not extended yet.
OrderSearchFits(p, left, b) ==
  /\ left \subseteq Masks(p)
  /\ \A k \in DOMAIN b : \E S \in Masks(p) : \E r \in S : k = <<S, r>> /\ IsCheapest(p, S, r, b[k])
  /\ \A S \in Masks(p) : \A r \in S :
       S \ {r} \notin left /\ WalksTo(p, S, r) # {} => <<S, r>> \in DOMAIN b

LEMMA ProbesAreSquare ==
  ASSUME NEW p \in Probes
  PROVE  /\ Len(p) \in Nat /\ Len(p) >= 2 /\ DOMAIN p = 1 .. Len(p)
         /\ DOMAIN p \subseteq Nat /\ IsFiniteSet(DOMAIN p) /\ Cardinality(DOMAIN p) = Len(p)
         /\ \A a, b \in DOMAIN p : p[a][b] \in Nat
<1>1. /\ p \in Seq(Seq(Nat)) /\ Len(p) >= 2
      /\ \A a \in DOMAIN p : DOMAIN p[a] = DOMAIN p
  BY LaunchPlanAssumption
<1>2. Len(p) \in Nat /\ DOMAIN p = 1 .. Len(p)
  BY <1>1
<1>3. IsFiniteSet(1 .. Len(p)) /\ Cardinality(1 .. Len(p)) = Len(p)
  BY <1>1, <1>2, FS_Interval
<1>4. ASSUME NEW a \in DOMAIN p, NEW b \in DOMAIN p
      PROVE  p[a][b] \in Nat
  <2>1. p[a] \in Seq(Nat) /\ b \in DOMAIN p[a]
    BY <1>1, <1>2
  <2> QED BY <2>1
<1> QED BY <1>1, <1>2, <1>3, <1>4

\* Paths of one length are in lexicographic order.
LEMMA SmallerPathIsOrder ==
  ASSUME NEW n \in Nat, NEW o \in [1 .. n -> Nat], NEW q \in [1 .. n -> Nat]
  PROVE  /\ ~(SmallerPath(o, q) /\ SmallerPath(q, o))
         /\ o = q \/ SmallerPath(o, q) \/ SmallerPath(q, o)
         /\ \A s \in [1 .. n -> Nat] :
              SmallerPath(o, q) /\ SmallerPath(q, s) => SmallerPath(o, s)
<1>1. ASSUME SmallerPath(o, q), SmallerPath(q, o) PROVE FALSE
  <2>1. PICK i \in 1 .. n : o[i] < q[i] /\ \A k \in 1 .. i - 1 : o[k] = q[k]
    BY <1>1 DEF SmallerPath
  <2>2. PICK j \in 1 .. n : q[j] < o[j] /\ \A k \in 1 .. j - 1 : q[k] = o[k]
    BY <1>1 DEF SmallerPath
  <2>3. CASE i < j
    BY <2>1, <2>2, <2>3
  <2>4. CASE j < i
    BY <2>1, <2>2, <2>4
  <2>5. CASE i = j
    BY <2>1, <2>2, <2>5
  <2> QED BY <2>3, <2>4, <2>5
<1>2. ASSUME o # q PROVE SmallerPath(o, q) \/ SmallerPath(q, o)
  <2> DEFINE Differ == {i \in 1 .. n : o[i] # q[i]}
  <2>1. Differ \subseteq Nat /\ Differ # {}
    BY <1>2
  <2>2. PICK i \in Differ : \A k \in Differ : i <= k
    BY <2>1, LeastOfSet
  <2>3. i \in 1 .. n /\ o[i] # q[i]
    BY <2>2
  <2>4. \A k \in 1 .. i - 1 : o[k] = q[k]
    BY <2>2, <2>3
  <2>5. o[i] < q[i] \/ q[i] < o[i]
    BY <2>3
  <2> QED BY <2>3, <2>4, <2>5 DEF SmallerPath
<1>3. ASSUME NEW s \in [1 .. n -> Nat], SmallerPath(o, q), SmallerPath(q, s)
      PROVE  SmallerPath(o, s)
  <2>1. PICK i \in 1 .. n : o[i] < q[i] /\ \A k \in 1 .. i - 1 : o[k] = q[k]
    BY <1>3 DEF SmallerPath
  <2>2. PICK j \in 1 .. n : q[j] < s[j] /\ \A k \in 1 .. j - 1 : q[k] = s[k]
    BY <1>3 DEF SmallerPath
  <2>3. CASE i <= j
    <3>1. o[i] < s[i]
      BY <2>1, <2>2, <2>3
    <3>2. \A k \in 1 .. i - 1 : o[k] = s[k]
      BY <2>1, <2>2, <2>3
    <3> QED BY <3>1, <3>2 DEF SmallerPath
  <2>4. CASE j < i
    <3>1. o[j] < s[j]
      BY <2>1, <2>2, <2>4
    <3>2. \A k \in 1 .. j - 1 : o[k] = s[k]
      BY <2>1, <2>2, <2>4
    <3> QED BY <3>1, <3>2 DEF SmallerPath
  <2> QED BY <2>3, <2>4
<1> QED BY <1>1, <1>2, <1>3

\* Candidates: paths of n ranks with their costs.
PricedPaths(n) == [cost : Nat, path : [1 .. n -> Nat]]

LEMMA BetterIsOrder ==
  ASSUME NEW n \in Nat, NEW x \in PricedPaths(n), NEW y \in PricedPaths(n)
  PROVE  /\ ~Better(x, x)
         /\ ~(Better(x, y) /\ Better(y, x))
         /\ x = y \/ Better(x, y) \/ Better(y, x)
         /\ \A z \in PricedPaths(n) : Better(x, y) /\ Better(y, z) => Better(x, z)
<1>1. /\ x.cost \in Nat /\ x.path \in [1 .. n -> Nat]
      /\ y.cost \in Nat /\ y.path \in [1 .. n -> Nat]
  BY DEF PricedPaths
<1>2. x.cost = y.cost /\ x.path = y.path => x = y
  BY DEF PricedPaths
<1>3. ~SmallerPath(x.path, x.path) /\ ~(SmallerPath(x.path, y.path) /\ SmallerPath(y.path, x.path))
  BY <1>1, SmallerPathIsOrder
<1>4. x.path = y.path \/ SmallerPath(x.path, y.path) \/ SmallerPath(y.path, x.path)
  BY <1>1, SmallerPathIsOrder
<1>5. ASSUME NEW z \in PricedPaths(n), Better(x, y), Better(y, z)
      PROVE  Better(x, z)
  <2>1. z.cost \in Nat /\ z.path \in [1 .. n -> Nat]
    BY DEF PricedPaths
  <2>2. SmallerPath(x.path, y.path) /\ SmallerPath(y.path, z.path) => SmallerPath(x.path, z.path)
    BY <1>1, <2>1, SmallerPathIsOrder
  <2> QED BY <1>1, <1>5, <2>1, <2>2 DEF Better
<1>6. ~Better(x, x)
  BY <1>1, <1>3 DEF Better
<1>7. ~(Better(x, y) /\ Better(y, x))
  BY <1>1, <1>3 DEF Better
<1>8. x = y \/ Better(x, y) \/ Better(y, x)
  BY <1>1, <1>2, <1>4 DEF Better
<1> QED BY <1>5, <1>6, <1>7, <1>8

\* A finite set of candidates has a least one: the one fewest are better than.
LEMMA LeastExists ==
  ASSUME NEW n \in Nat, NEW C, C \subseteq PricedPaths(n), C # {}, IsFiniteSet(C)
  PROVE  Least(C) \in C /\ \A y \in C \ {Least(C)} : Better(Least(C), y)
<1> DEFINE Above(x) == {y \in C : Better(y, x)}
           Counts == {Cardinality(Above(x)) : x \in C}
<1>1. ASSUME NEW x \in C
      PROVE  IsFiniteSet(Above(x)) /\ Cardinality(Above(x)) \in Nat
  <2>1. IsFiniteSet(Above(x))
    BY FS_Subset
  <2> QED BY <2>1, FS_CardinalityType
<1>2. Counts \subseteq Nat /\ Counts # {}
  BY <1>1
<1>3. PICK m \in Counts : \A c \in Counts : m <= c
  BY <1>2, LeastOfSet
<1>4. PICK x \in C : m = Cardinality(Above(x))
  BY <1>3
<1>5. Above(x) = {}
  <2>1. SUFFICES ASSUME NEW y \in Above(x) PROVE FALSE
    OBVIOUS
  <2>2. y \in C /\ Better(y, x)
    BY <2>1
  <2>3. Above(y) \subseteq Above(x)
    BY <2>2, BetterIsOrder
  <2>4. y \notin Above(y)
    BY <2>2, BetterIsOrder
  <2>5. Above(y) # Above(x)
    BY <2>1, <2>4
  <2>6. Cardinality(Above(y)) < Cardinality(Above(x))
    <3>1. /\ IsFiniteSet(Above(x)) /\ Cardinality(Above(x)) \in Nat
          /\ Cardinality(Above(y)) \in Nat
      BY <1>1, <2>2
    <3> HIDE DEF Above
    <3>2. Above(y) \in SUBSET Above(x)
      BY <2>3
    <3>3. /\ Cardinality(Above(y)) <= Cardinality(Above(x))
          /\ Cardinality(Above(x)) = Cardinality(Above(y)) => Above(x) = Above(y)
      BY <3>1, <3>2, FS_Subset
    <3> QED BY <3>1, <2>5, <3>3
  <2>7. Cardinality(Above(y)) \in Counts
    BY <2>2
  <2>8. Cardinality(Above(y)) \in Nat /\ m \in Nat
    BY <1>1, <1>2, <2>2
  <2> HIDE DEF Above, Counts
  <2> QED BY <1>3, <1>4, <2>6, <2>7, <2>8
<1>6. \A y \in C \ {x} : Better(x, y)
  BY <1>5, BetterIsOrder
<1> QED BY <1>6 DEF Least

\* The running cost of a path: what the recursive function of CostOf computes.
CostRuns(c, p, o, n) ==
  c = [i \in 1 .. n |->
         IF i = 1 THEN 0 ELSE c[i - 1] + p[o[i - 1]][o[i]] + p[o[i]][o[i - 1]]]

LEMMA CostsExist ==
  ASSUME NEW p, NEW o, NEW n \in Nat, n > 0
  PROVE  \E c : CostRuns(c, p, o, n)
<1> DEFINE Bad == {m \in Nat : m > 0 /\ ~\E c : CostRuns(c, p, o, m)}
<1>1. SUFFICES ASSUME Bad # {} PROVE FALSE
  OBVIOUS
<1>2. PICK m \in Bad : \A k \in Bad : m <= k
  BY <1>1, LeastOfSet
<1>3. m \in Nat /\ m > 0 /\ ~\E c : CostRuns(c, p, o, m)
  OBVIOUS
<1>4. CASE m = 1
  <2> DEFINE g == [k \in 1 .. 1 |-> 0]
  <2>1. CostRuns(g, p, o, 1)
    BY DEF CostRuns
  <2> QED BY <2>1, <1>3, <1>4
<1>5. CASE m # 1
  <2>1. m - 1 \in Nat /\ m - 1 > 0 /\ m - 1 \notin Bad
    BY <1>2, <1>3, <1>5
  <2>2. PICK c : CostRuns(c, p, o, m - 1)
    BY <2>1
  <2>3. /\ DOMAIN c = 1 .. m - 1
        /\ \A i \in 1 .. m - 1 :
             c[i] = IF i = 1 THEN 0 ELSE c[i - 1] + p[o[i - 1]][o[i]] + p[o[i]][o[i - 1]]
    BY <2>2 DEF CostRuns
  <2> DEFINE last == c[m - 1] + p[o[m - 1]][o[m]] + p[o[m]][o[m - 1]]
             g == [i \in 1 .. m |-> IF i = m THEN last ELSE c[i]]
  <2>4. ASSUME NEW i \in 1 .. m
        PROVE  g[i] = IF i = 1 THEN 0 ELSE g[i - 1] + p[o[i - 1]][o[i]] + p[o[i]][o[i - 1]]
    <3>1. CASE i = m
      <4>1. g[i] = last /\ g[i - 1] = c[m - 1]
        BY <3>1, <1>3, <1>5
      <4> QED BY <3>1, <4>1, <1>5
    <3>2. CASE i # m /\ i # 1
      <4>1. g[i] = c[i] /\ g[i - 1] = c[i - 1] /\ i \in 1 .. m - 1
        BY <3>2, <1>3
      <4> QED BY <3>2, <4>1, <2>3
    <3>3. CASE i = 1
      <4>1. g[i] = c[i] /\ i \in 1 .. m - 1
        BY <3>3, <1>3, <1>5
      <4> QED BY <3>3, <4>1, <2>3
    <3> QED BY <3>1, <3>2, <3>3
  <2> HIDE DEF last
  <2>5. CostRuns(g, p, o, m)
    <3>1. g = [i \in 1 .. m |-> g[i]]
      OBVIOUS
    <3> HIDE DEF g
    <3> QED BY <2>4, <3>1 DEF CostRuns
  <2> QED BY <2>5, <1>3
<1> QED BY <1>4, <1>5

LEMMA CostOfIsRun ==
  ASSUME NEW p, NEW o, Len(o) \in Nat, Len(o) > 0
  PROVE  \E c : CostRuns(c, p, o, Len(o)) /\ CostOf(p, o) = c[Len(o)]
<1>1. \E c : CostRuns(c, p, o, Len(o))
  BY CostsExist
<1>2. CostRuns(CHOOSE c : CostRuns(c, p, o, Len(o)), p, o, Len(o))
  BY <1>1
<1>3. CostOf(p, o) = (CHOOSE c : CostRuns(c, p, o, Len(o)))[Len(o)]
  BY DEF CostOf, CostRuns
<1> QED BY <1>2, <1>3

\* Running costs are numbers, and the same along paths that begin alike.
LEMMA CostRunsAgree ==
  ASSUME NEW p \in Probes, NEW n \in Nat \ {0}, NEW m \in Nat, n <= m,
         NEW o \in [1 .. n -> DOMAIN p], NEW q, \A i \in 1 .. n : q[i] = o[i],
         NEW c, CostRuns(c, p, o, n), NEW d, CostRuns(d, p, q, m)
  PROVE  \A i \in 1 .. n : c[i] \in Nat /\ d[i] = c[i]
<1> DEFINE Bad == {i \in 1 .. n : ~(c[i] \in Nat /\ d[i] = c[i])}
<1>1. SUFFICES ASSUME Bad # {} PROVE FALSE
  OBVIOUS
<1>2. Bad \subseteq Nat
  OBVIOUS
<1>3. PICK i \in Bad : \A k \in Bad : i <= k
  BY <1>1, <1>2, LeastOfSet
<1>4. i \in 1 .. n /\ ~(c[i] \in Nat /\ d[i] = c[i])
  BY <1>3
<1>5. c[i] = IF i = 1 THEN 0 ELSE c[i - 1] + p[o[i - 1]][o[i]] + p[o[i]][o[i - 1]]
  BY <1>4 DEF CostRuns
<1>6. d[i] = IF i = 1 THEN 0 ELSE d[i - 1] + p[q[i - 1]][q[i]] + p[q[i]][q[i - 1]]
  BY <1>4 DEF CostRuns
<1>7. CASE i = 1
  BY <1>4, <1>5, <1>6, <1>7
<1>8. CASE i # 1
  <2>1. i - 1 \in 1 .. n /\ i - 1 \notin Bad
    BY <1>3, <1>4, <1>8
  <2>2. c[i - 1] \in Nat /\ d[i - 1] = c[i - 1]
    BY <2>1
  <2>3. q[i - 1] = o[i - 1] /\ q[i] = o[i] /\ o[i - 1] \in DOMAIN p /\ o[i] \in DOMAIN p
    BY <1>4, <2>1
  <2>4. p[o[i - 1]][o[i]] \in Nat /\ p[o[i]][o[i - 1]] \in Nat
    BY <2>3, ProbesAreSquare
  <2> QED BY <1>4, <1>5, <1>6, <1>8, <2>2, <2>3, <2>4
<1> QED BY <1>7, <1>8

LEMMA CostOfPath ==
  ASSUME NEW p \in Probes, NEW n \in Nat \ {0}, NEW o \in [1 .. n -> DOMAIN p]
  PROVE  /\ CostOf(p, o) \in Nat
         /\ n = 1 => CostOf(p, o) = 0
<1>1. o \in Seq(DOMAIN p) /\ Len(o) = n
  OBVIOUS
<1>2. PICK c : CostRuns(c, p, o, n) /\ CostOf(p, o) = c[n]
  BY <1>1, CostOfIsRun
<1>3. c[n] \in Nat
  BY <1>2, CostRunsAgree
<1>4. n = 1 => c[n] = 0
  BY <1>2 DEF CostRuns
<1> QED BY <1>2, <1>3, <1>4

LEMMA CostOfLonger ==
  ASSUME NEW p \in Probes, NEW n \in Nat \ {0}, NEW o \in [1 .. n -> DOMAIN p],
         NEW r \in DOMAIN p
  PROVE  CostOf(p, Append(o, r)) = CostOf(p, o) + RoundTrip(p, o[n], r)
<1> DEFINE q == Append(o, r)
<1>1. o \in Seq(DOMAIN p) /\ Len(o) = n
  OBVIOUS
<1>2. /\ Len(q) = n + 1 /\ q[n + 1] = r
      /\ \A i \in 1 .. n : q[i] = o[i]
  BY <1>1
<1> HIDE DEF q
<1>3. PICK c : CostRuns(c, p, o, n) /\ CostOf(p, o) = c[n]
  BY <1>1, CostOfIsRun
<1>4. PICK d : CostRuns(d, p, q, n + 1) /\ CostOf(p, q) = d[n + 1]
  BY <1>2, CostOfIsRun
<1>5. c[n] \in Nat /\ d[n] = c[n]
  BY <1>2, <1>3, <1>4, CostRunsAgree
<1>6. d[n + 1] = d[n] + p[q[n]][q[n + 1]] + p[q[n + 1]][q[n]]
  <2>1. n + 1 \in 1 .. n + 1 /\ n + 1 # 1 /\ (n + 1) - 1 = n
    OBVIOUS
  <2> QED BY <1>4, <2>1 DEF CostRuns
<1>7. q[n] = o[n] /\ o[n] \in DOMAIN p
  BY <1>2
<1>8. p[o[n]][r] \in Nat /\ p[r][o[n]] \in Nat
  BY <1>7, ProbesAreSquare
<1> QED BY <1>2, <1>3, <1>4, <1>5, <1>6, <1>7, <1>8 DEF q, RoundTrip

\* Every way through a mask is a path of its size, with a cost.
LEMMA WalksArePriced ==
  ASSUME NEW p \in Probes, NEW S \in Masks(p)
  PROVE  /\ S \subseteq DOMAIN p /\ IsFiniteSet(S) /\ Cardinality(S) \in Nat \ {0}
         /\ \A o \in Walks(p, S) :
              /\ o \in [1 .. Cardinality(S) -> DOMAIN p] /\ o \in [1 .. Cardinality(S) -> Nat]
              /\ Costed(p, o) \in PricedPaths(Cardinality(S))
<1>1. S \subseteq DOMAIN p /\ S # {} /\ DOMAIN p \subseteq Nat /\ IsFiniteSet(DOMAIN p)
  BY ProbesAreSquare DEF Masks
<1>2. IsFiniteSet(S)
  BY <1>1, FS_Subset
<1>3. Cardinality(S) \in Nat /\ Cardinality(S) # 0
  BY <1>1, <1>2, FS_CardinalityType, FS_EmptySet
<1>4. ASSUME NEW o \in Walks(p, S)
      PROVE  /\ o \in [1 .. Cardinality(S) -> DOMAIN p] /\ o \in [1 .. Cardinality(S) -> Nat]
             /\ Costed(p, o) \in PricedPaths(Cardinality(S))
  <2>1. o \in [1 .. Cardinality(S) -> S]
    BY DEF Walks
  <2>2. o \in [1 .. Cardinality(S) -> DOMAIN p] /\ o \in [1 .. Cardinality(S) -> Nat]
    BY <1>1, <2>1
  <2>3. CostOf(p, o) \in Nat
    BY <1>3, <2>2, CostOfPath
  <2> QED BY <2>2, <2>3 DEF Costed, PricedPaths
<1> QED BY <1>1, <1>2, <1>3, <1>4

LEMMA MaskGrows ==
  ASSUME NEW p \in Probes, NEW S \in Masks(p), NEW n \in DOMAIN p \ S
  PROVE  /\ S \cup {n} \in Masks(p)
         /\ Cardinality(S \cup {n}) = Cardinality(S) + 1
<1>1. IsFiniteSet(S)
  BY WalksArePriced
<1>2. Cardinality(S \cup {n}) = Cardinality(S) + 1
  BY <1>1, FS_AddElement
<1> QED BY <1>2 DEF Masks

\* q is the path o of n ranks and then r.
GoesOn(q, o, n, r, T) ==
  /\ q \in [1 .. n + 1 -> T] /\ q[n + 1] = r
  /\ \A i \in 1 .. n : q[i] = o[i]

LEMMA AppendGoesOn ==
  ASSUME NEW T, NEW n \in Nat, NEW o \in [1 .. n -> T], NEW r \in T
  PROVE  GoesOn(Append(o, r), o, n, r, T)
<1>1. o \in Seq(T) /\ Len(o) = n
  OBVIOUS
<1>2. PICK q : q = Append(o, r)
  OBVIOUS
<1>3. q \in Seq(T) /\ Len(q) = n + 1
  BY <1>1, <1>2
<1>4. q \in [1 .. n + 1 -> T]
  BY <1>3
<1>5. q[n + 1] = r /\ \A i \in 1 .. n : q[i] = o[i]
  BY <1>1, <1>2
<1> QED BY <1>2, <1>4, <1>5 DEF GoesOn

\* A way through S goes on over a link that works both ways.
LEMMA WalkGrows ==
  ASSUME NEW p \in Probes, NEW S \in Masks(p), NEW l \in S, NEW n \in DOMAIN p \ S,
         NEW o \in WalksTo(p, S, l), TwoWay(p, l, n)
  PROVE  /\ Append(o, n) \in WalksTo(p, S \cup {n}, n)
         /\ CostOf(p, Append(o, n)) = CostOf(p, o) + RoundTrip(p, l, n)
<1> DEFINE c == Cardinality(S)
           q == Append(o, n)
<1>1. c \in Nat \ {0} /\ o \in Walks(p, S) /\ o[c] = l /\ o \in [1 .. c -> DOMAIN p]
  BY WalksArePriced DEF WalksTo
<1>2. /\ o \in [1 .. c -> S]
      /\ \A a, b \in DOMAIN o : a # b => o[a] # o[b]
      /\ \A i \in 1 .. c - 1 : TwoWay(p, o[i], o[i + 1])
  BY <1>1 DEF Walks
<1>3. Cardinality(S \cup {n}) = c + 1
  BY MaskGrows
<1> HIDE DEF c
<1>4. o \in Seq(S) /\ Len(o) = c
  BY <1>1, <1>2
<1>5. /\ DOMAIN q = 1 .. c + 1 /\ q[c + 1] = n
      /\ \A i \in 1 .. c : q[i] = o[i]
      /\ q \in [1 .. c + 1 -> S \cup {n}]
  <2> DEFINE T == S \cup {n}
  <2>1. c \in Nat /\ o \in [1 .. c -> T] /\ n \in T
    BY <1>1, <1>2
  <2> HIDE DEF T
  <2>2. GoesOn(q, o, c, n, T)
    BY <2>1, AppendGoesOn
  <2> HIDE DEF q
  <2> QED BY <2>1, <2>2 DEF T, GoesOn
<1> HIDE DEF q
<1>6. ASSUME NEW a \in 1 .. c + 1, NEW b \in 1 .. c + 1, a # b PROVE q[a] # q[b]
  <2>1. CASE a = c + 1
    <3>1. b \in 1 .. c
      BY <2>1, <1>1, <1>6
    <3> QED BY <2>1, <3>1, <1>2, <1>5
  <2>2. CASE b = c + 1
    <3>1. a \in 1 .. c
      BY <2>2, <1>1, <1>6
    <3> QED BY <2>2, <3>1, <1>2, <1>5
  <2>3. CASE a # c + 1 /\ b # c + 1
    <3>1. a \in 1 .. c /\ b \in 1 .. c
      BY <2>3, <1>1
    <3> QED BY <3>1, <1>2, <1>5, <1>6
  <2> QED BY <2>1, <2>2, <2>3
<1>7. ASSUME NEW i \in 1 .. c PROVE TwoWay(p, q[i], q[i + 1])
  <2>1. CASE i = c
    BY <2>1, <1>1, <1>5
  <2>2. CASE i # c
    <3>1. i \in 1 .. c - 1 /\ i + 1 \in 1 .. c
      BY <2>2, <1>1
    <3> QED BY <3>1, <1>2, <1>5
  <2> QED BY <2>1, <2>2
<1>8. q \in Walks(p, S \cup {n})
  <2>1. (c + 1) - 1 = c
    BY <1>1
  <2> QED BY <1>3, <1>5, <1>6, <1>7, <2>1 DEF Walks
<1>9. q \in WalksTo(p, S \cup {n}, n)
  BY <1>3, <1>5, <1>8 DEF WalksTo
<1>10. CostOf(p, q) = CostOf(p, o) + RoundTrip(p, l, n)
  BY <1>1, CostOfLonger DEF q
<1> QED BY <1>9, <1>10 DEF q

\* A way through S and then n starts with one through S.
LEMMA WalkShrinks ==
  ASSUME NEW p \in Probes, NEW S \in Masks(p), NEW n \in DOMAIN p \ S,
         NEW q \in WalksTo(p, S \cup {n}, n)
  PROVE  \E l \in S : \E o \in WalksTo(p, S, l) : TwoWay(p, l, n) /\ q = Append(o, n)
<1> DEFINE c == Cardinality(S)
           o == [i \in 1 .. c |-> q[i]]
<1>1. c \in Nat \ {0}
  BY WalksArePriced
<1>2. Cardinality(S \cup {n}) = c + 1
  BY MaskGrows
<1>3. /\ q \in [1 .. c + 1 -> S \cup {n}] /\ q[c + 1] = n
      /\ \A a, b \in 1 .. c + 1 : a # b => q[a] # q[b]
      /\ \A i \in 1 .. (c + 1) - 1 : TwoWay(p, q[i], q[i + 1])
  BY <1>2 DEF WalksTo, Walks
<1>4. \A i \in 1 .. c : q[i] \in S
  <2>1. ASSUME NEW i \in 1 .. c PROVE q[i] \in S
    <3>1. i \in 1 .. c + 1 /\ c + 1 \in 1 .. c + 1 /\ i # c + 1
      BY <1>1
    <3>2. q[i] # q[c + 1] /\ q[i] \in S \cup {n}
      BY <1>3, <3>1
    <3> QED BY <1>3, <3>2
  <2> QED BY <2>1
<1>5. o \in Walks(p, S)
  <2>1. o \in [1 .. c -> S]
    BY <1>4
  <2>2. ASSUME NEW a \in 1 .. c, NEW b \in 1 .. c, a # b PROVE o[a] # o[b]
    <3>1. a \in 1 .. c + 1 /\ b \in 1 .. c + 1
      BY <1>1
    <3> QED BY <2>2, <3>1, <1>3
  <2>3. ASSUME NEW i \in 1 .. c - 1 PROVE TwoWay(p, o[i], o[i + 1])
    <3>1. i \in 1 .. c /\ i + 1 \in 1 .. c /\ i \in 1 .. (c + 1) - 1
      BY <1>1
    <3>2. o[i] = q[i] /\ o[i + 1] = q[i + 1]
      BY <3>1
    <3> QED BY <3>1, <3>2, <1>3
  <2> HIDE DEF o
  <2> QED BY <2>1, <2>2, <2>3 DEF Walks
<1>6. o \in WalksTo(p, S, o[c])
  BY <1>5 DEF WalksTo
<1>7. c \in 1 .. c /\ o[c] = q[c] /\ o[c] \in S
  BY <1>1, <1>4
<1>8. TwoWay(p, o[c], n)
  <2>1. c \in 1 .. (c + 1) - 1
    BY <1>1
  <2> QED BY <2>1, <1>3, <1>7
<1>9. q = Append(o, n)
  <2> DEFINE T == S \cup {n}
  <2>1. c \in Nat /\ o \in [1 .. c -> T] /\ n \in T
    BY <1>1, <1>4
  <2>2. PICK a : a = Append(o, n)
    OBVIOUS
  <2> HIDE DEF o, T
  <2>3. GoesOn(a, o, c, n, T)
    BY <2>1, <2>2, AppendGoesOn
  <2>6. /\ a \in [1 .. c + 1 -> T] /\ a[c + 1] = n
        /\ \A i \in 1 .. c : a[i] = o[i]
    BY <2>3 DEF GoesOn
  <2>4. ASSUME NEW i \in 1 .. c + 1 PROVE q[i] = a[i]
    <3>1. i = c + 1 \/ i \in 1 .. c
      BY <1>1
    <3>2. i \in 1 .. c => o[i] = q[i]
      BY DEF o
    <3> QED BY <3>1, <3>2, <1>3, <2>6
  <2>5. q = a
    <3>1. q \in [1 .. c + 1 -> T]
      BY <1>3 DEF T
    <3>2. q = [i \in 1 .. c + 1 |-> q[i]] /\ a = [i \in 1 .. c + 1 |-> a[i]]
      BY <2>6, <3>1
    <3> QED BY <2>4, <3>2, Zenon
  <2> QED BY <2>2, <2>5
<1> QED BY <1>6, <1>7, <1>8, <1>9

LEMMA SmallerPathGrows ==
  ASSUME NEW n \in Nat, NEW o \in [1 .. n -> Nat], NEW q \in [1 .. n -> Nat], NEW r \in Nat
  PROVE  SmallerPath(o, q) => SmallerPath(Append(o, r), Append(q, r))
<1>1. /\ o \in Seq(Nat) /\ Len(o) = n /\ q \in Seq(Nat) /\ Len(q) = n
  OBVIOUS
<1>2. /\ DOMAIN Append(o, r) = 1 .. n + 1
      /\ \A i \in 1 .. n : Append(o, r)[i] = o[i] /\ Append(q, r)[i] = q[i]
  BY <1>1
<1>3. SUFFICES ASSUME SmallerPath(o, q) PROVE SmallerPath(Append(o, r), Append(q, r))
  OBVIOUS
<1>4. PICK i \in 1 .. n : o[i] < q[i] /\ \A k \in 1 .. i - 1 : o[k] = q[k]
  BY <1>3 DEF SmallerPath
<1>5. Append(o, r)[i] < Append(q, r)[i] /\ i \in DOMAIN Append(o, r)
  BY <1>2, <1>4
<1>6. \A k \in 1 .. i - 1 : Append(o, r)[k] = Append(q, r)[k]
  BY <1>2, <1>4
<1> QED BY <1>5, <1>6 DEF SmallerPath

LEMMA ValuesAreFinite ==
  ASSUME NEW S, IsFiniteSet(S), NEW f
  PROVE  IsFiniteSet({f[x] : x \in S})
<1> DEFINE T == {f[x] : x \in S}
           g == [x \in S |-> f[x]]
<1>1. g \in Surjection(S, T)
  BY DEF Surjection
<1> HIDE DEF g, T
<1>2. IsFiniteSet(T)
  BY <1>1, FS_Surjection
<1> QED BY <1>2 DEF T

LEMMA EntriesAreCheapest ==
  ASSUME NEW p \in Probes, NEW left, NEW b, OrderSearchFits(p, left, b),
         NEW S, NEW l, <<S, l>> \in DOMAIN b
  PROVE  S \in Masks(p) /\ l \in S /\ IsCheapest(p, S, l, b[<<S, l>>])
<1>0. PICK T \in Masks(p) : \E r \in T : <<S, l>> = <<T, r>> /\ IsCheapest(p, T, r, b[<<S, l>>])
  BY DEF OrderSearchFits
<1>1. PICK r \in T : <<S, l>> = <<T, r>> /\ IsCheapest(p, T, r, b[<<S, l>>])
  BY <1>0
<1>2. S = T /\ l = r
  BY <1>1
<1> QED BY <1>1, <1>2

\* What the search makes of the best ways through S when n comes next.
OneMore(p, b, S, l, n) ==
  [cost |-> b[<<S, l>>].cost + RoundTrip(p, l, n), path |-> Append(b[<<S, l>>].path, n)]
Grown(p, b, S, n) ==
  {OneMore(p, b, S, l, n) : l \in {r \in DOMAIN p : <<S, r>> \in DOMAIN b /\ TwoWay(p, r, n)}}

LEMMA OneMoreIsWalk ==
  ASSUME NEW p \in Probes, NEW left, NEW b, OrderSearchFits(p, left, b),
         NEW S \in Masks(p), NEW n \in DOMAIN p \ S,
         NEW l, <<S, l>> \in DOMAIN b, TwoWay(p, l, n)
  PROVE  /\ OneMore(p, b, S, l, n).path \in WalksTo(p, S \cup {n}, n)
         /\ OneMore(p, b, S, l, n) = Costed(p, OneMore(p, b, S, l, n).path)
         /\ OneMore(p, b, S, l, n) \in PricedPaths(Cardinality(S) + 1)
<1> DEFINE x == b[<<S, l>>]
           e == OneMore(p, b, S, l, n)
           U == S \cup {n}
<1>1. l \in S /\ IsCheapest(p, S, l, x)
  BY EntriesAreCheapest
<1>2. x.path \in WalksTo(p, S, l) /\ x = Costed(p, x.path)
  BY <1>1 DEF IsCheapest
<1>3. x.cost = CostOf(p, x.path)
  BY <1>2 DEF Costed
<1>4. e.cost = x.cost + RoundTrip(p, l, n) /\ e.path = Append(x.path, n)
  BY DEF OneMore
<1>5. e = [cost |-> e.cost, path |-> e.path]
  BY DEF OneMore
<1> HIDE DEF x, e
<1>6. e.path \in WalksTo(p, U, n) /\ e.cost = CostOf(p, e.path)
  BY <1>1, <1>2, <1>3, <1>4, WalkGrows
<1>7. e = Costed(p, e.path)
  BY <1>5, <1>6 DEF Costed
<1>8. U \in Masks(p) /\ Cardinality(U) = Cardinality(S) + 1
  BY MaskGrows
<1>9. e.path \in Walks(p, U)
  BY <1>6 DEF WalksTo
<1>10. e \in PricedPaths(Cardinality(S) + 1)
  <2> HIDE DEF U
  <2>1. Costed(p, e.path) \in PricedPaths(Cardinality(U))
    BY <1>8, <1>9, WalksArePriced
  <2> QED BY <1>7, <1>8, <2>1
<1> QED BY <1>6, <1>7, <1>10 DEF e

\* The least of them is the cheapest way through S and n.
LEMMA LeastOfGrown ==
  ASSUME NEW p \in Probes, NEW left, NEW b, OrderSearchFits(p, left, b),
         NEW S \in Masks(p), NEW n \in DOMAIN p \ S, Grown(p, b, S, n) # {},
         \A l \in S : WalksTo(p, S, l) # {} => <<S, l>> \in DOMAIN b
  PROVE  IsCheapest(p, S \cup {n}, n, Least(Grown(p, b, S, n)))
<1> DEFINE G == Grown(p, b, S, n)
           From == {r \in DOMAIN p : <<S, r>> \in DOMAIN b /\ TwoWay(p, r, n)}
           m == Cardinality(S) + 1
           U == S \cup {n}
           e(l) == OneMore(p, b, S, l, n)
           x == Least(G)
<1>1. \A y \in G : \E l \in From : y = e(l)
  BY DEF Grown
<1>2. \A l \in From : e(l) \in G
  BY DEF Grown
<1>3. \A l \in From :
        e(l).path \in WalksTo(p, U, n) /\ e(l) = Costed(p, e(l).path) /\ e(l) \in PricedPaths(m)
  BY OneMoreIsWalk
<1>4. IsFiniteSet(G)
  <2>1. IsFiniteSet(DOMAIN p) /\ From \subseteq DOMAIN p
    BY ProbesAreSquare
  <2>2. IsFiniteSet(From)
    BY <2>1, FS_Subset
  <2> DEFINE f == [l \in From |-> e(l)]
  <2>3. G = {f[l] : l \in From}
    BY DEF Grown
  <2> HIDE DEF From, G, f
  <2> QED BY <2>2, <2>3, ValuesAreFinite
<1>5. Cardinality(S) \in Nat /\ m \in Nat /\ S \subseteq DOMAIN p /\ DOMAIN p \subseteq Nat
  BY WalksArePriced, ProbesAreSquare
<1>6. G \subseteq PricedPaths(m) /\ G # {}
  <2> HIDE DEF From, e, m, G
  <2>1. G \subseteq PricedPaths(m)
    BY <1>1, <1>3
  <2>2. G # {}
    BY DEF G
  <2> QED BY <2>1, <2>2
<1>7. x \in G /\ \A y \in G \ {x} : Better(x, y)
  <2> HIDE DEF G, m
  <2> QED BY <1>4, <1>5, <1>6, LeastExists
<1> HIDE DEF G, From, x, e
<1>8. x.path \in WalksTo(p, U, n) /\ x = Costed(p, x.path) /\ x \in PricedPaths(m)
  BY <1>1, <1>3, <1>7
<1>9. ASSUME NEW q \in WalksTo(p, U, n) PROVE q = x.path \/ Better(x, Costed(p, q))
  <2>0. PICK l \in S : \E o \in WalksTo(p, S, l) : TwoWay(p, l, n) /\ q = Append(o, n)
    BY WalkShrinks
  <2>1. PICK o \in WalksTo(p, S, l) : TwoWay(p, l, n) /\ q = Append(o, n)
    BY <2>0
  <2>2. <<S, l>> \in DOMAIN b /\ l \in DOMAIN p
    BY <1>5, <2>1
  <2> DEFINE y == b[<<S, l>>]
             z == Costed(p, q)
  <2>3. l \in From
    BY <2>1, <2>2 DEF From
  <2>4. IsCheapest(p, S, l, y)
    BY <2>2, EntriesAreCheapest
  <2>5. e(l).cost = y.cost + RoundTrip(p, l, n) /\ e(l).path = Append(y.path, n)
    BY DEF e, OneMore
  <2> HIDE DEF y
  <2>6. /\ y.path \in WalksTo(p, S, l) /\ y = Costed(p, y.path)
        /\ o = y.path \/ Better(y, Costed(p, o))
    BY <2>4 DEF IsCheapest
  <2>7. /\ y.path \in [1 .. Cardinality(S) -> Nat] /\ o \in [1 .. Cardinality(S) -> Nat]
        /\ Costed(p, y.path) \in PricedPaths(Cardinality(S))
        /\ Costed(p, o) \in PricedPaths(Cardinality(S))
    BY <2>1, <2>6, WalksArePriced DEF WalksTo
  <2>8. /\ CostOf(p, o) \in Nat /\ y.cost \in Nat
        /\ Costed(p, o).cost = CostOf(p, o) /\ Costed(p, o).path = o
        /\ z.cost = CostOf(p, q) /\ z.path = q
    BY <2>6, <2>7 DEF Costed, PricedPaths
  <2>9. CostOf(p, q) = CostOf(p, o) + RoundTrip(p, l, n)
    BY <2>1, WalkGrows
  <2>10. RoundTrip(p, l, n) \in Nat
    BY <2>2, ProbesAreSquare DEF RoundTrip
  <2>11. q \in Walks(p, U)
    BY DEF WalksTo
  <2>12. z \in PricedPaths(m)
    <3>1. U \in Masks(p) /\ Cardinality(U) = m
      BY MaskGrows
    <3> HIDE DEF U, m
    <3> QED BY <3>1, <2>11, WalksArePriced
  <2>13. e(l) \in PricedPaths(m) /\ e(l) = Costed(p, e(l).path) /\ e(l) \in G
    BY <1>2, <1>3, <2>3
  <2> HIDE DEF z
  <2>14. e(l) = z \/ Better(e(l), z)
    <3>1. CASE o = y.path
      <4>1. e(l).path = q
        BY <2>1, <2>5, <3>1
      <4> QED BY <2>13, <4>1 DEF z
    <3>2. CASE Better(y, Costed(p, o))
      <4>1. \/ y.cost < CostOf(p, o)
            \/ y.cost = CostOf(p, o) /\ SmallerPath(y.path, o)
        BY <3>2, <2>8 DEF Better
      <4>2. SmallerPath(y.path, o) => SmallerPath(e(l).path, q)
        BY <1>5, <2>1, <2>5, <2>7, SmallerPathGrows
      <4>3. z.cost = CostOf(p, o) + RoundTrip(p, l, n) /\ z.path = q
        BY <2>8, <2>9
      <4> QED BY <4>1, <4>2, <4>3, <2>5, <2>8, <2>10 DEF Better
    <3> QED BY <3>1, <3>2, <2>6
  <2>15. x = z \/ Better(x, z)
    <3>1. x = e(l) \/ Better(x, e(l))
      BY <1>7, <2>13
    <3> HIDE DEF m
    <3> QED BY <3>1, <2>14, <1>5, <1>8, <2>12, <2>13, BetterIsOrder
  <2>16. x = z => x.path = q
    BY <2>8
  <2> QED BY <2>15, <2>16 DEF z
<1> QED BY <1>8, <1>9 DEF IsCheapest, x, G

\* The search starts with paths of one rank.
LEMMA OrderSearchStarts ==
  ASSUME NEW p \in Probes
  PROVE  OrderSearchFits(p, Masks(p), StartOf(p))
<1> DEFINE b == StartOf(p)
<1>1. /\ DOMAIN b = {<<{r}, r>> : r \in DOMAIN p}
      /\ \A r \in DOMAIN p : b[<<{r}, r>>] = [cost |-> 0, path |-> <<r>>]
  BY DEF StartOf
<1> HIDE DEF b
<1>2. ASSUME NEW r \in DOMAIN p
      PROVE  {r} \in Masks(p) /\ IsCheapest(p, {r}, r, b[<<{r}, r>>])
  <2> DEFINE x == b[<<{r}, r>>]
  <2>1. {r} \in Masks(p)
    BY DEF Masks
  <2>2. x.cost = 0 /\ x.path = <<r>> /\ x = [cost |-> 0, path |-> <<r>>]
    BY <1>1
  <2> HIDE DEF x
  <2>3. Cardinality({r}) = 1
    BY FS_Singleton
  <2>4. <<r>> \in [1 .. 1 -> {r}] /\ <<r>>[1] = r /\ DOMAIN <<r>> = 1 .. 1
    OBVIOUS
  <2>5. <<r>> \in Walks(p, {r})
    <3>1. \A a, c \in 1 .. 1 : a = c
      OBVIOUS
    <3>2. 1 .. 1 - 1 = {}
      OBVIOUS
    <3> QED BY <2>3, <2>4, <3>1, <3>2 DEF Walks
  <2>6. <<r>> \in WalksTo(p, {r}, r)
    BY <2>3, <2>4, <2>5 DEF WalksTo
  <2>7. CostOf(p, <<r>>) = 0
    <3>1. <<r>> \in [1 .. 1 -> DOMAIN p] /\ 1 \in Nat \ {0}
      OBVIOUS
    <3> QED BY <3>1, CostOfPath
  <2>8. ASSUME NEW q \in WalksTo(p, {r}, r) PROVE q = <<r>>
    <3>1. q \in [1 .. 1 -> {r}]
      BY <2>3 DEF WalksTo, Walks
    <3> QED BY <3>1
  <2>9. x = Costed(p, x.path)
    BY <2>2, <2>7 DEF Costed
  <2>10. IsCheapest(p, {r}, r, x)
    BY <2>2, <2>6, <2>8, <2>9 DEF IsCheapest
  <2> QED BY <2>1, <2>10 DEF x
<1>3. \A k \in DOMAIN b : \E S \in Masks(p) : \E r \in S : k = <<S, r>> /\ IsCheapest(p, S, r, b[k])
  <2> SUFFICES ASSUME NEW k \in DOMAIN b
               PROVE  \E S \in Masks(p) : \E r \in S : k = <<S, r>> /\ IsCheapest(p, S, r, b[k])
    OBVIOUS
  <2>1. PICK r \in DOMAIN p : k = <<{r}, r>>
    BY <1>1
  <2>2. {r} \in Masks(p) /\ IsCheapest(p, {r}, r, b[k]) /\ r \in {r}
    BY <1>2, <2>1
  <2> QED BY <2>1, <2>2
<1>4. ASSUME NEW S \in Masks(p), NEW r \in S, S \ {r} \notin Masks(p)
      PROVE  <<S, r>> \in DOMAIN b
  <2>1. S \subseteq DOMAIN p /\ S \ {r} = {}
    BY <1>4 DEF Masks
  <2>2. S = {r} /\ r \in DOMAIN p
    BY <2>1
  <2> QED BY <1>1, <2>2
<1>5. OrderSearchFits(p, Masks(p), b)
  BY <1>3, <1>4 DEF OrderSearchFits
<1> QED BY <1>5 DEF b

\* What is best when the mask S has been extended.
ReachedFrom(p, b, S) == {n \in DOMAIN p \ S : Grown(p, b, S, n) # {}}
BestWhenExtended(p, b, S) ==
  [k \in DOMAIN b \cup {<<S \cup {n}, n>> : n \in ReachedFrom(p, b, S)} |->
     IF k \in DOMAIN b THEN b[k] ELSE Least(Grown(p, b, S, k[2]))]

\* The paths through S with one rank less have been extended before S.
LEMMA OrderSearchStep ==
  ASSUME NEW p \in Probes, NEW left, NEW b, OrderSearchFits(p, left, b),
         NEW S \in left, \A T \in left \ {S} : Precedes(S, T)
  PROVE  OrderSearchFits(p, left \ {S}, BestWhenExtended(p, b, S))
<1> DEFINE d == BestWhenExtended(p, b, S)
           New == {<<S \cup {n}, n>> : n \in ReachedFrom(p, b, S)}
<1>1. left \subseteq Masks(p) /\ S \in Masks(p)
  BY DEF OrderSearchFits
<1>2. ASSUME NEW l \in S, WalksTo(p, S, l) # {} PROVE <<S, l>> \in DOMAIN b
  <2>1. ~Precedes(S, S \ {l})
    BY DEF Precedes
  <2>2. S \ {l} \notin left
    BY <2>1
  <2> QED BY <1>1, <1>2, <2>2 DEF OrderSearchFits
<1>3. /\ DOMAIN d = DOMAIN b \cup New
      /\ \A k \in DOMAIN d : d[k] = IF k \in DOMAIN b THEN b[k] ELSE Least(Grown(p, b, S, k[2]))
  BY DEF BestWhenExtended
<1> HIDE DEF d
<1>4. ASSUME NEW k \in DOMAIN d
      PROVE  \E T \in Masks(p) : \E r \in T : k = <<T, r>> /\ IsCheapest(p, T, r, d[k])
  <2>1. CASE k \in DOMAIN b
    <3>1. d[k] = b[k]
      BY <1>3, <2>1
    <3> QED BY <2>1, <3>1 DEF OrderSearchFits
  <2>2. CASE k \notin DOMAIN b
    <3>1. PICK n \in ReachedFrom(p, b, S) : k = <<S \cup {n}, n>>
      BY <1>3, <2>2
    <3>2. n \in DOMAIN p \ S /\ Grown(p, b, S, n) # {}
      BY DEF ReachedFrom
    <3>3. d[k] = Least(Grown(p, b, S, n))
      BY <1>3, <2>2, <3>1
    <3>4. IsCheapest(p, S \cup {n}, n, d[k])
      BY <1>1, <1>2, <3>2, <3>3, LeastOfGrown
    <3>5. S \cup {n} \in Masks(p)
      BY <1>1, <3>2, MaskGrows
    <3>6. n \in S \cup {n}
      OBVIOUS
    <3> QED BY <3>1, <3>4, <3>5, <3>6
  <2> QED BY <2>1, <2>2
<1>5. ASSUME NEW T \in Masks(p), NEW r \in T, T \ {r} \notin left \ {S}, WalksTo(p, T, r) # {}
      PROVE  <<T, r>> \in DOMAIN d
  <2>1. CASE T \ {r} \notin left
    BY <1>3, <1>5, <2>1 DEF OrderSearchFits
  <2>2. CASE T \ {r} = S
    <3>1. T = S \cup {r} /\ r \in DOMAIN p \ S
      BY <2>2 DEF Masks
    <3>2. PICK q : q \in WalksTo(p, S \cup {r}, r)
      BY <1>5, <3>1
    <3>3. PICK l \in S : \E o \in WalksTo(p, S, l) : TwoWay(p, l, r) /\ q = Append(o, r)
      BY <1>1, <3>1, <3>2, WalkShrinks
    <3>4. <<S, l>> \in DOMAIN b /\ TwoWay(p, l, r) /\ l \in DOMAIN p
      BY <1>1, <1>2, <3>3 DEF Masks
    <3>5. OneMore(p, b, S, l, r) \in Grown(p, b, S, r)
      BY <3>4 DEF Grown
    <3>6. r \in ReachedFrom(p, b, S)
      BY <3>1, <3>5 DEF ReachedFrom
    <3> QED BY <1>3, <3>1, <3>6
  <2> QED BY <1>5, <2>1, <2>2
<1>6. OrderSearchFits(p, left \ {S}, d)
  BY <1>1, <1>4, <1>5 DEF OrderSearchFits
<1> QED BY <1>6 DEF d

\* The orders of a profile are the ways through all of its ranks.
LEMMA OrdersAreWalks ==
  ASSUME NEW p \in Probes
  PROVE  /\ DOMAIN p \in Masks(p) /\ OrdersOf(p) = Walks(p, DOMAIN p)
         /\ Cardinality(DOMAIN p) = Len(p) /\ Len(p) \in Nat \ {0} /\ DOMAIN p = 1 .. Len(p)
<1>1. Len(p) \in Nat /\ Len(p) >= 2 /\ DOMAIN p = 1 .. Len(p) /\ Cardinality(DOMAIN p) = Len(p)
  BY ProbesAreSquare
<1>2. DOMAIN p \in Masks(p)
  <2>1. 1 \in DOMAIN p
    BY <1>1
  <2> QED BY <2>1 DEF Masks
<1>3. OrdersOf(p) = Walks(p, DOMAIN p)
  <2>1. ASSUME NEW o \in [1 .. Len(p) -> DOMAIN p]
        PROVE  o \in OrdersOf(p) <=> o \in Walks(p, DOMAIN p)
    <3>1. DOMAIN o = DOMAIN p
      BY <1>1
    <3> QED BY <1>1, <3>1 DEF OrdersOf, Walks, TwoWay
  <2>2. /\ \A o \in OrdersOf(p) : o \in [1 .. Len(p) -> DOMAIN p]
        /\ \A o \in Walks(p, DOMAIN p) : o \in [1 .. Len(p) -> DOMAIN p]
    BY <1>1 DEF OrdersOf, Walks
  <2> QED BY <2>1, <2>2
<1> QED BY <1>1, <1>2, <1>3

LEMMA BestOrderIsOne ==
  ASSUME NEW p \in Probes, NEW o, BestOrder(p, o), NEW q, BestOrder(p, q)
  PROVE  o = q
<1>1. o \in OrdersOf(p) /\ q \in OrdersOf(p)
  BY DEF BestOrder
<1>2. /\ o \in [1 .. Len(p) -> DOMAIN p] /\ q \in [1 .. Len(p) -> DOMAIN p]
      /\ o \in [1 .. Len(p) -> Nat] /\ q \in [1 .. Len(p) -> Nat] /\ Len(p) \in Nat \ {0}
  BY <1>1, OrdersAreWalks, WalksArePriced
<1>3. CostOf(p, o) \in Nat /\ CostOf(p, q) \in Nat
  BY <1>2, CostOfPath
<1>4. ~SmallerPath(o, q) /\ ~SmallerPath(q, o)
  BY <1>1, <1>3 DEF BestOrder
<1> QED BY <1>2, <1>4, SmallerPathIsOrder

\* When no mask is left: the complete paths, and the least of them.
CompleteIn(p, b) == {b[<<DOMAIN p, r>>] : r \in {r \in DOMAIN p : <<DOMAIN p, r>> \in DOMAIN b}}

LEMMA OrderSearchEnds ==
  ASSUME NEW p \in Probes, NEW b, OrderSearchFits(p, {}, b)
  PROVE  /\ CompleteIn(p, b) = {} => OrdersOf(p) = {}
         /\ CompleteIn(p, b) # {} => BestOrder(p, Least(CompleteIn(p, b)).path)
<1> DEFINE N == DOMAIN p
           n == Len(p)
           Enders == {r \in N : <<N, r>> \in DOMAIN b}
           F == CompleteIn(p, b)
           x == Least(F)
<1>1. N \in Masks(p) /\ OrdersOf(p) = Walks(p, N) /\ Cardinality(N) = n /\ n \in Nat \ {0}
  BY OrdersAreWalks
<1>2. ASSUME NEW o \in OrdersOf(p)
      PROVE  o[n] \in Enders /\ o \in WalksTo(p, N, o[n]) /\ Costed(p, o) \in PricedPaths(n)
  <2>1. o \in Walks(p, N) /\ o \in WalksTo(p, N, o[n])
    BY <1>1 DEF WalksTo
  <2>2. o \in [1 .. n -> N] /\ Costed(p, o) \in PricedPaths(n)
    BY <1>1, <2>1, WalksArePriced
  <2>3. o[n] \in N
    BY <1>1, <2>2
  <2>4. <<N, o[n]>> \in DOMAIN b
    BY <1>1, <2>1, <2>3 DEF OrderSearchFits
  <2> QED BY <2>1, <2>2, <2>3, <2>4
<1>3. F = {b[<<N, r>>] : r \in Enders}
  BY DEF CompleteIn
<1>4. ASSUME NEW r \in Enders
      PROVE  /\ IsCheapest(p, N, r, b[<<N, r>>]) /\ b[<<N, r>>] \in PricedPaths(n)
             /\ b[<<N, r>>].path \in OrdersOf(p)
             /\ b[<<N, r>>] = Costed(p, b[<<N, r>>].path)
  <2>1. IsCheapest(p, N, r, b[<<N, r>>])
    BY EntriesAreCheapest
  <2>2. /\ b[<<N, r>>].path \in OrdersOf(p)
        /\ b[<<N, r>>] = Costed(p, b[<<N, r>>].path)
    BY <1>1, <2>1 DEF IsCheapest, WalksTo
  <2> QED BY <1>2, <2>1, <2>2
<1>5. F = {} => OrdersOf(p) = {}
  BY <1>2, <1>3
<1>6. ASSUME F # {} PROVE BestOrder(p, x.path)
  <2>1. IsFiniteSet(F)
    <3>1. IsFiniteSet(N) /\ Enders \subseteq N
      BY ProbesAreSquare
    <3>2. IsFiniteSet(Enders)
      BY <3>1, FS_Subset
    <3> DEFINE f == [r \in Enders |-> b[<<N, r>>]]
    <3>3. F = {f[r] : r \in Enders}
      BY <1>3
    <3> HIDE DEF Enders, F, f
    <3> QED BY <3>2, <3>3, ValuesAreFinite
  <2>2. F \subseteq PricedPaths(n)
    <3> HIDE DEF Enders, F
    <3> QED BY <1>3, <1>4
  <2>3. x \in F /\ \A y \in F \ {x} : Better(x, y)
    <3> HIDE DEF F
    <3> QED BY <1>1, <1>6, <2>1, <2>2, LeastExists
  <2> HIDE DEF F, x, Enders
  <2>4. x.path \in OrdersOf(p) /\ x = Costed(p, x.path) /\ x \in PricedPaths(n)
    BY <1>3, <1>4, <2>3
  <2>5. ASSUME NEW q \in OrdersOf(p)
        PROVE  \/ CostOf(p, x.path) < CostOf(p, q)
               \/ CostOf(p, x.path) = CostOf(p, q) /\ ~SmallerPath(q, x.path)
    <3> DEFINE y == b[<<N, q[n]>>]
               z == Costed(p, q)
    <3>1. q[n] \in Enders /\ q \in WalksTo(p, N, q[n]) /\ z \in PricedPaths(n)
      BY <1>2
    <3>2. IsCheapest(p, N, q[n], y) /\ y \in PricedPaths(n) /\ y = Costed(p, y.path) /\ y \in F
      BY <1>3, <1>4, <3>1
    <3> HIDE DEF y
    <3>3. q = y.path \/ Better(y, z)
      BY <3>1, <3>2 DEF IsCheapest
    <3>4. y = z \/ Better(y, z)
      BY <3>2, <3>3
    <3>5. x = y \/ Better(x, y)
      BY <2>3, <3>2
    <3>6. z.cost = CostOf(p, q) /\ z.path = q
      BY DEF Costed
    <3>7. x.cost = CostOf(p, x.path)
      BY <2>4 DEF Costed
    <3> HIDE DEF z
    <3>8. x = z \/ Better(x, z)
      BY <1>1, <2>4, <3>1, <3>2, <3>4, <3>5, BetterIsOrder
    <3>9. x.path \in [1 .. n -> Nat] /\ q \in [1 .. n -> Nat]
      BY <2>4, <3>1, <3>6 DEF PricedPaths
    <3>10. /\ ~SmallerPath(q, q)
           /\ ~(SmallerPath(x.path, q) /\ SmallerPath(q, x.path))
      BY <1>1, <3>9, SmallerPathIsOrder
    <3>11. CASE x = z
      BY <3>6, <3>7, <3>10, <3>11
    <3>12. CASE Better(x, z)
      BY <3>6, <3>7, <3>10, <3>12 DEF Better
    <3> QED BY <3>8, <3>11, <3>12
  <2> QED BY <2>4, <2>5 DEF BestOrder
<1> QED BY <1>5, <1>6

\* A launch file that says what is best for its own profile.
IsDerived(m) == BestOrder(m.profile, m.order) /\ m = ManifestOf(m.profile, m.order)

PlanInv ==
  /\ probe \in Probes
  /\ launching \in {"building", "written", "validating", "accepted", "refused"}
  /\ edited \in BOOLEAN
  /\ OrderSearchFits(probe, masks, best)
  /\ launching = "building" => ~edited
  /\ launching \in {"written", "validating"} =>
       "profile" \in DOMAIN manifest /\ manifest.profile \in Probes
  /\ launching = "validating" => probe = manifest.profile
  /\ launching \in {"written", "validating"} /\ ~edited => IsDerived(manifest)
  /\ launching = "accepted" => IsDerived(manifest)
  /\ launching = "refused" /\ ~edited => OrdersOf(probe) = {}

LEMMA PlanStarts == PlanInit => PlanInv
<1> SUFFICES ASSUME PlanInit PROVE PlanInv
  OBVIOUS
<1>1. probe \in Probes /\ masks = Masks(probe) /\ best = StartOf(probe)
  BY DEF PlanInit
<1>2. OrderSearchFits(probe, masks, best)
  BY <1>1, OrderSearchStarts
<1> QED BY <1>1, <1>2 DEF PlanInit, PlanInv

LEMMA CompleteIsFound == Complete = CompleteIn(probe, best)
BY DEF Complete, CompleteIn, Measured

LEMMA DerivedFromBest ==
  ASSUME NEW p \in Probes, NEW o, BestOrder(p, o)
  PROVE  /\ IsDerived(ManifestOf(p, o)) /\ ManifestOf(p, o).profile = p
         /\ "profile" \in DOMAIN ManifestOf(p, o)
<1>1. ManifestOf(p, o).profile = p /\ ManifestOf(p, o).order = o
  BY DEF ManifestOf
<1>2. "profile" \in DOMAIN ManifestOf(p, o)
  BY DEF ManifestOf
<1>3. IsDerived(ManifestOf(p, o))
  BY <1>1 DEF IsDerived
<1> QED BY <1>1, <1>2, <1>3

LEMMA ExtendMaskKeeps ==
  ASSUME PlanInv, ExtendMask
  PROVE  PlanInv'
<1>1. PICK S \in masks :
        /\ \A T \in masks \ {S} : Precedes(S, T)
        /\ masks' = masks \ {S}
        /\ best' = [k \in DOMAIN best \cup {<<S \cup {n}, n>> : n \in Reached(S)} |->
                      IF k \in DOMAIN best THEN best[k] ELSE Least(Extensions(S, k[2]))]
  BY DEF ExtendMask
<1>2. probe \in Probes /\ OrderSearchFits(probe, masks, best)
  BY DEF PlanInv
<1>3. \A n : Extensions(S, n) = Grown(probe, best, S, n)
  BY DEF Extensions, Grown, OneMore, Measured, Linked, TwoWay, Edge, RoundTrip
<1>4. Reached(S) = ReachedFrom(probe, best, S)
  BY <1>3 DEF Reached, ReachedFrom, Measured
<1>5. best' = BestWhenExtended(probe, best, S)
  BY <1>1, <1>3, <1>4 DEF BestWhenExtended
<1>6. OrderSearchFits(probe, masks', best')
  BY <1>1, <1>2, <1>5, OrderSearchStep
<1>7. UNCHANGED <<probe, manifest, edited, launching>>
  BY DEF ExtendMask
<1> QED BY <1>6, <1>7 DEF PlanInv

LEMMA NoPipelineKeeps ==
  ASSUME PlanInv, NoPipeline
  PROVE  PlanInv'
<1>1. probe \in Probes /\ OrderSearchFits(probe, {}, best)
  BY DEF PlanInv, NoPipeline
<1>2. OrdersOf(probe) = {}
  BY <1>1, CompleteIsFound, OrderSearchEnds DEF NoPipeline
<1> QED BY <1>2 DEF PlanInv, NoPipeline

LEMMA WriteKeeps ==
  ASSUME PlanInv, Write
  PROVE  PlanInv'
<1>1. probe \in Probes /\ OrderSearchFits(probe, {}, best)
  BY DEF PlanInv, Write
<1>2. BestOrder(probe, Least(Complete).path)
  BY <1>1, CompleteIsFound, OrderSearchEnds DEF Write
<1>3. /\ IsDerived(manifest') /\ manifest'.profile = probe
      /\ "profile" \in DOMAIN manifest'
  BY <1>1, <1>2, DerivedFromBest DEF Write
<1> QED BY <1>1, <1>3 DEF PlanInv, Write

\* Whatever is changed, the file has a profile that can be searched.
LEMMA EditKeeps ==
  ASSUME PlanInv, Edit
  PROVE  PlanInv'
<1>1. "profile" \in DOMAIN manifest /\ manifest.profile \in Probes
  BY DEF PlanInv, Edit
<1>2. DOMAIN manifest' = DOMAIN manifest /\ manifest'.profile \in Probes
  BY <1>1 DEF Edit
<1>3. edited' = TRUE /\ launching' = "written" /\ UNCHANGED <<probe, masks, best, launching>>
  BY DEF Edit
<1> QED BY <1>1, <1>2, <1>3 DEF PlanInv

LEMMA ValidateKeeps ==
  ASSUME PlanInv, Validate
  PROVE  PlanInv'
<1>1. manifest.profile \in Probes
  BY DEF PlanInv, Validate
<1>2. OrderSearchFits(probe', masks', best')
  BY <1>1, OrderSearchStarts DEF Validate
<1> QED BY <1>1, <1>2 DEF PlanInv, Validate

\* What is derived again from an unchanged file is the file.
LEMMA CompareKeeps ==
  ASSUME PlanInv, Compare
  PROVE  PlanInv'
<1>1. probe \in Probes /\ OrderSearchFits(probe, {}, best) /\ probe = manifest.profile
  BY DEF PlanInv, Compare
<1> DEFINE o == Least(Complete).path
<1>2. BestOrder(probe, o)
  BY <1>1, CompleteIsFound, OrderSearchEnds DEF Compare
<1> HIDE DEF o
<1>3. manifest = ManifestOf(probe, o) => IsDerived(manifest)
  BY <1>1, <1>2, DerivedFromBest
<1>4. IsDerived(manifest) => manifest = ManifestOf(probe, o)
  BY <1>1, <1>2, BestOrderIsOne DEF IsDerived
<1>5. /\ launching = "validating" /\ UNCHANGED <<probe, masks, best, manifest, edited>>
      /\ launching' = IF manifest = ManifestOf(probe, o) THEN "accepted" ELSE "refused"
  BY DEF Compare, o
<1>6. ~edited => IsDerived(manifest)
  BY <1>5 DEF PlanInv
<1>7. CASE manifest = ManifestOf(probe, o)
  BY <1>3, <1>5, <1>7 DEF PlanInv
<1>8. CASE manifest # ManifestOf(probe, o)
  BY <1>4, <1>5, <1>6, <1>8 DEF PlanInv
<1> QED BY <1>7, <1>8

LEMMA PlanStep == PlanInv /\ [PlanNext]_planVars => PlanInv'
<1> SUFFICES ASSUME PlanInv, [PlanNext]_planVars PROVE PlanInv'
  OBVIOUS
<1>1. CASE ExtendMask
  BY <1>1, ExtendMaskKeeps
<1>2. CASE NoPipeline
  BY <1>2, NoPipelineKeeps
<1>3. CASE Write
  BY <1>3, WriteKeeps
<1>4. CASE Edit
  BY <1>4, EditKeeps
<1>5. CASE Validate
  BY <1>5, ValidateKeeps
<1>6. CASE Compare
  BY <1>6, CompareKeeps
<1>7. CASE UNCHANGED planVars
  BY <1>7 DEF PlanInv, planVars
<1> QED BY <1>1, <1>2, <1>3, <1>4, <1>5, <1>6, <1>7 DEF PlanNext

LEMMA DerivedIsBest == PlanInv => LaunchesBestOrder
<1> SUFFICES ASSUME PlanInv PROVE LaunchesBestOrder
  OBVIOUS
<1>1. ASSUME launching \in {"written", "accepted"}, edited => launching = "accepted"
      PROVE  IsDerived(manifest)
  BY <1>1 DEF PlanInv
<1>2. IsDerived(manifest) =>
        /\ BestOrder(manifest.profile, manifest.order)
        /\ manifest.master = Hosts[manifest.order[1]]
        /\ \A r \in DOMAIN manifest.order :
             manifest.ranks[r] = [measured |-> manifest.order[r], host |-> Hosts[manifest.order[r]]]
  <2> SUFFICES ASSUME NEW q, NEW o, manifest = ManifestOf(q, o)
               PROVE  /\ manifest.master = Hosts[o[1]]
                      /\ \A r \in DOMAIN o : manifest.ranks[r] = [measured |-> o[r], host |-> Hosts[o[r]]]
    BY DEF IsDerived
  <2> QED BY DEF ManifestOf
<1>3. launching = "refused" /\ ~edited => OrdersOf(probe) = {}
  BY DEF PlanInv
<1> QED BY <1>1, <1>2, <1>3 DEF LaunchesBestOrder

\* For any probes: the order that is written or accepted costs least of all
\* orders over links that work in both directions, the first such, whatever
\* was edited, and nothing is refused that has an order (_ordering,
\* build_manifest, validate_manifest).
THEOREM LaunchesStayBest == PlanSpec => []LaunchesBestOrder
<1>1. PlanSpec => []PlanInv
  BY PlanStarts, PlanStep, PTL DEF PlanSpec
<1> QED BY <1>1, DerivedIsBest, PTL
=============================================================================
