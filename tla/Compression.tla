----------------------------- MODULE Compression -----------------------------
(****************************************************************************)
(* SparseGradientSynchronizer of utils/gradient_compression.py: the replicas *)
(* of a stage exchange the largest coordinates of what they have             *)
(* accumulated, bucket by bucket, and keep the rest for later steps.         *)
(* A coordinate is <<parameter, offset>>.  Values are exact integers, units  *)
(* of the smallest gradient; 1 / keep[n] is the ratio of step n, the last    *)
(* one after warm-up.  Momentum, of the dgc mode, is one half.               *)
(****************************************************************************)
EXTENDS Integers, Sequences, FiniteSets, FiniteSetsExt

CONSTANTS
  Synchronizers,  \* mode, parameter sizes, bucket size, keep ratios, gradients
  MaxUpdates      \* bound: calls of synchronize

ASSUME CompressionAssumption ==
  /\ \A s \in Synchronizers :
       /\ s.mode \in {"topk", "dgc"}
       /\ s.sizes \in Seq(Nat)
       /\ s.bucket \in Nat \ {0}
       /\ s.keep \in Seq(Nat \ {0}) /\ s.keep # <<>>
       /\ \A g \in s.gradients : \A p \in DOMAIN s.sizes : g[p] \in [1 .. s.sizes[p] -> Int]
  /\ MaxUpdates \in Nat

VARIABLES
  synchronizer,   \* one of Synchronizers; never changes
  residual,       \* by replica and coordinate
  momentum,
  completed,      \* completed_steps
  exchanging,     \* the bucket synchronize is at; 0 between two calls
  gradient,       \* parameter.grad: before a bucket local, after it the sum
  stored,         \* state_dict in the checkpoint, with the histories
  given,          \* history: what a replica added to its residual
  received        \* history: the sums a replica got

feedback == <<residual, momentum, completed>>
histories == <<given, received>>
compressionVars == <<synchronizer, feedback, exchanging, gradient, stored, histories>>
------------------------------------------------------------------------------
Parts == {0, 1}   \* the replicas
Parameters == DOMAIN synchronizer.sizes
Coordinates == UNION {{p} \X (0 .. synchronizer.sizes[p] - 1) : p \in Parameters}

\* Coordinates fill one bucket after the other, parameters cut where one is full.
Position(c) ==
  Cardinality({d \in Coordinates : d[1] < c[1] \/ (d[1] = c[1] /\ d[2] < c[2])})
BucketOf(c) == Position(c) \div synchronizer.bucket + 1

\* current_keep_ratio: the coordinates of a bucket of this size to keep.
Kept(size) ==
  LET den == synchronizer.keep[Min({completed + 1, Len(synchronizer.keep)})]
  IN Max({1, Min({size, (size + den - 1) \div den})})

\* Indices and values cost more than the values of all coordinates.
Dense(size) == Kept(size) * 8 >= size * 4

Magnitude(n) == IF n < 0 THEN -n ELSE n

\* torch.topk: any selection of the k largest.
TopK(values, S, k) ==
  {K \in kSubset(k, S) : \A c \in K, d \in S \ K : Magnitude(values[c]) >= Magnitude(values[d])}

Zero == [r \in Parts |-> [c \in Coordinates |-> 0]]

CompressionInit ==
  /\ synchronizer \in Synchronizers
  /\ residual = Zero /\ momentum = Zero /\ completed = 0
  /\ exchanging = 0
  /\ gradient = Zero
  /\ given = Zero /\ received = Zero
  /\ stored = [residual |-> Zero, momentum |-> Zero, completed |-> 0, given |-> Zero, received |-> Zero]

\* backward leaves each replica its own gradients.
Synchronize ==
  /\ exchanging = 0 /\ completed < MaxUpdates
  /\ \E g \in [Parts -> synchronizer.gradients] :
       gradient' = [r \in Parts |-> [c \in Coordinates |-> g[r][c[1]][c[2] + 1]]]
  /\ exchanging' = 1
  /\ UNCHANGED <<synchronizer, feedback, stored, histories>>

\* Mutant of Cleared: what any replica sent is removed everywhere.
ClearedByAll(sent, r) == UNION {sent[q] : q \in Parts}

\* "Only the local selection is removed, never another rank's."
Cleared(sent, r) == sent[r]

Bucket == {c \in Coordinates : BucketOf(c) = exchanging}
Velocity(r, c) == momentum[r][c] \div 2 + gradient[r][c]
Increment(r, c) == IF synchronizer.mode = "dgc" THEN Velocity(r, c) ELSE gradient[r][c]
Accumulated ==
  [r \in Parts |-> [c \in Coordinates |-> residual[r][c] + IF c \in Bucket THEN Increment(r, c) ELSE 0]]
Transmissions(values) ==
  IF Dense(Cardinality(Bucket)) THEN {[r \in Parts |-> Bucket]}
  ELSE {sent \in [Parts -> SUBSET Bucket] :
          \A r \in Parts : sent[r] \in TopK(values[r], Bucket, Kept(Cardinality(Bucket)))}

\* One bucket: accumulate, all-reduce or exchange the selections, clear them.
ExchangeBucket ==
  /\ Bucket # {}
  /\ \E sent \in Transmissions(Accumulated) :
       LET payload(r, c) == IF c \in sent[r] THEN Accumulated[r][c] ELSE 0
       IN /\ residual' = [r \in Parts |-> [c \in Coordinates |->
                            IF c \in Cleared(sent, r) THEN 0 ELSE Accumulated[r][c]]]
          /\ momentum' = [r \in Parts |-> [c \in Coordinates |->
                            IF c \in Cleared(sent, r) THEN 0
                            ELSE IF c \in Bucket /\ synchronizer.mode = "dgc" THEN Velocity(r, c)
                            ELSE momentum[r][c]]]
          /\ gradient' = [r \in Parts |-> [c \in Coordinates |->
                            IF c \in Bucket THEN payload(0, c) + payload(1, c) ELSE gradient[r][c]]]
          /\ given' = [r \in Parts |-> [c \in Coordinates |->
                            given[r][c] + IF c \in Bucket THEN Increment(r, c) ELSE 0]]
  /\ exchanging' = exchanging + 1
  /\ UNCHANGED <<synchronizer, completed, stored, received>>

Synchronized ==
  /\ exchanging # 0 /\ \A c \in Coordinates : BucketOf(c) < exchanging
  /\ exchanging' = 0 /\ completed' = completed + 1
  /\ received' = [r \in Parts |-> [c \in Coordinates |-> received[r][c] + gradient[r][c]]]
  /\ UNCHANGED <<synchronizer, residual, momentum, gradient, stored, given>>

SaveState ==
  /\ exchanging = 0
  /\ stored' = [residual |-> residual, momentum |-> momentum, completed |-> completed,
                given |-> given, received |-> received]
  /\ UNCHANGED <<synchronizer, feedback, exchanging, gradient, histories>>

\* All replicas are launched again, at any point, and load their states into
\* synchronizers with the same configuration; the model is that of the
\* checkpoint too, so the histories go back with it.
LoadState ==
  /\ residual' = stored.residual /\ momentum' = stored.momentum
  /\ completed' = stored.completed
  /\ given' = stored.given /\ received' = stored.received
  /\ exchanging' = 0 /\ gradient' = Zero
  /\ UNCHANGED <<synchronizer, stored>>

CompressionNext == Synchronize \/ ExchangeBucket \/ Synchronized \/ SaveState \/ LoadState

CompressionSpec == CompressionInit /\ [][CompressionNext]_compressionVars
------------------------------------------------------------------------------
Over(history, c) == history[0][c] + history[1][c]

\* Between two updates every coordinate of every gradient was either applied, by
\* all replicas alike, or waits in the residual of its replica: nothing is lost,
\* and nothing is applied twice, through selections, ties, full buckets and a
\* restart (synchronize, "retains unsent coordinates locally").
NothingIsLost ==
  exchanging = 0 =>
    \A c \in Coordinates :
      /\ Over(given, c) = received[0][c] + Over(residual, c)
      /\ received[0][c] = received[1][c]
=============================================================================
