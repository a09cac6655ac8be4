-------------------------- MODULE CheckpointProofs --------------------------
(***************************************************************************)
(* Proofs about the checkpoints of the question-answering runner.          *)
(***************************************************************************)
EXTENDS Checkpoint, FiniteSetTheorems, WellFoundedInduction, TLAPS

-----------------------------------------------------------------------------
(* Lemmas about sets of numbers.                                           *)

\* A set of natural numbers that is not empty has a least element.
LEMMA LeastExists ==
  ASSUME NEW T, T \subseteq Nat, T # {}
  PROVE  \E x \in T : \A y \in T : x <= y
<1>1. PICK x \in T : \A y \in T : ~(<<y, x>> \in OpToRel(<, Nat))
  BY WFMin, NatLessThanWellFounded
<1>2. \A y \in T : ~(y < x)
  BY <1>1 DEF OpToRel
<1> QED BY <1>2


\* A set of numbers below a bound that is not empty has a greatest element.
LEMMA GreatestExists ==
  ASSUME NEW N \in Nat, NEW T, T \subseteq 0 .. N, T # {}
  PROVE  \E x \in T : \A y \in T : y <= x
<1> DEFINE U == {n \in Nat : \A y \in T : y <= n}
<1>1. U \subseteq Nat /\ N \in U
  OBVIOUS
<1>2. PICK u \in U : \A v \in U : u <= v
  BY <1>1, LeastExists
<1>3. u \in T
  <2> SUFFICES ASSUME u \notin T PROVE FALSE
    OBVIOUS
  <2>1. \A y \in T : y <= u - 1
    BY <1>2
  <2>2. PICK t \in T : TRUE
    OBVIOUS
  <2>3. u - 1 \in Nat
    BY <2>1, <1>2
  <2>4. u - 1 \in U
    BY <2>1, <2>3
  <2> QED BY <2>4, <1>2
<1> QED BY <1>2, <1>3

\* Max picks it.
LEMMA MaxIsGreatest ==
  ASSUME NEW T, T \subseteq 0 .. MaxSteps, T # {}
  PROVE  Max(T) \in T /\ \A y \in T : y <= Max(T)
<1>1. MaxSteps \in Nat
  BY CheckpointAssumption
<1>2. \E x \in T : \A y \in T : y <= x
  BY <1>1, GreatestExists
<1> QED BY <1>2 DEF Max


\* How many members of K are at most m.
UpTo(K, m) == {j \in K : j <= m}

\* A finite set has an i-th smallest member for each i up to its size.
LEMMA NthIsThere ==
  ASSUME NEW N \in Nat, NEW K, K \subseteq 1 .. N, NEW i \in 1 .. Cardinality(K)
  PROVE  Nth(K, i) \in K /\ Cardinality(UpTo(K, Nth(K, i))) = i
<1>0. \A j \in K : j \in Nat /\ 1 <= j /\ j <= N
  OBVIOUS
<1>1. IsFiniteSet(K) /\ Cardinality(K) \in Nat
  BY FS_Interval, FS_Subset, FS_CardinalityType, 0 \in Int, 1 \in Int, N \in Int
<1>2. \A m \in Nat : IsFiniteSet(UpTo(K, m)) /\ Cardinality(UpTo(K, m)) \in Nat
  BY <1>1, FS_Subset, FS_CardinalityType DEF UpTo
<1> DEFINE U == {m \in Nat : Cardinality(UpTo(K, m)) >= i}
<1>3. N \in U
  <2>1. UpTo(K, N) = K
    BY <1>0 DEF UpTo
  <2> QED BY <2>1, <1>1
<1>4. PICK m \in U : \A n \in U : m <= n
  BY <1>3, LeastExists
<1>m. m \in Nat
  BY <1>4
<1>5. m > 0
  <2> SUFFICES ASSUME m = 0 PROVE FALSE
    BY <1>4
  <2>1. UpTo(K, 0) = {}
    BY ONLY <1>0 DEF UpTo
  <2>2. Cardinality(UpTo(K, 0)) = 0
    BY <2>1, FS_EmptySet
  <2> QED BY <2>2, <1>4
<1>6. Cardinality(UpTo(K, m - 1)) < i /\ m - 1 \in Nat
  BY <1>2, <1>4, <1>5
<1>7. m \in K
  <2> SUFFICES ASSUME m \notin K PROVE FALSE
    OBVIOUS
  <2>1. \A j \in K : j <= m <=> j <= m - 1
    <3> SUFFICES ASSUME NEW j \in K PROVE j <= m <=> j <= m - 1
      OBVIOUS
    <3>1. j \in Nat /\ j # m
      BY <1>0
    <3> QED BY ONLY <3>1, <1>m, <1>5
  <2>2. UpTo(K, m) = UpTo(K, m - 1)
    BY ONLY <2>1 DEF UpTo
  <2> QED BY <2>2, <1>6, <1>4
<1>8. UpTo(K, m) = UpTo(K, m - 1) \cup {m}
  <2>1. \A j \in K : j <= m <=> (j <= m - 1 \/ j = m)
    <3> SUFFICES ASSUME NEW j \in K PROVE j <= m <=> (j <= m - 1 \/ j = m)
      OBVIOUS
    <3>1. j \in Nat
      BY <1>0
    <3> QED BY ONLY <3>1, <1>m, <1>5
  <2> QED BY ONLY <2>1, <1>7 DEF UpTo
<1>9. m \notin UpTo(K, m - 1)
  BY <1>4 DEF UpTo
<1>10. Cardinality(UpTo(K, m)) = Cardinality(UpTo(K, m - 1)) + 1
  BY <1>2, <1>6, <1>8, <1>9, FS_AddElement
<1>11. Cardinality(UpTo(K, m)) = i
  BY <1>10, <1>6, <1>4, <1>2
<1> QED BY <1>7, <1>11 DEF Nth, UpTo

\* The members that Nth names are in the order of the numbers it is given.
LEMMA NthIncreases ==
  ASSUME NEW N \in Nat, NEW K, K \subseteq 1 .. N,
         NEW i \in 1 .. Cardinality(K), NEW k \in 1 .. Cardinality(K), i < k
  PROVE  Nth(K, i) < Nth(K, k)
<1>0. \A j \in K : j \in Nat /\ 1 <= j /\ j <= N
  OBVIOUS
<1>1. IsFiniteSet(K) /\ Cardinality(K) \in Nat
  BY FS_Interval, FS_Subset, FS_CardinalityType, 0 \in Int, 1 \in Int, N \in Int
<1>2. /\ Nth(K, i) \in K /\ Cardinality(UpTo(K, Nth(K, i))) = i
      /\ Nth(K, k) \in K /\ Cardinality(UpTo(K, Nth(K, k))) = k
  BY NthIsThere
<1>a. Nth(K, i) \in Nat /\ Nth(K, k) \in Nat
  BY <1>0, <1>2, Zenon
<1>3. ASSUME Nth(K, k) <= Nth(K, i) PROVE FALSE
  <2>1. UpTo(K, Nth(K, k)) \subseteq UpTo(K, Nth(K, i))
    <3> SUFFICES ASSUME NEW j \in UpTo(K, Nth(K, k)) PROVE j \in UpTo(K, Nth(K, i))
      OBVIOUS
    <3>1. j \in K /\ j <= Nth(K, k)
      BY DEF UpTo
    <3>2. j \in Nat
      BY <3>1, <1>0
    <3>3. j <= Nth(K, i)
      BY ONLY <3>1, <3>2, <1>3, <1>a
    <3> QED BY <3>1, <3>3 DEF UpTo
  <2>2. IsFiniteSet(UpTo(K, Nth(K, i)))
    BY <1>1, FS_Subset DEF UpTo
  <2>3. Cardinality(UpTo(K, Nth(K, k))) <= Cardinality(UpTo(K, Nth(K, i)))
    BY <2>1, <2>2, FS_Subset
  <2> QED BY <2>3, <1>2, <1>1
<1> QED BY ONLY <1>a, <1>3


-----------------------------------------------------------------------------
(* Lemmas about the metrics.                                               *)

InOrder(s) == \A i, k \in DOMAIN s : i < k => s[i] < s[k]

\* What a resumed run keeps of metrics in order is in order, and none of it is
\* newer than the version it loaded.
LEMMA RetainedShape ==
  ASSUME log \in [Ranks -> Seq(Steps)], step \in [Ranks -> 0 .. MaxSteps],
         NEW r \in Ranks, InOrder(log[r])
  PROVE  /\ Retained(r) \in Seq(Steps)
         /\ InOrder(Retained(r))
         /\ \A i \in DOMAIN Retained(r) : Retained(r)[i] <= step[r]
<1> DEFINE K == {i \in DOMAIN log[r] : log[r][i] <= step[r]}
           C == Cardinality(K)
           L == Len(log[r])
<1>1. log[r] \in Seq(Steps) /\ L \in Nat /\ DOMAIN log[r] = 1 .. L
  OBVIOUS
<1>2. K \subseteq 1 .. L
  BY <1>1
<1>3. IsFiniteSet(K) /\ C \in Nat
  BY <1>1, <1>2, FS_Interval, FS_Subset, FS_CardinalityType, 0 \in Int, 1 \in Int, L \in Int
<1>4. Retained(r) = [i \in 1 .. C |-> log[r][Nth(K, i)]]
  BY DEF Retained
<1>5. \A i \in 1 .. C : Nth(K, i) \in K
  BY <1>1, <1>2, NthIsThere
<1>6. \A i, k \in 1 .. C : i < k => Nth(K, i) < Nth(K, k)
  BY <1>1, <1>2, NthIncreases
<1> HIDE DEF C
<1>7. \A j \in K : j \in DOMAIN log[r] /\ log[r][j] \in Steps /\ log[r][j] <= step[r]
  BY <1>1
<1> HIDE DEF K
<1>8. \A i \in 1 .. C : Retained(r)[i] = log[r][Nth(K, i)]
  BY <1>4
<1>9. DOMAIN Retained(r) = 1 .. C
  BY <1>4
<1>10. Retained(r) \in Seq(Steps)
  <2>1. \A i \in 1 .. C : log[r][Nth(K, i)] \in Steps
    BY <1>5, <1>7
  <2> QED BY <2>1, <1>3, <1>4
<1>11. InOrder(Retained(r))
  <2> SUFFICES ASSUME NEW i \in 1 .. C, NEW k \in 1 .. C, i < k
               PROVE  Retained(r)[i] < Retained(r)[k]
    BY <1>9 DEF InOrder
  <2>1. Nth(K, i) \in DOMAIN log[r] /\ Nth(K, k) \in DOMAIN log[r]
    BY <1>5, <1>7
  <2>2. Nth(K, i) < Nth(K, k)
    BY <1>6
  <2>3. log[r][Nth(K, i)] < log[r][Nth(K, k)]
    BY <2>1, <2>2 DEF InOrder
  <2> QED BY <2>3, <1>8
<1>12. \A i \in DOMAIN Retained(r) : Retained(r)[i] <= step[r]
  BY <1>5, <1>7, <1>8, <1>9
<1> QED BY <1>10, <1>11, <1>12

\* A file of metrics in order stays in order when a part of it is cut off.
LEMMA CutInOrder ==
  ASSUME NEW s \in Seq(Steps), InOrder(s), NEW n \in 0 .. Len(s)
  PROVE  SubSeq(s, 1, n) \in Seq(Steps) /\ InOrder(SubSeq(s, 1, n))
<1>1. SubSeq(s, 1, n) \in Seq(Steps)
  OBVIOUS
<1>2. DOMAIN SubSeq(s, 1, n) = 1 .. n /\ \A i \in 1 .. n : SubSeq(s, 1, n)[i] = s[i]
  OBVIOUS
<1>3. 1 .. n \subseteq DOMAIN s
  OBVIOUS
<1> QED BY <1>1, <1>2, <1>3 DEF InOrder

\* It stays in order when a later step is recorded.
LEMMA AppendInOrder ==
  ASSUME NEW s \in Seq(Steps), InOrder(s), NEW n \in Steps, \A i \in DOMAIN s : s[i] < n
  PROVE  /\ Append(s, n) \in Seq(Steps)
         /\ InOrder(Append(s, n))
         /\ \A i \in DOMAIN Append(s, n) : Append(s, n)[i] <= n
<1>1. Append(s, n) \in Seq(Steps)
  OBVIOUS
<1>2. /\ DOMAIN Append(s, n) = 1 .. Len(s) + 1 /\ DOMAIN s = 1 .. Len(s)
      /\ Append(s, n)[Len(s) + 1] = n
      /\ \A i \in DOMAIN s : Append(s, n)[i] = s[i]
  OBVIOUS
<1>3. n \in Nat /\ \A i \in DOMAIN s : s[i] \in Nat
  <2>1. \A i \in DOMAIN s : s[i] \in Steps
    OBVIOUS
  <2>2. Steps \subseteq Nat
    BY CheckpointAssumption DEF Steps
  <2> QED BY <2>1, <2>2
<1>4. Len(s) \in Nat
  OBVIOUS
<1>5. InOrder(Append(s, n))
  <2> SUFFICES ASSUME NEW i \in 1 .. Len(s) + 1, NEW k \in 1 .. Len(s) + 1, i < k
               PROVE  Append(s, n)[i] < Append(s, n)[k]
    BY <1>2 DEF InOrder
  <2>1. i \in DOMAIN s
    BY <1>2, <1>4
  <2>2. CASE k \in DOMAIN s
    BY <2>1, <2>2, <1>2 DEF InOrder
  <2>3. CASE k = Len(s) + 1
    BY <2>1, <2>3, <1>2
  <2> QED BY <2>2, <2>3, <1>2, <1>4
<1>6. \A i \in DOMAIN Append(s, n) : Append(s, n)[i] <= n
  BY <1>2, <1>3, <1>4
<1> QED BY <1>1, <1>5, <1>6


-----------------------------------------------------------------------------
(* What one session needs.                                                 *)

Saving(r) == pc[r] \in {"writing", "wrote"}
Clearing(r) == pc[r] \in {"pruning", "pruned"}

\* No rank goes beyond the budget of its session, and none has versions beyond it.
WithinBudget ==
  \A r \in Ranks :
    /\ step[r] <= budget
    /\ pc[r] = "training" => step[r] < budget
    /\ Saving(r) \/ Clearing(r) => step[r] \in Steps
    /\ \A f \in files[r] : f <= budget

\* Only before it is trimmed may a file of metrics run ahead of its rank.
MetricsBehind ==
  \A r \in Ranks : pc[r] \notin Ended \cup {"loading"} =>
    \A i \in DOMAIN log[r] : log[r][i] <= step[r]

\* Unless one ended by itself, the ranks of a session are all gone or none is.
DownTogether ==
  ~alone => \A p, q \in Ranks : pc[p] \in Away => pc[q] \in Away

SInv == CheckpointTypeOK /\ WithinBudget /\ MetricsInOrder /\ MetricsBehind /\ DownTogether

-----------------------------------------------------------------------------
(* What the sessions of a run need.                                        *)

\* How far the ranks that are up can be apart: by one step in training, by none
\* while they save or clear up, and never on two sides of a version that is due.
InStep ==
  \A p, q \in Ranks : pc[p] \notin Away /\ pc[q] \notin Away =>
    /\ step[q] <= step[p] + 1
    /\ Saving(p) /\ Saving(q) => step[p] = step[q]
    /\ Clearing(p) => Clearing(q) /\ step[p] = step[q]
    /\ pc[p] = "loading" => step[p] = step[q] /\ pc[q] \in {"loading", "training", "done"}
    /\ pc[p] = "training" /\ Saving(q) => step[p] < step[q]
    /\ pc[p] \in {"training", "loading"} /\ Due(step[p]) => step[q] >= step[p]

SavedWhenDue == \A r \in Ranks : Saving(r) \/ Clearing(r) => Due(step[r])

\* A rank that wrote its version without an error has it, and all have it once
\* they clear up.
Written ==
  \A r \in Ranks :
    /\ pc[r] = "wrote" /\ ~failed[r] => step[r] \in files[r]
    /\ Clearing(r) => step[r] \in Common

\* All ranks have a version that is not older than d.
Covered(d) == \E c \in Common : c >= d

\* A version newer than all common ones is not beyond the next one due.
NoneBeyondDue ==
  \A r \in Ranks : \A f \in files[r] : \A d \in Steps : Due(d) /\ d < f => Covered(d)

\* A rank has left no version behind that was due, unless it is about to save it.
LeftCovered ==
  \A r \in Ranks : \A d \in Steps :
    pc[r] \notin Ended /\ Due(d) /\ (d < step[r] \/ (d = step[r] /\ ~Saving(r))) => Covered(d)

\* No version is beyond the one a rank will save next, or is saving.
NextIsNewest ==
  \A r, q \in Ranks : \A f \in files[q] : \A d \in Steps :
    pc[r] \notin Ended /\ Due(d) /\ (d > step[r] \/ (d = step[r] /\ (Saving(r) \/ Clearing(r)))) => f <= d

RInv ==
  /\ SInv
  /\ InStep /\ SavedWhenDue /\ Written
  /\ NoneBeyondDue /\ LeftCovered /\ NextIsNewest
  /\ ConfirmedIsRecoverable


-----------------------------------------------------------------------------
(* The invariant of a session is inductive.                                *)

LEMMA CommonIsBounded == Common \subseteq 0 .. MaxSteps /\ Common \subseteq Steps
BY CheckpointAssumption DEF Common, Steps

\* What a launch of all ranks leaves, from the step they begin with.
LEMMA SessionBegins ==
  ASSUME SInv, NEW k \in Intervals, NEW n \in Steps, NEW s \in 0 .. n,
         Launch(k, n),
         step' = [r \in Ranks |-> s], pc' = [r \in Ranks |-> "loading"],
         UNCHANGED <<files, log>>, \A r \in Ranks : \A f \in files[r] : f <= n,
         confirmed' \in 0 .. MaxSteps, faults' = faults
  PROVE  SInv'
<1> USE CheckpointAssumption
<1>1. CheckpointTypeOK'
  <2>1. s \in 0 .. MaxSteps /\ n \in 0 .. MaxSteps
    BY DEF Steps
  <2> QED BY <2>1 DEF SInv, CheckpointTypeOK, Launch, Waiting, Ended
<1>2. WithinBudget'
  <2> SUFFICES ASSUME NEW r \in Ranks
               PROVE  /\ step'[r] <= budget'
                      /\ pc'[r] = "training" => step'[r] < budget'
                      /\ ~Saving(r)' /\ ~Clearing(r)'
                      /\ \A f \in files'[r] : f <= budget'
    BY DEF WithinBudget
  <2> QED BY DEF Launch, Saving, Clearing
<1>3. MetricsInOrder'
  BY DEF SInv, MetricsInOrder
<1>4. MetricsBehind'
  BY DEF MetricsBehind, Ended
<1>5. DownTogether'
  BY DEF DownTogether, Away
<1> QED BY <1>1, <1>2, <1>3, <1>4, <1>5 DEF SInv

LEMMA StartKeepsSession ==
  ASSUME SInv, NEW k \in Intervals, NEW n \in Steps, Start(k, n)
  PROVE  SInv'
<1> USE CheckpointAssumption
<1>1. n \in Nat /\ 0 \in 0 .. n
  BY DEF Steps
<1>4. 0 \in 0 .. MaxSteps
  OBVIOUS
<1>5. \A r \in Ranks : \A f \in files[r] : f <= n
  BY DEF Start
<1>6. confirmed' \in 0 .. MaxSteps
  BY <1>4 DEF Start
<1>7. /\ Launch(k, n) /\ step' = [r \in Ranks |-> 0] /\ pc' = [r \in Ranks |-> "loading"]
      /\ UNCHANGED <<files, log>> /\ faults' = faults
  BY DEF Start
<1> QED BY ONLY <1>1, <1>5, <1>6, <1>7, SInv, k \in Intervals, n \in Steps, SessionBegins

LEMMA ResumeKeepsSession ==
  ASSUME SInv, NEW k \in Intervals, NEW n \in Steps, Resume(k, n)
  PROVE  SInv' /\ Max(Common) \in Common /\ \A c \in Common : c <= Max(Common)
<1> USE CheckpointAssumption
<1> DEFINE s == Max(Common)
<1>1. s \in Common /\ \A c \in Common : c <= s
  BY CommonIsBounded, MaxIsGreatest DEF Resume
<1>2. \A r \in Ranks : \A f \in files[r] : f \in Steps /\ f <= budget
  BY DEF SInv, CheckpointTypeOK, WithinBudget
<1>3. budget <= n /\ budget \in Nat /\ n \in Nat
  BY DEF Resume, SInv, CheckpointTypeOK, Steps
<1>4. \A r \in Ranks : \A f \in files[r] : f <= n
  <2> SUFFICES ASSUME NEW r \in Ranks, NEW f \in files[r] PROVE f <= n
    OBVIOUS
  <2>1. f <= budget /\ f \in Nat
    BY <1>2 DEF Steps
  <2> QED BY <2>1, <1>3
<1>5. s \in 0 .. n
  <2>1. PICK r \in Ranks : TRUE
    OBVIOUS
  <2>2. s \in files[r] /\ s \in Nat
    BY <1>1 DEF Common, Steps
  <2> QED BY <2>2, <1>4, <1>3
<1>7. confirmed' \in 0 .. MaxSteps
  BY DEF Resume, SInv, CheckpointTypeOK
<1>8. /\ Launch(k, n) /\ step' = [r \in Ranks |-> s] /\ pc' = [r \in Ranks |-> "loading"]
      /\ UNCHANGED <<files, log>> /\ faults' = faults
  BY DEF Resume
<1> HIDE DEF s
<1>9. SInv'
  BY ONLY <1>4, <1>5, <1>7, <1>8, SInv, k \in Intervals, n \in Steps, SessionBegins
<1> QED BY <1>1, <1>9 DEF s


\* What a rank leaves of its metrics when it ends: they are in order.
LEMMA CutOffInOrder ==
  ASSUME SInv, NEW r \in Ranks, CutOff(r)
  PROVE  log' \in [Ranks -> Seq(Steps)] /\ \A q \in Ranks : InOrder(log'[q]) /\ (q # r => log'[q] = log[q])
<1>1. log \in [Ranks -> Seq(Steps)] /\ \A q \in Ranks : InOrder(log[q])
  BY DEF SInv, CheckpointTypeOK, MetricsInOrder, InOrder
<1>2. CASE log' = log
  BY <1>1, <1>2
<1>3. ASSUME NEW n \in 0 .. Len(Retained(r)), log' = [log EXCEPT ![r] = SubSeq(Retained(r), 1, n)]
      PROVE  log' \in [Ranks -> Seq(Steps)] /\ \A q \in Ranks : InOrder(log'[q]) /\ (q # r => log'[q] = log[q])
  <2>1. Retained(r) \in Seq(Steps) /\ InOrder(Retained(r))
    BY <1>1, RetainedShape DEF SInv, CheckpointTypeOK
  <2> DEFINE L == SubSeq(Retained(r), 1, n)
  <2>2. L \in Seq(Steps) /\ InOrder(L)
    BY <2>1, CutInOrder
  <2> HIDE DEF L
  <2>3. log' = [log EXCEPT ![r] = L]
    BY <1>3 DEF L
  <2> QED BY <1>1, <2>2, <2>3
<1>4. log' = log \/ \E n \in 0 .. Len(Retained(r)) : log' = [log EXCEPT ![r] = SubSeq(Retained(r), 1, n)]
  BY DEF CutOff
<1> QED BY ONLY <1>2, <1>3, <1>4

\* A rank that ends by itself, whatever step it has made and metrics it leaves, as
\* long as they are in order.
LEMMA LeavesKeepsSession ==
  ASSUME SInv, NEW r \in Ranks, Leaves(r),
         step' \in [Ranks -> 0 .. MaxSteps], step'[r] <= budget,
         \A q \in Ranks : q # r => step'[q] = step[q] /\ log'[q] = log[q],
         log' \in [Ranks -> Seq(Steps)], \A q \in Ranks : InOrder(log'[q])
  PROVE  SInv'
<1> USE CheckpointAssumption
<1>1. CheckpointTypeOK /\ WithinBudget
  BY DEF SInv
<1>2. /\ alone' /\ UNCHANGED <<files, failed, every, budget, confirmed>>
      /\ faults < MaxFaults /\ faults' = faults + 1
  BY DEF Leaves, Fault
<1>3. pc' \in [Ranks -> Ended \cup Waiting \cup {"loading", "writing", "pruning"}]
      /\ \A q \in Ranks : IF q = r THEN pc'[q] \in Away ELSE pc'[q] = pc[q]
  BY <1>1 DEF Leaves, CheckpointTypeOK, Ended, Away
<1>4. CheckpointTypeOK'
  <2>1. faults' \in 0 .. MaxFaults /\ alone' \in BOOLEAN
    BY <1>1, <1>2 DEF CheckpointTypeOK, Leaves
  <2> QED BY <1>1, <1>2, <1>3, <2>1 DEF CheckpointTypeOK
<1>5. WithinBudget'
  BY <1>1, <1>2, <1>3 DEF WithinBudget, Saving, Clearing, Away
<1>6. MetricsInOrder'
  BY DEF MetricsInOrder, InOrder
<1>7. MetricsBehind'
  BY <1>3 DEF SInv, MetricsBehind, Ended
<1>8. DownTogether'
  BY <1>2 DEF DownTogether
<1> QED BY <1>4, <1>5, <1>6, <1>7, <1>8 DEF SInv

LEMMA CrashKeepsSession ==
  ASSUME SInv, NEW r \in Ranks, Crash(r)
  PROVE  SInv'
<1>1. log' \in [Ranks -> Seq(Steps)] /\ \A q \in Ranks : InOrder(log'[q]) /\ (q # r => log'[q] = log[q])
  BY CutOffInOrder DEF Crash, CutOff
<1>2. step' = step /\ step \in [Ranks -> 0 .. MaxSteps] /\ step[r] <= budget
  BY DEF Crash, SInv, CheckpointTypeOK, WithinBudget
<1> QED BY <1>1, <1>2, LeavesKeepsSession DEF Crash


\* A rank has rewritten its metrics.
Trimmed(r) ==
  /\ pc[r] = "loading"
  /\ log' = [log EXCEPT ![r] = Retained(r)]
  /\ pc' = [pc EXCEPT ![r] = Proceed[r]]
  /\ UNCHANGED <<step, files, failed, session, confirmed, faults>>

LEMMA TrimmedKeepsSession ==
  ASSUME SInv, NEW r \in Ranks, Trimmed(r)
  PROVE  SInv'
<1> USE CheckpointAssumption
<1>1. CheckpointTypeOK /\ InOrder(log[r])
  BY DEF SInv, MetricsInOrder, InOrder
<1>2. /\ Retained(r) \in Seq(Steps) /\ InOrder(Retained(r))
      /\ \A i \in DOMAIN Retained(r) : Retained(r)[i] <= step[r]
  BY <1>1, RetainedShape DEF CheckpointTypeOK
<1>3. /\ log' = [log EXCEPT ![r] = Retained(r)]
      /\ pc' = [pc EXCEPT ![r] = Proceed[r]]
      /\ pc[r] = "loading"
      /\ UNCHANGED <<step, files, failed, every, budget, alone, confirmed, faults>>
  BY DEF Trimmed, session
<1>4. Proceed[r] = IF step[r] < budget THEN "training" ELSE "done"
  BY DEF Proceed
<1>5. \A q \in Ranks : log'[q] = IF q = r THEN Retained(r) ELSE log[q]
  BY <1>1, <1>3 DEF CheckpointTypeOK
<1>6. \A q \in Ranks : pc'[q] = IF q = r THEN Proceed[r] ELSE pc[q]
  BY <1>1, <1>3 DEF CheckpointTypeOK
<1>7. CheckpointTypeOK'
  BY <1>1, <1>2, <1>3, <1>4 DEF CheckpointTypeOK, Ended, Waiting
<1>8. WithinBudget'
  BY <1>3, <1>4, <1>6 DEF SInv, WithinBudget, Saving, Clearing
<1>9. MetricsInOrder'
  BY <1>2, <1>5 DEF SInv, MetricsInOrder, InOrder
<1>10. MetricsBehind'
  BY <1>2, <1>3, <1>5, <1>6 DEF SInv, MetricsBehind
<1>11. DownTogether'
  BY <1>3, <1>4, <1>6 DEF SInv, DownTogether, Away
<1> QED BY <1>7, <1>8, <1>9, <1>10, <1>11 DEF SInv

LEMMA TrimKeepsSession ==
  ASSUME SInv, NEW r \in Ranks, Trim(r)
  PROVE  SInv'
<1>1. CASE Leaves(r) /\ CutOff(r)
  <2>1. step' = step /\ step \in [Ranks -> 0 .. MaxSteps] /\ step[r] <= budget
    BY DEF Trim, SInv, CheckpointTypeOK, WithinBudget
  <2> QED BY <1>1, <2>1, CutOffInOrder, LeavesKeepsSession
<1>2. CASE Trimmed(r)
  BY <1>2, TrimmedKeepsSession
<1> QED BY <1>1, <1>2 DEF Trim, Trimmed


\* The step a rank is about to make is within its budget, and can be recorded.
LEMMA NextCanBeRecorded ==
  ASSUME SInv, NEW r \in Ranks, pc[r] = "training", NEW n, n = step[r] + 1
  PROVE  /\ n \in Steps /\ n \in 0 .. MaxSteps /\ n <= budget /\ n \in Nat
         /\ Append(log[r], n) \in Seq(Steps) /\ InOrder(Append(log[r], n))
         /\ \A i \in DOMAIN Append(log[r], n) : Append(log[r], n)[i] <= n
<1> USE CheckpointAssumption
<1>1. CheckpointTypeOK /\ InOrder(log[r])
  BY DEF SInv, MetricsInOrder, InOrder
<1>3. step[r] \in Nat /\ budget \in Nat /\ budget <= MaxSteps /\ step[r] < budget
  BY <1>1 DEF CheckpointTypeOK, SInv, WithinBudget
<1>4. n \in Steps /\ n \in 0 .. MaxSteps /\ n <= budget /\ n \in Nat
  BY <1>3 DEF Steps
<1>6. \A i \in DOMAIN log[r] : log[r][i] < n
  <2> SUFFICES ASSUME NEW i \in DOMAIN log[r] PROVE log[r][i] < n
    OBVIOUS
  <2>1. log[r][i] <= step[r]
    BY DEF SInv, MetricsBehind, Ended, Away
  <2>2. log[r][i] \in Steps
    BY <1>1 DEF CheckpointTypeOK
  <2>3. log[r][i] \in Nat
    BY <2>2 DEF Steps
  <2> QED BY <2>1, <2>3, <1>3
<1>7. /\ Append(log[r], n) \in Seq(Steps) /\ InOrder(Append(log[r], n))
      /\ \A i \in DOMAIN Append(log[r], n) : Append(log[r], n)[i] <= n
  BY <1>1, <1>4, <1>6, AppendInOrder DEF CheckpointTypeOK
<1> QED BY <1>4, <1>7

\* A rank has made and recorded a step.
Trained(r) ==
  /\ pc[r] = "training"
  /\ step' = [step EXCEPT ![r] = @ + 1]
  /\ log' = [log EXCEPT ![r] = Append(@, step[r] + 1)]
  /\ pc' = [pc EXCEPT ![r] = IF Due(step[r] + 1) THEN "writing" ELSE "training"]
  /\ UNCHANGED <<files, failed, session, confirmed, faults>>

LEMMA TrainedKeepsSession ==
  ASSUME SInv, NEW r \in Ranks, Trained(r)
  PROVE  SInv'
<1> USE CheckpointAssumption
<1> DEFINE n == step[r] + 1
           next == IF Due(n) THEN "writing" ELSE "training"
<1>1. CheckpointTypeOK /\ InOrder(log[r])
  BY DEF SInv, MetricsInOrder, InOrder
<1>2. /\ pc[r] = "training"
      /\ step' = [step EXCEPT ![r] = n]
      /\ log' = [log EXCEPT ![r] = Append(log[r], n)]
      /\ pc' = [pc EXCEPT ![r] = next]
      /\ UNCHANGED <<files, failed, every, budget, alone, confirmed, faults>>
  BY <1>1 DEF Trained, session, CheckpointTypeOK
<1>3. step[r] \in Nat /\ budget \in Nat /\ budget <= MaxSteps /\ step[r] < budget
  BY <1>1, <1>2 DEF CheckpointTypeOK, SInv, WithinBudget
<1>5. n = budget => Due(n)
  BY DEF Due
<1>4. /\ n \in Steps /\ n \in 0 .. MaxSteps /\ n <= budget /\ n \in Nat
      /\ Append(log[r], n) \in Seq(Steps) /\ InOrder(Append(log[r], n))
      /\ \A i \in DOMAIN Append(log[r], n) : Append(log[r], n)[i] <= n
  BY <1>2, NextCanBeRecorded
<1> DEFINE L == Append(log[r], n)
<1> HIDE DEF n, next, L
<1>8. \A q \in Ranks : /\ step'[q] = IF q = r THEN n ELSE step[q]
                       /\ log'[q] = IF q = r THEN L ELSE log[q]
                       /\ pc'[q] = IF q = r THEN next ELSE pc[q]
  BY <1>1, <1>2 DEF CheckpointTypeOK, L
<1>9. next \in {"writing", "training"} /\ (n = budget => next = "writing")
  BY <1>5 DEF next
<1>10. CheckpointTypeOK'
  <2>1. step' \in [Ranks -> 0 .. MaxSteps]
    BY <1>1, <1>2, <1>4 DEF CheckpointTypeOK
  <2>2. log' \in [Ranks -> Seq(Steps)]
    BY <1>1, <1>2, <1>4 DEF CheckpointTypeOK
  <2>3. pc' \in [Ranks -> Ended \cup Waiting \cup {"loading", "writing", "pruning"}]
    BY <1>1, <1>2, <1>9 DEF CheckpointTypeOK, Waiting
  <2> QED BY <1>1, <1>2, <2>1, <2>2, <2>3 DEF CheckpointTypeOK
<1>11. WithinBudget'
  <2> SUFFICES ASSUME NEW q \in Ranks
               PROVE  /\ step'[q] <= budget'
                      /\ pc'[q] = "training" => step'[q] < budget'
                      /\ (Saving(q) \/ Clearing(q))' => step'[q] \in Steps
                      /\ \A f \in files'[q] : f <= budget'
    BY <1>2 DEF WithinBudget
  <2>1. CASE q = r
    BY <2>1, <1>2, <1>3, <1>4, <1>8, <1>9 DEF SInv, WithinBudget
  <2>2. CASE q # r
    BY <2>2, <1>2, <1>8 DEF SInv, WithinBudget, Saving, Clearing
  <2> QED BY <2>1, <2>2
<1>12. MetricsInOrder'
  BY <1>4, <1>8 DEF SInv, MetricsInOrder, InOrder, L
<1>13. MetricsBehind'
  BY <1>4, <1>8, <1>9 DEF SInv, MetricsBehind, L
<1>14. DownTogether'
  BY <1>2, <1>8, <1>9 DEF SInv, DownTogether, Away
<1> QED BY <1>10, <1>11, <1>12, <1>13, <1>14 DEF SInv

LEMMA TrainKeepsSession ==
  ASSUME SInv, NEW r \in Ranks, Train(r)
  PROVE  SInv'
<1>1. CASE Leaves(r) /\ (log' = log \/ log' = [log EXCEPT ![r] = Append(@, step[r] + 1)])
  <2> DEFINE n == step[r] + 1
             L == Append(log[r], n)
  <2>1. /\ n \in 0 .. MaxSteps /\ n <= budget
        /\ L \in Seq(Steps) /\ InOrder(L)
    BY NextCanBeRecorded DEF Train
  <2> HIDE DEF n, L
  <2>2. step \in [Ranks -> 0 .. MaxSteps] /\ log \in [Ranks -> Seq(Steps)]
    BY DEF SInv, CheckpointTypeOK
  <2>3. step' = [step EXCEPT ![r] = n]
    BY <2>2 DEF Train, n
  <2>4. log' = log \/ log' = [log EXCEPT ![r] = L]
    BY <1>1, <2>2 DEF n, L
  <2>5. \A q \in Ranks : InOrder(log[q])
    BY DEF SInv, MetricsInOrder, InOrder
  <2>6. log' \in [Ranks -> Seq(Steps)] /\ \A q \in Ranks : InOrder(log'[q]) /\ (q # r => log'[q] = log[q])
    BY <2>1, <2>2, <2>4, <2>5
  <2>7. step' \in [Ranks -> 0 .. MaxSteps] /\ step'[r] <= budget /\ \A q \in Ranks : q # r => step'[q] = step[q]
    BY <2>1, <2>2, <2>3
  <2> QED BY <1>1, <2>6, <2>7, LeavesKeepsSession
<1>2. CASE Trained(r)
  BY <1>2, TrainedKeepsSession
<1> QED BY <1>1, <1>2 DEF Train, Trained


LEMMA WriteKeepsSession ==
  ASSUME SInv, NEW r \in Ranks, Write(r)
  PROVE  SInv'
<1> USE CheckpointAssumption
<1>1. CheckpointTypeOK /\ WithinBudget
  BY DEF SInv
<1>2. /\ pc[r] = "writing" /\ pc' = [pc EXCEPT ![r] = "wrote"]
      /\ UNCHANGED <<step, log, every, budget, alone, confirmed>>
  BY DEF Write, session
<1>3. files' \in [Ranks -> SUBSET Steps] /\ \A q \in Ranks : files'[q] \subseteq files[q] \cup {step[q]}
  <2>1. step[r] \in Steps
    BY <1>1, <1>2 DEF WithinBudget, Saving
  <2> QED BY <1>1, <2>1 DEF Write, CheckpointTypeOK
<1>4. failed' \in [Ranks -> BOOLEAN] /\ faults' \in 0 .. MaxFaults
  <2>1. faults' = faults \/ (faults < MaxFaults /\ faults' = faults + 1)
    BY DEF Write, Fault
  <2>2. failed' = failed \/ failed' = [failed EXCEPT ![r] = TRUE]
    BY DEF Write
  <2>3. faults' \in 0 .. MaxFaults
    BY <1>1, <2>1 DEF CheckpointTypeOK
  <2> QED BY <1>1, <2>2, <2>3 DEF CheckpointTypeOK
<1>5. \A q \in Ranks : pc'[q] = IF q = r THEN "wrote" ELSE pc[q]
  BY <1>1, <1>2 DEF CheckpointTypeOK
<1>6. CheckpointTypeOK'
  BY <1>1, <1>2, <1>3, <1>4 DEF CheckpointTypeOK, Waiting
<1>7. WithinBudget'
  BY <1>1, <1>2, <1>3, <1>5 DEF WithinBudget, Saving, Clearing
<1>8. MetricsInOrder'
  BY <1>2 DEF SInv, MetricsInOrder
<1>9. MetricsBehind'
  BY <1>2, <1>5 DEF SInv, MetricsBehind, Ended, Away
<1>10. DownTogether'
  BY <1>2, <1>5 DEF SInv, DownTogether, Away
<1> QED BY <1>6, <1>7, <1>8, <1>9, <1>10 DEF SInv

\* A collective of all ranks, after which they are all at the same place.
LEMMA CollectKeepsSession ==
  ASSUME SInv, NEW from \in {"wrote", "pruned"},
         NEW to \in [Ranks -> {"pruning", "training", "done"}],
         Collect(from, to), from = "wrote" => to = [r \in Ranks |-> "pruning"],
         from = "pruned" => to = Proceed,
         UNCHANGED <<step, files, log, failed, session, faults>>, confirmed' \in 0 .. MaxSteps
  PROVE  SInv'
<1> USE CheckpointAssumption
<1>1. CheckpointTypeOK /\ WithinBudget
  BY DEF SInv
<1>2. UNCHANGED <<step, files, log, failed, every, budget, alone, faults>>
  BY DEF session
<1>3. \A r \in Ranks : pc[r] = from
  BY DEF Collect
<1>4. CASE pc' = [r \in Ranks |-> "down"]
  <2>1. CheckpointTypeOK'
    BY <1>1, <1>2, <1>4 DEF CheckpointTypeOK, Ended, Away
  <2>2. WithinBudget'
    BY <1>1, <1>2, <1>4 DEF WithinBudget, Saving, Clearing
  <2>3. MetricsInOrder' /\ MetricsBehind' /\ DownTogether'
    BY <1>2, <1>4 DEF SInv, MetricsInOrder, MetricsBehind, DownTogether, Ended, Away
  <2> QED BY <2>1, <2>2, <2>3 DEF SInv
<1>5. CASE pc' = to
  <2>1. CheckpointTypeOK'
    BY <1>1, <1>2, <1>5 DEF CheckpointTypeOK, Ended, Waiting
  <2>2. WithinBudget'
    <3>1. \A r \in Ranks : step[r] \in Steps
      BY <1>1, <1>3 DEF WithinBudget, Saving, Clearing
    <3>2. \A r \in Ranks : to[r] = "training" => step[r] < budget
      BY DEF Proceed
    <3> QED BY <1>1, <1>2, <1>5, <3>1, <3>2 DEF WithinBudget
  <2>3. MetricsInOrder' /\ MetricsBehind'
    BY <1>2, <1>3, <1>5 DEF SInv, MetricsInOrder, MetricsBehind, Ended, Away
  <2>4. DownTogether'
    BY <1>5 DEF DownTogether, Away
  <2> QED BY <2>1, <2>2, <2>3, <2>4 DEF SInv
<1> QED BY <1>4, <1>5 DEF Collect

LEMMA AllWroteKeepsSession ==
  ASSUME SInv, AllWrote
  PROVE  SInv'
<1> DEFINE to == [r \in Ranks |-> "pruning"]
<1>1. to \in [Ranks -> {"pruning", "training", "done"}]
  OBVIOUS
<1>2. confirmed' \in 0 .. MaxSteps
  BY DEF AllWrote, SInv, CheckpointTypeOK
<1>3. Collect("wrote", to) /\ UNCHANGED <<step, files, log, failed, session, faults>>
  BY DEF AllWrote
<1> QED BY <1>1, <1>2, <1>3, CollectKeepsSession

\* The greatest step of the ranks is the step of one of them.
LEMMA GreatestStep ==
  ASSUME CheckpointTypeOK
  PROVE  \E r \in Ranks : Max({step[q] : q \in Ranks}) = step[r]
<1> DEFINE S == {step[q] : q \in Ranks}
<1>1. S \subseteq 0 .. MaxSteps /\ S # {}
  BY CheckpointAssumption DEF CheckpointTypeOK
<1>2. Max(S) \in S
  BY <1>1, MaxIsGreatest
<1> QED BY <1>2

LEMMA AllPrunedKeepsSession ==
  ASSUME SInv, AllPruned
  PROVE  SInv'
<1>1. Proceed \in [Ranks -> {"pruning", "training", "done"}]
  BY DEF Proceed
<1>2. confirmed' \in 0 .. MaxSteps
  BY GreatestStep DEF AllPruned, SInv, CheckpointTypeOK
<1>3. Collect("pruned", Proceed) /\ UNCHANGED <<step, files, log, failed, session, faults>>
  BY DEF AllPruned
<1> QED BY <1>1, <1>2, <1>3, CollectKeepsSession


LEMMA PruneKeepsSession ==
  ASSUME SInv, NEW r \in Ranks, Prune(r)
  PROVE  SInv'
<1> USE CheckpointAssumption
<1>1. CheckpointTypeOK /\ WithinBudget
  BY DEF SInv
<1>2. pc[r] = "pruning" /\ UNCHANGED <<step, log, every, budget, alone, confirmed>>
  BY DEF Prune, session
<1>3. files' \in [Ranks -> SUBSET Steps] /\ \A q \in Ranks : files'[q] \subseteq files[q]
  <2>1. files' = files \/ files' = [files EXCEPT ![r] = files[r] \ {Max(Surplus(files[r]))}]
    BY <1>1 DEF Prune, CheckpointTypeOK
  <2> QED BY <1>1, <2>1 DEF CheckpointTypeOK
<1>4. failed' \in [Ranks -> BOOLEAN] /\ faults' \in 0 .. MaxFaults
  <2>1. faults' = faults \/ (faults < MaxFaults /\ faults' = faults + 1)
    BY DEF Prune, Fault
  <2>2. failed' = failed \/ failed' = [failed EXCEPT ![r] = TRUE]
    BY DEF Prune
  <2>3. faults' \in 0 .. MaxFaults
    BY <1>1, <2>1 DEF CheckpointTypeOK
  <2> QED BY <1>1, <2>2, <2>3 DEF CheckpointTypeOK
<1>5. \/ pc' = pc
      \/ /\ pc' = [pc EXCEPT ![r] = "pruned"]
         /\ \A q \in Ranks : pc'[q] = IF q = r THEN "pruned" ELSE pc[q]
  BY <1>1 DEF Prune, CheckpointTypeOK
<1>6. CheckpointTypeOK'
  BY <1>1, <1>2, <1>3, <1>4, <1>5 DEF CheckpointTypeOK, Waiting
<1>7. WithinBudget'
  BY <1>1, <1>2, <1>3, <1>5 DEF WithinBudget, Saving, Clearing
<1>8. MetricsInOrder'
  BY <1>2 DEF SInv, MetricsInOrder
<1>9. MetricsBehind'
  BY <1>2, <1>5 DEF SInv, MetricsBehind, Ended, Away
<1>10. DownTogether'
  BY <1>2, <1>5 DEF SInv, DownTogether, Away
<1> QED BY <1>6, <1>7, <1>8, <1>9, <1>10 DEF SInv

LEMMA AbandonKeepsSession ==
  ASSUME SInv, NEW r \in Ranks, Abandon(r)
  PROVE  SInv'
<1>1. /\ pc[r] \in Waiting /\ \E q \in Ranks : pc[q] \in Away
      /\ pc' = [pc EXCEPT ![r] = "down"]
      /\ UNCHANGED <<step, files, log, failed, every, budget, alone, confirmed, faults>>
  BY DEF Abandon, session
<1>2. \A q \in Ranks : pc'[q] = IF q = r THEN "down" ELSE pc[q]
  BY <1>1 DEF SInv, CheckpointTypeOK
<1>3. CheckpointTypeOK'
  BY <1>1 DEF SInv, CheckpointTypeOK, Ended, Away
<1>4. WithinBudget'
  BY <1>1, <1>2 DEF SInv, WithinBudget, Saving, Clearing
<1>5. MetricsInOrder' /\ MetricsBehind'
  BY <1>1, <1>2 DEF SInv, MetricsInOrder, MetricsBehind, Ended, Away
<1>6. DownTogether'
  BY <1>1 DEF SInv, DownTogether, Waiting, Away
<1> QED BY <1>3, <1>4, <1>5, <1>6 DEF SInv


LEMMA SessionInit == Init => SInv
<1> SUFFICES ASSUME Init PROVE SInv
  OBVIOUS
<1> USE CheckpointAssumption
<1>1. CheckpointTypeOK
  <2>1. log \in [Ranks -> Seq(Steps)]
    <3>1. <<>> \in Seq(Steps)
      OBVIOUS
    <3> QED BY <3>1 DEF Init
  <2>2. 0 \in 0 .. MaxSteps /\ 0 \in 0 .. MaxFaults
    OBVIOUS
  <2>3. step \in [Ranks -> 0 .. MaxSteps] /\ files \in [Ranks -> SUBSET Steps]
    BY <2>2 DEF Init
  <2> QED BY <2>1, <2>2, <2>3 DEF Init, CheckpointTypeOK, Ended, Away
<1>2. WithinBudget
  BY DEF Init, WithinBudget, Saving, Clearing
<1>3. MetricsInOrder /\ MetricsBehind /\ DownTogether
  BY DEF Init, MetricsInOrder, MetricsBehind, DownTogether, Ended, Away
<1> QED BY <1>1, <1>2, <1>3 DEF SInv

LEMMA SessionStep == SInv /\ [Next]_vars => SInv'
<1> SUFFICES ASSUME SInv, [Next]_vars PROVE SInv'
  OBVIOUS
<1>1. CASE UNCHANGED vars
  BY <1>1 DEF vars, SInv, CheckpointTypeOK, WithinBudget, MetricsInOrder, MetricsBehind,
              DownTogether, Saving, Clearing
<1>2. ASSUME NEW k \in Intervals, NEW n \in Steps, Start(k, n) PROVE SInv'
  BY <1>2, StartKeepsSession
<1>3. ASSUME NEW k \in Intervals, NEW n \in Steps, Resume(k, n) PROVE SInv'
  BY <1>3, ResumeKeepsSession
<1>4. ASSUME NEW r \in Ranks, Trim(r) PROVE SInv'
  BY <1>4, TrimKeepsSession
<1>5. ASSUME NEW r \in Ranks, Train(r) PROVE SInv'
  BY <1>5, TrainKeepsSession
<1>6. ASSUME NEW r \in Ranks, Write(r) PROVE SInv'
  BY <1>6, WriteKeepsSession
<1>7. ASSUME NEW r \in Ranks, Prune(r) PROVE SInv'
  BY <1>7, PruneKeepsSession
<1>8. ASSUME NEW r \in Ranks, Crash(r) PROVE SInv'
  BY <1>8, CrashKeepsSession
<1>9. ASSUME NEW r \in Ranks, Abandon(r) PROVE SInv'
  BY <1>9, AbandonKeepsSession
<1>10. CASE AllWrote
  BY <1>10, AllWroteKeepsSession
<1>11. CASE AllPruned
  BY <1>11, AllPrunedKeepsSession
<1> QED BY <1>1, <1>2, <1>3, <1>4, <1>5, <1>6, <1>7, <1>8, <1>9, <1>10, <1>11 DEF Next

LEMMA SessionInvariant == Spec => []SInv
BY SessionInit, SessionStep, PTL DEF Spec

\* Every state of the runner and of its files has its type: in particular no rank
\* goes beyond its budget of steps, and no version has a step that no rank makes
\* (run and save_checkpoint).
THEOREM CheckpointKeepsTypes == Spec => []CheckpointTypeOK
<1>1. SInv => CheckpointTypeOK
  BY DEF SInv
<1> QED BY <1>1, SessionInvariant, PTL

\* The metrics of every rank record the steps in order and each of them once,
\* however often the run is interrupted, falls back and is resumed (run).
THEOREM MetricsKeepOrder == Spec => []MetricsInOrder
<1>1. SInv => MetricsInOrder
  BY DEF SInv
<1> QED BY <1>1, SessionInvariant, PTL

\* Whatever fails while versions are saved and removed, no rank waits in a
\* collective for one that has ended, as long as none crashed or raised where
\* nobody is told: loading and writing metrics or progress (collect_errors).
THEOREM RanksFailTogether == Spec => []FailTogether
<1>1. SInv => FailTogether
  BY DEF SInv, DownTogether, FailTogether, Waiting, Away
<1> QED BY <1>1, SessionInvariant, PTL


-----------------------------------------------------------------------------
(* The invariant of a run whose sessions keep their interval is inductive.  *)

\* Ranks that are all launched at the same step are in step.
LEMMA LaunchInStep ==
  ASSUME NEW s \in Nat, step' = [r \in Ranks |-> s], pc' = [r \in Ranks |-> "loading"]
  PROVE  InStep' /\ SavedWhenDue' /\ Written'
<1>1. \A r \in Ranks : step'[r] = s /\ pc'[r] = "loading"
  OBVIOUS
<1>2. \A r \in Ranks : ~Saving(r)' /\ ~Clearing(r)' /\ pc'[r] # "wrote"
  BY <1>1 DEF Saving, Clearing
<1>3. InStep'
  BY <1>1, <1>2 DEF InStep
<1> QED BY <1>2, <1>3 DEF SavedWhenDue, Written

LEMMA StartKeepsRun ==
  ASSUME RInv, NEW k \in Intervals, NEW n \in Steps, Start(k, n)
  PROVE  RInv'
<1>1. SInv'
  BY StartKeepsSession DEF RInv
<1>2. /\ step' = [r \in Ranks |-> 0] /\ pc' = [r \in Ranks |-> "loading"]
      /\ files' = files /\ \A r \in Ranks : files[r] = {}
      /\ confirmed' = 0
  BY DEF Start
<1>3. InStep' /\ SavedWhenDue' /\ Written'
  BY <1>2, LaunchInStep
<1>4. NoneBeyondDue' /\ NextIsNewest'
  BY <1>2 DEF NoneBeyondDue, NextIsNewest
<1>5. LeftCovered'
  <2>1. \A d \in Steps : d > 0 /\ d \in Nat
    BY CheckpointAssumption DEF Steps
  <2>2. \A r \in Ranks, d \in Steps : step'[r] = 0 /\ ~(d < step'[r]) /\ d # step'[r]
    BY <1>2, <2>1
  <2> QED BY <2>2 DEF LeftCovered
<1>6. ConfirmedIsRecoverable'
  BY <1>2 DEF ConfirmedIsRecoverable
<1> QED BY <1>1, <1>3, <1>4, <1>5, <1>6 DEF RInv

LEMMA ResumeKeepsRun ==
  ASSUME RInv, KeepInterval, NEW k \in Intervals, NEW n \in Steps, Resume(k, n)
  PROVE  RInv'
<1> DEFINE s == Max(Common)
<1>1. SInv' /\ s \in Common /\ \A c \in Common : c <= s
  BY ResumeKeepsSession DEF RInv
<1>2. /\ step' = [r \in Ranks |-> s] /\ pc' = [r \in Ranks |-> "loading"]
      /\ UNCHANGED <<files, confirmed>> /\ every' = every /\ budget' = n /\ n >= budget
  BY DEF Resume, Launch
<1> HIDE DEF s
<1>3. s \in Steps /\ s \in Nat
  BY <1>1 DEF Common, Steps
<1>4. Common' = Common /\ \A d \in Steps : Covered(d)' <=> Covered(d)
  BY <1>2 DEF Common, Covered
<1>5. InStep' /\ SavedWhenDue' /\ Written'
  BY <1>2, <1>3, LaunchInStep
<1>6. \A r \in Ranks : \A f \in files[r] : f \in Nat /\ f <= n
  <2>1. \A r \in Ranks : \A f \in files[r] : f \in Steps /\ f <= budget
    BY DEF RInv, SInv, CheckpointTypeOK, WithinBudget
  <2>2. budget \in Nat /\ n \in Nat
    BY DEF RInv, SInv, CheckpointTypeOK, Steps
  <2> QED BY <2>1, <2>2, <1>2 DEF Steps
<1>7. \A d \in Steps : Due(d)' => Due(d) \/ d = n
  BY <1>2 DEF Due
<1>8. NoneBeyondDue'
  <2> SUFFICES ASSUME NEW r \in Ranks, NEW f \in files[r], NEW d \in Steps, Due(d)', d < f
               PROVE  Covered(d)'
    BY <1>2 DEF NoneBeyondDue
  <2>1. d # n
    BY <1>6 DEF Steps
  <2>2. Due(d)
    BY <1>7, <2>1
  <2> QED BY <2>2, <1>4 DEF RInv, NoneBeyondDue
<1>9. LeftCovered'
  <2> SUFFICES ASSUME NEW r \in Ranks, NEW d \in Steps, d <= s PROVE Covered(d)'
    BY <1>2, <1>3 DEF LeftCovered, Steps
  <2>1. s >= d
    BY <1>3 DEF Steps
  <2> QED BY <2>1, <1>1, <1>4 DEF Covered
<1>10. NextIsNewest'
  <2> SUFFICES ASSUME NEW r \in Ranks, NEW q \in Ranks, NEW f \in files[q], NEW d \in Steps,
                      Due(d)', d > s, ~(f <= d)
               PROVE  FALSE
    BY <1>2 DEF NextIsNewest, Saving, Clearing
  <2>1. d < f /\ d \in Nat
    BY <1>6 DEF Steps
  <2>2. Covered(d)'
    BY <1>2, <1>8, <2>1 DEF NoneBeyondDue
  <2>3. PICK c \in Common : c >= d
    BY <2>2, <1>4 DEF Covered
  <2>4. c <= s /\ c \in Nat
    BY <1>1 DEF Common, Steps
  <2> QED BY <2>1, <2>3, <2>4, <1>3
<1>11. ConfirmedIsRecoverable'
  BY <1>2, <1>4 DEF RInv, ConfirmedIsRecoverable
<1> QED BY <1>1, <1>5, <1>8, <1>9, <1>10, <1>11 DEF RInv


\* A step that leaves the files and the session alone.
LEMMA SameFiles ==
  ASSUME RInv, UNCHANGED <<files, every, budget>>
  PROVE  /\ Common' = Common
         /\ NoneBeyondDue'
         /\ \A d \in Steps : Covered(d)' <=> Covered(d)
         /\ \A d \in Steps : Due(d)' <=> Due(d)
<1>1. Common' = Common
  BY DEF Common
<1>2. \A d \in Steps : (Covered(d)' <=> Covered(d)) /\ (Due(d)' <=> Due(d))
  BY <1>1 DEF Covered, Due
<1>3. NoneBeyondDue'
  BY <1>2 DEF RInv, NoneBeyondDue
<1> QED BY <1>1, <1>2, <1>3

\* Steps by which ranks only go down.
LEMMA GoingDownKeepsRun ==
  ASSUME RInv, SInv', UNCHANGED <<files, every, budget, confirmed, failed>>,
         \A r \in Ranks : pc'[r] \in Away \/ (pc'[r] = pc[r] /\ step'[r] = step[r])
  PROVE  RInv'
<1> DEFINE Up(r) == pc'[r] \notin Away
<1>1. /\ Common' = Common /\ NoneBeyondDue'
      /\ \A d \in Steps : Covered(d)' <=> Covered(d)
      /\ \A d \in Steps : Due(d)' <=> Due(d)
  BY SameFiles
<1>2. \A r \in Ranks : Up(r) => /\ pc'[r] = pc[r] /\ step'[r] = step[r]
                                /\ Due(step[r])' <=> Due(step[r])
                                /\ Saving(r)' <=> Saving(r)
                                /\ Clearing(r)' <=> Clearing(r)
  BY DEF Due, Saving, Clearing
<1>3. \A r \in Ranks : ~Up(r) => ~Saving(r)' /\ ~Clearing(r)' /\ pc'[r] \in Ended
  BY DEF Saving, Clearing, Ended, Away
<1>4. InStep'
  BY <1>2 DEF RInv, InStep
<1>5. SavedWhenDue'
  BY <1>2, <1>3 DEF RInv, SavedWhenDue
<1>6. Written'
  BY <1>1, <1>2, <1>3 DEF RInv, Written, Away
<1>7. LeftCovered'
  BY <1>1, <1>2, <1>3 DEF RInv, LeftCovered
<1>8. NextIsNewest'
  BY <1>1, <1>2, <1>3 DEF RInv, NextIsNewest
<1>9. ConfirmedIsRecoverable'
  BY <1>1 DEF RInv, ConfirmedIsRecoverable
<1> QED BY <1>1, <1>4, <1>5, <1>6, <1>7, <1>8, <1>9 DEF RInv

LEMMA LeavesKeepsRun ==
  ASSUME RInv, SInv', NEW r \in Ranks, Leaves(r), \A q \in Ranks : q # r => step'[q] = step[q]
  PROVE  RInv'
<1>1. UNCHANGED <<files, every, budget, confirmed, failed>>
  BY DEF Leaves
<1>2. \A q \in Ranks : IF q = r THEN pc'[q] \in Away ELSE pc'[q] = pc[q]
  BY DEF Leaves, RInv, SInv, CheckpointTypeOK, Away
<1> QED BY <1>1, <1>2, GoingDownKeepsRun

LEMMA CrashKeepsRun ==
  ASSUME RInv, NEW r \in Ranks, Crash(r)
  PROVE  RInv'
<1>1. SInv'
  BY CrashKeepsSession DEF RInv
<1> QED BY <1>1, LeavesKeepsRun DEF Crash

LEMMA AbandonKeepsRun ==
  ASSUME RInv, NEW r \in Ranks, Abandon(r)
  PROVE  RInv'
<1>1. SInv'
  BY AbandonKeepsSession DEF RInv
<1>2. /\ UNCHANGED <<files, every, budget, confirmed, failed, step>>
      /\ pc' = [pc EXCEPT ![r] = "down"]
  BY DEF Abandon, session
<1>3. \A q \in Ranks : pc'[q] \in Away \/ (pc'[q] = pc[q] /\ step'[q] = step[q])
  BY <1>2 DEF RInv, SInv, CheckpointTypeOK, Away
<1> QED BY <1>1, <1>2, <1>3, GoingDownKeepsRun

LEMMA TrimmedKeepsRun ==
  ASSUME RInv, NEW r \in Ranks, Trimmed(r)
  PROVE  RInv'
<1>1. SInv'
  BY TrimmedKeepsSession DEF RInv
<1>2. /\ pc[r] = "loading" /\ pc' = [pc EXCEPT ![r] = Proceed[r]]
      /\ UNCHANGED <<step, files, failed, every, budget, confirmed>>
  BY DEF Trimmed, session
<1>3. Proceed[r] \in {"training", "done"}
  BY DEF Proceed
<1>4. \A q \in Ranks : pc'[q] = IF q = r THEN Proceed[r] ELSE pc[q]
  BY <1>2 DEF RInv, SInv, CheckpointTypeOK
<1>5. /\ Common' = Common /\ NoneBeyondDue'
      /\ \A d \in Steps : Covered(d)' <=> Covered(d)
      /\ \A d \in Steps : Due(d)' <=> Due(d)
  BY <1>2, SameFiles
<1>6. \A q \in Ranks : /\ Saving(q)' <=> Saving(q)
                       /\ Clearing(q)' <=> Clearing(q)
                       /\ Due(step[q])' <=> Due(step[q])
                       /\ step'[q] = step[q]
                       /\ pc'[q] # pc[q] => q = r /\ pc[q] = "loading" /\ pc'[q] \in {"training", "done"}
  BY <1>2, <1>3, <1>4 DEF Saving, Clearing, Due
<1>7. InStep'
  <2> SUFFICES ASSUME NEW p \in Ranks, NEW q \in Ranks, pc'[p] \notin Away, pc'[q] \notin Away
               PROVE  /\ step'[q] <= step'[p] + 1
                      /\ Saving(p)' /\ Saving(q)' => step'[p] = step'[q]
                      /\ Clearing(p)' => Clearing(q)' /\ step'[p] = step'[q]
                      /\ pc'[p] = "loading" =>
                           step'[p] = step'[q] /\ pc'[q] \in {"loading", "training", "done"}
                      /\ pc'[p] = "training" /\ Saving(q)' => step'[p] < step'[q]
                      /\ pc'[p] \in {"training", "loading"} /\ Due(step[p])' => step'[q] >= step'[p]
    BY DEF InStep
  <2>1. pc[p] \notin Away /\ pc[q] \notin Away
    BY <1>6 DEF Away
  <2>2. ~(pc[p] = "loading" /\ Saving(q))
    BY <2>1 DEF RInv, InStep, Saving
  <2> QED BY <2>1, <2>2, <1>6 DEF RInv, InStep
<1>8. SavedWhenDue'
  BY <1>6 DEF RInv, SavedWhenDue
<1>9. Written'
  BY <1>2, <1>5, <1>6 DEF RInv, Written
<1>10. LeftCovered'
  BY <1>5, <1>6 DEF RInv, LeftCovered, Ended, Away
<1>11. NextIsNewest'
  BY <1>2, <1>5, <1>6 DEF RInv, NextIsNewest, Ended, Away
<1>12. ConfirmedIsRecoverable'
  BY <1>2, <1>5 DEF RInv, ConfirmedIsRecoverable
<1> QED BY <1>1, <1>5, <1>7, <1>8, <1>9, <1>10, <1>11, <1>12 DEF RInv

LEMMA TrimKeepsRun ==
  ASSUME RInv, NEW r \in Ranks, Trim(r)
  PROVE  RInv'
<1>1. CASE Leaves(r)
  <2>1. SInv'
    BY TrimKeepsSession DEF RInv
  <2> QED BY <1>1, <2>1, LeavesKeepsRun DEF Trim
<1>2. CASE Trimmed(r)
  BY <1>2, TrimmedKeepsRun
<1> QED BY <1>1, <1>2 DEF Trim, Trimmed


LEMMA TrainedKeepsRun ==
  ASSUME RInv, NEW r \in Ranks, Train(r), Trained(r)
  PROVE  RInv'
<1> DEFINE n == step[r] + 1
           next == IF Due(n) THEN "writing" ELSE "training"
<1>1. SInv'
  BY TrainedKeepsSession DEF RInv
<1>2. /\ pc[r] = "training"
      /\ \A q \in Ranks : step[q] >= step[r] /\ pc[q] \notin {"loading", "out"}
      /\ step' = [step EXCEPT ![r] = n]
      /\ pc' = [pc EXCEPT ![r] = next]
      /\ UNCHANGED <<files, failed, every, budget, confirmed>>
  BY DEF Train, Trained, session, RInv, SInv, CheckpointTypeOK
<1>3. \A q \in Ranks : step[q] \in Nat /\ \A f \in files[q] : f \in Nat
  BY DEF RInv, SInv, CheckpointTypeOK, Steps
<1>n. n \in Nat /\ n = step[r] + 1
  BY <1>3
<1> HIDE DEF n, next
<1>4. \A q \in Ranks : /\ step'[q] = IF q = r THEN n ELSE step[q]
                       /\ pc'[q] = IF q = r THEN next ELSE pc[q]
  BY <1>2 DEF RInv, SInv, CheckpointTypeOK
<1>5. next \in {"writing", "training"} /\ (next = "writing" <=> Due(n))
  BY DEF next
<1>6. /\ Common' = Common /\ NoneBeyondDue'
      /\ \A d \in Steps : Covered(d)' <=> Covered(d)
      /\ \A d \in Steps : Due(d)' <=> Due(d)
  BY <1>2, SameFiles
<1>7. \A q \in Ranks : /\ q # r => /\ Saving(q)' <=> Saving(q)
                                   /\ Clearing(q)' <=> Clearing(q)
                                   /\ Due(step[q])' <=> Due(step[q])
                       /\ q = r => /\ Saving(q)' <=> Due(n)
                                   /\ ~Clearing(q)'
                                   /\ Due(step[q])' <=> Due(n)
  BY <1>2, <1>4, <1>5 DEF Saving, Clearing, Due
<1>8. \A q \in Ranks : pc[q] \notin Away => step[q] <= n /\ ~Clearing(q) /\ (Saving(q) => step[q] = n)
  <2> SUFFICES ASSUME NEW q \in Ranks, pc[q] \notin Away
               PROVE  step[q] <= n /\ ~Clearing(q) /\ (Saving(q) => step[q] = n)
    OBVIOUS
  <2>1. step[q] <= n
    BY <1>2, <1>n DEF RInv, InStep, Away
  <2>2. ~Clearing(q)
    BY <1>2 DEF RInv, InStep, Clearing, Away
  <2>3. Saving(q) => step[r] < step[q]
    BY <1>2 DEF RInv, InStep, Away
  <2> QED BY <2>1, <2>2, <2>3, <1>3, <1>n
<1>9. \A q \in Ranks : pc[q] = "training" /\ Due(n) => step[q] < n
  <2> SUFFICES ASSUME NEW q \in Ranks, pc[q] = "training", Due(n), ~(step[q] < n)
               PROVE  FALSE
    OBVIOUS
  <2>1. step[q] = n
    BY <1>8, <1>3, <1>n DEF Away
  <2>2. step[r] >= step[q]
    BY <2>1, <1>2 DEF RInv, InStep, Away
  <2> QED BY <2>1, <2>2, <1>n, <1>3
<1>10. InStep'
  <2> SUFFICES ASSUME NEW p \in Ranks, NEW q \in Ranks, pc'[p] \notin Away, pc'[q] \notin Away
               PROVE  /\ step'[q] <= step'[p] + 1
                      /\ Saving(p)' /\ Saving(q)' => step'[p] = step'[q]
                      /\ Clearing(p)' => Clearing(q)' /\ step'[p] = step'[q]
                      /\ pc'[p] = "loading" =>
                           step'[p] = step'[q] /\ pc'[q] \in {"loading", "training", "done"}
                      /\ pc'[p] = "training" /\ Saving(q)' => step'[p] < step'[q]
                      /\ pc'[p] \in {"training", "loading"} /\ Due(step[p])' => step'[q] >= step'[p]
    BY DEF InStep
  <2>0. pc[p] \notin Away /\ pc[q] \notin Away
    BY <1>2, <1>4 DEF Away
  <2>1. CASE p # r /\ q # r
    BY <2>0, <2>1, <1>4, <1>7 DEF RInv, InStep
  <2>2. CASE p = r /\ q # r
    <3>1. step[q] >= step[r] /\ step[q] <= n /\ step[q] \in Nat /\ ~Clearing(q)
      BY <2>0, <1>2, <1>3, <1>8
    <3>2. Saving(q) => step[q] = n /\ Due(n)
      <4>1. Saving(q) => Due(step[q])
        BY DEF RInv, SavedWhenDue
      <4> QED BY <2>0, <4>1, <1>8
    <3>3. step'[p] = n /\ step'[q] = step[q] /\ pc'[p] = next /\ (Saving(q)' <=> Saving(q))
      BY <2>2, <1>4, <1>7
    <3>4. (Saving(p)' <=> Due(n)) /\ ~Clearing(p)' /\ (Due(step[p])' <=> Due(n))
      BY <2>2, <1>7
    <3> QED BY <3>1, <3>2, <3>3, <3>4, <1>5, <1>n, <1>3
  <2>3. CASE p # r /\ q = r
    <3>1. step[p] >= step[r] /\ step[p] <= n /\ step[p] \in Nat /\ ~Clearing(p) /\ pc[p] # "loading"
      BY <2>0, <1>2, <1>3, <1>8
    <3>2. Saving(p) => step[p] = n
      BY <2>0, <1>8
    <3>3. pc[p] = "training" /\ Due(n) => step[p] < n
      BY <2>0, <1>9
    <3>4. step'[q] = n /\ step'[p] = step[p] /\ pc'[p] = pc[p] /\ pc'[q] = next
      BY <2>3, <1>4
    <3>5. (Saving(q)' <=> Due(n)) /\ (Saving(p)' <=> Saving(p)) /\ (Clearing(p)' <=> Clearing(p))
      BY <2>3, <1>7
    <3> QED BY <3>1, <3>2, <3>3, <3>4, <3>5, <1>n, <1>3
  <2>4. CASE p = r /\ q = r
    <3>1. step'[p] = n /\ step'[q] = n /\ pc'[p] = next
      BY <2>4, <1>4
    <3>2. (Saving(p)' <=> Due(n)) /\ ~Clearing(p)' /\ (Saving(q)' <=> Due(n))
      BY <2>4, <1>7
    <3> QED BY <3>1, <3>2, <1>5, <1>n
  <2> QED BY <2>1, <2>2, <2>3, <2>4
<1>11. SavedWhenDue'
  BY <1>7 DEF RInv, SavedWhenDue
<1>12. Written'
  <2>1. pc'[r] # "wrote"
    BY <1>4, <1>5
  <2> QED BY <2>1, <1>2, <1>4, <1>6, <1>7 DEF RInv, Written
<1>13. \A d \in Steps : Due(d) /\ d <= step[r] => Covered(d)
  <2>1. ~Saving(r) /\ pc[r] \notin Ended
    BY <1>2 DEF Saving, Ended, Away
  <2> QED BY <2>1, <1>3 DEF RInv, LeftCovered, Steps
<1>14. LeftCovered'
  <2> SUFFICES ASSUME NEW q \in Ranks, NEW d \in Steps, pc'[q] \notin Ended, Due(d),
                      d < step'[q] \/ (d = step'[q] /\ ~Saving(q)')
               PROVE  Covered(d)
    BY <1>6 DEF LeftCovered
  <2>1. CASE q # r
    BY <2>1, <1>4, <1>7 DEF RInv, LeftCovered
  <2>2. CASE q = r
    <3>1. d \in Nat
      BY DEF Steps
    <3>2. d < n
      BY <2>2, <1>4, <1>7
    <3> QED BY <3>1, <3>2, <1>13, <1>n, <1>3
  <2> QED BY <2>1, <2>2
<1>15. NextIsNewest'
  <2> SUFFICES ASSUME NEW q \in Ranks, NEW p \in Ranks, NEW f \in files[p], NEW d \in Steps,
                      pc'[q] \notin Ended, Due(d),
                      d > step'[q] \/ (d = step'[q] /\ (Saving(q)' \/ Clearing(q)'))
               PROVE  f <= d
    BY <1>2, <1>6 DEF NextIsNewest
  <2>1. CASE q # r
    BY <2>1, <1>4, <1>7 DEF RInv, NextIsNewest
  <2>2. CASE q = r
    <3>1. d > step[r]
      BY <2>2, <1>4, <1>n, <1>3 DEF Steps
    <3>2. pc[r] \notin Ended
      BY <1>2 DEF Ended, Away
    <3> QED BY <3>1, <3>2 DEF RInv, NextIsNewest
  <2> QED BY <2>1, <2>2
<1>16. ConfirmedIsRecoverable'
  BY <1>2, <1>6 DEF RInv, ConfirmedIsRecoverable
<1> QED BY <1>1, <1>6, <1>10, <1>11, <1>12, <1>14, <1>15, <1>16 DEF RInv

LEMMA TrainKeepsRun ==
  ASSUME RInv, NEW r \in Ranks, Train(r)
  PROVE  RInv'
<1>1. CASE Leaves(r)
  <2>1. SInv'
    BY TrainKeepsSession DEF RInv
  <2>2. \A q \in Ranks : q # r => step'[q] = step[q]
    BY DEF Train, RInv, SInv, CheckpointTypeOK
  <2> QED BY <1>1, <2>1, <2>2, LeavesKeepsRun
<1>2. CASE Trained(r)
  BY <1>2, TrainedKeepsRun
<1> QED BY <1>1, <1>2 DEF Train, Trained


LEMMA WriteKeepsRun ==
  ASSUME RInv, NEW r \in Ranks, Write(r)
  PROVE  RInv'
<1>1. SInv'
  BY WriteKeepsSession DEF RInv
<1>2. /\ pc[r] = "writing" /\ pc' = [pc EXCEPT ![r] = "wrote"]
      /\ UNCHANGED <<step, every, budget, confirmed>>
      /\ \/ files' = [files EXCEPT ![r] = files[r] \cup {step[r]}] /\ failed' = failed
         \/ files' = files /\ failed' = [failed EXCEPT ![r] = TRUE]
  BY DEF Write, session, RInv, SInv, CheckpointTypeOK
<1>3. \A q \in Ranks : /\ step[q] \in Nat
                       /\ files[q] \subseteq Steps
                       /\ files[q] \subseteq files'[q]
                       /\ \A f \in files'[q] : f \in files[q] \/ f = step[r]
  <2>1. files \in [Ranks -> SUBSET Steps] /\ step \in [Ranks -> 0 .. MaxSteps]
    BY DEF RInv, SInv, CheckpointTypeOK
  <2>2. \A q \in Ranks : /\ files[q] \subseteq files'[q]
                         /\ \A f \in files'[q] : f \in files[q] \/ f = step[r]
    BY <1>2, <2>1
  <2> QED BY <2>1, <2>2
<1>4. \A q \in Ranks : pc'[q] = IF q = r THEN "wrote" ELSE pc[q]
  BY <1>2 DEF RInv, SInv, CheckpointTypeOK
<1>5. \A q \in Ranks : /\ Saving(q)' <=> Saving(q)
                       /\ Clearing(q)' <=> Clearing(q)
                       /\ Due(step[q])' <=> Due(step[q])
                       /\ step'[q] = step[q]
                       /\ pc'[q] = pc[q] \/ (pc[q] = "writing" /\ pc'[q] = "wrote")
  BY <1>2, <1>4 DEF Saving, Clearing, Due
<1>6. Common \subseteq Common' /\ \A d \in Steps : (Covered(d) => Covered(d)') /\ (Due(d)' <=> Due(d))
  <2>1. Common \subseteq Common'
    BY <1>3 DEF Common
  <2> QED BY <2>1, <1>2 DEF Covered, Due
<1>7. Saving(r) /\ ~Clearing(r) /\ pc[r] \notin Ended /\ pc[r] \notin Away
  BY <1>2 DEF Saving, Clearing, Ended, Away
<1>8. InStep'
  BY <1>5 DEF RInv, InStep, Away
<1>9. SavedWhenDue'
  BY <1>5 DEF RInv, SavedWhenDue
<1>10. Written'
  <2> SUFFICES ASSUME NEW q \in Ranks
               PROVE  /\ pc'[q] = "wrote" /\ ~failed'[q] => step'[q] \in files'[q]
                      /\ Clearing(q)' => step'[q] \in Common'
    BY DEF Written
  <2>1. Clearing(q)' => step'[q] \in Common'
    BY <1>5, <1>6 DEF RInv, Written
  <2>2. CASE q # r
    <3>1. failed'[q] = failed[q] /\ pc'[q] = pc[q]
      BY <2>2, <1>2, <1>4 DEF RInv, SInv, CheckpointTypeOK
    <3> QED BY <2>1, <3>1, <1>3, <1>5 DEF RInv, Written
  <2>3. CASE q = r
    <3>1. failed'[r] \/ step[r] \in files'[r]
      <4>1. files \in [Ranks -> SUBSET Steps] /\ failed \in [Ranks -> BOOLEAN]
        BY DEF RInv, SInv, CheckpointTypeOK
      <4>2. CASE files' = [files EXCEPT ![r] = files[r] \cup {step[r]}]
        BY <4>1, <4>2
      <4>3. CASE failed' = [failed EXCEPT ![r] = TRUE]
        BY <4>1, <4>3
      <4> QED BY <4>2, <4>3, <1>2
    <3> QED BY <2>1, <2>3, <3>1, <1>5
  <2> QED BY <2>2, <2>3
<1>11. NoneBeyondDue'
  <2> SUFFICES ASSUME NEW q \in Ranks, NEW f \in files'[q], NEW d \in Steps, Due(d), d < f
               PROVE  Covered(d)
    BY <1>6 DEF NoneBeyondDue
  <2>1. CASE f \in files[q]
    BY <2>1 DEF RInv, NoneBeyondDue
  <2>2. CASE f = step[r]
    BY <2>2, <1>7 DEF RInv, LeftCovered
  <2> QED BY <2>1, <2>2, <1>3
<1>12. LeftCovered'
  BY <1>5, <1>6 DEF RInv, LeftCovered, Ended, Away
<1>13. NextIsNewest'
  <2> SUFFICES ASSUME NEW q \in Ranks, NEW p \in Ranks, NEW f \in files'[p], NEW d \in Steps,
                      pc[q] \notin Ended, Due(d),
                      d > step[q] \/ (d = step[q] /\ (Saving(q) \/ Clearing(q)))
               PROVE  f <= d
    BY <1>5, <1>6 DEF NextIsNewest, Ended, Away
  <2>1. CASE f \in files[p]
    BY <2>1 DEF RInv, NextIsNewest
  <2>2. CASE f = step[r]
    <3>1. pc[q] \notin Away /\ d \in Nat
      BY DEF Ended, Steps
    <3>2. step[r] <= step[q] + 1 /\ (Saving(q) => step[q] = step[r]) /\ ~Clearing(q)
      BY <3>1, <1>7 DEF RInv, InStep
    <3> QED BY <2>2, <3>1, <3>2, <1>3
  <2> QED BY <2>1, <2>2, <1>3
<1>14. ConfirmedIsRecoverable'
  BY <1>2, <1>6 DEF RInv, ConfirmedIsRecoverable
<1> QED BY <1>1, <1>8, <1>9, <1>10, <1>11, <1>12, <1>13, <1>14 DEF RInv

LEMMA AllWroteKeepsRun ==
  ASSUME RInv, AllWrote
  PROVE  RInv'
<1>1. SInv'
  BY AllWroteKeepsSession DEF RInv
<1>2. /\ \A r \in Ranks : pc[r] = "wrote"
      /\ UNCHANGED <<step, files, failed, every, budget, confirmed>>
  BY DEF AllWrote, Collect, session
<1>3. CASE pc' = [r \in Ranks |-> "down"]
  BY <1>1, <1>2, <1>3, GoingDownKeepsRun DEF Away
<1>4. CASE /\ pc' = [r \in Ranks |-> "pruning"]
           /\ \A r \in Ranks : ~failed[r]
  <2>1. /\ Common' = Common /\ NoneBeyondDue'
        /\ \A d \in Steps : Covered(d)' <=> Covered(d)
        /\ \A d \in Steps : Due(d)' <=> Due(d)
    BY <1>2, SameFiles
  <2>2. \A p, q \in Ranks : step[p] = step[q]
    BY <1>2 DEF RInv, InStep, Saving, Away
  <2>3. \A r \in Ranks : /\ Saving(r) /\ Clearing(r)' /\ ~Saving(r)'
                         /\ pc[r] \notin Ended
                         /\ pc'[r] = "pruning"
                         /\ Due(step[r])
                         /\ step'[r] = step[r]
                         /\ Due(step[r])' <=> Due(step[r])
    BY <1>2, <1>4 DEF RInv, SavedWhenDue, Saving, Clearing, Ended, Away, Due
  <2>4. \A r \in Ranks : step[r] \in Common /\ step[r] \in Nat /\ step[r] \in Steps
    <3>1. \A r \in Ranks : step[r] \in Steps /\ step[r] \in Nat
      BY <2>3 DEF RInv, SInv, WithinBudget, Steps
    <3>2. \A r \in Ranks : step[r] \in files[r]
      BY <1>2, <1>4 DEF RInv, Written
    <3> QED BY <3>1, <3>2, <2>2 DEF Common
  <2>5. InStep'
    BY <2>2, <2>3, <2>4 DEF InStep
  <2>6. SavedWhenDue'
    BY <2>3 DEF SavedWhenDue
  <2>7. Written'
    BY <2>1, <2>3, <2>4 DEF Written
  <2>8. LeftCovered'
    <3> SUFFICES ASSUME NEW r \in Ranks, NEW d \in Steps, Due(d), d < step[r] \/ d = step[r]
                 PROVE  Covered(d)
      BY <2>1, <2>3 DEF LeftCovered
    <3>1. step[r] >= d
      BY <2>4 DEF Steps
    <3> QED BY <3>1, <2>4 DEF Covered
  <2>9. NextIsNewest'
    <3> SUFFICES ASSUME NEW r \in Ranks, NEW q \in Ranks, NEW f \in files[q], NEW d \in Steps,
                        Due(d), d > step[r] \/ d = step[r]
                 PROVE  f <= d
      BY <1>2, <2>1, <2>3 DEF NextIsNewest
    <3> QED BY <2>3 DEF RInv, NextIsNewest
  <2>10. ConfirmedIsRecoverable'
    BY <1>2, <2>1 DEF RInv, ConfirmedIsRecoverable
  <2> QED BY <1>1, <2>1, <2>5, <2>6, <2>7, <2>8, <2>9, <2>10 DEF RInv
<1> QED BY <1>3, <1>4 DEF AllWrote, Collect


\* Removing one version of a rank that clears up leaves its step everywhere, and
\* no version was newer than that.
LEMMA PruneKeepsStep ==
  ASSUME RInv, NEW r \in Ranks, pc[r] = "pruning",
         files' = [files EXCEPT ![r] = files[r] \ {Max(Surplus(files[r]))}],
         Surplus(files[r]) # {}
  PROVE  step[r] \in Common' /\ \A c \in Common : c <= step[r]
<1>1. step[r] \in Common /\ step[r] \in Steps /\ Due(step[r]) /\ pc[r] \notin Ended /\ Clearing(r)
  BY DEF RInv, SInv, WithinBudget, SavedWhenDue, Written, Clearing, Ended, Away
<1>2. \A q \in Ranks : \A f \in files[q] : f <= step[r]
  BY <1>1 DEF RInv, NextIsNewest
<1>3. files[r] \subseteq Steps /\ Steps \subseteq Nat /\ Steps \subseteq 0 .. MaxSteps
  BY CheckpointAssumption DEF RInv, SInv, CheckpointTypeOK, Steps
<1> DEFINE m == Max(Surplus(files[r]))
<1>4. m \in Surplus(files[r])
  <2>1. Surplus(files[r]) \subseteq 0 .. MaxSteps
    BY <1>3 DEF Surplus
  <2> QED BY <2>1, MaxIsGreatest
<1>5. m # step[r]
  <2> SUFFICES ASSUME m = step[r] PROVE FALSE
    OBVIOUS
  <2>1. Cardinality({t \in files[r] : t > step[r]}) >= 2
    BY <1>4 DEF Surplus
  <2>2. {t \in files[r] : t > step[r]} = {}
    <3> SUFFICES ASSUME NEW t \in files[r], t > step[r] PROVE FALSE
      OBVIOUS
    <3>1. t \in Nat /\ step[r] \in Nat /\ t <= step[r]
      BY <1>1, <1>2, <1>3
    <3> QED BY <3>1
  <2>3. Cardinality({t \in files[r] : t > step[r]}) = 0
    BY <2>2, FS_EmptySet
  <2> QED BY <2>1, <2>3
<1> HIDE DEF m
<1>6. \A q \in Ranks : step[r] \in files'[q]
  <2>1. \A q \in Ranks : step[r] \in files[q]
    BY <1>1 DEF Common
  <2>2. files' = [files EXCEPT ![r] = files[r] \ {m}]
    BY DEF m
  <2> QED BY <2>1, <2>2, <1>5 DEF RInv, SInv, CheckpointTypeOK
<1>7. \A c \in Common : c <= step[r]
  <2>1. PICK q \in Ranks : TRUE
    BY CheckpointAssumption
  <2> QED BY <2>1, <1>2 DEF Common
<1> QED BY <1>1, <1>6, <1>7 DEF Common

LEMMA PruneKeepsRun ==
  ASSUME RInv, NEW r \in Ranks, Prune(r)
  PROVE  RInv'
<1>1. SInv'
  BY PruneKeepsSession DEF RInv
<1>2. /\ pc[r] = "pruning" /\ UNCHANGED <<step, every, budget, confirmed>>
      /\ \/ /\ files' = [files EXCEPT ![r] = files[r] \ {Max(Surplus(files[r]))}]
            /\ Surplus(files[r]) # {}
         \/ files' = files
      /\ pc' = pc \/ pc' = [pc EXCEPT ![r] = "pruned"]
  BY DEF Prune, session, RInv, SInv, CheckpointTypeOK
<1>3. \A q \in Ranks : /\ step[q] \in Nat
                       /\ files[q] \subseteq Steps
                       /\ files'[q] \subseteq files[q]
  <2>1. files \in [Ranks -> SUBSET Steps] /\ step \in [Ranks -> 0 .. MaxSteps]
    BY DEF RInv, SInv, CheckpointTypeOK
  <2>2. \A q \in Ranks : files'[q] \subseteq files[q]
    BY <1>2, <2>1
  <2> QED BY <2>1, <2>2
<1>4. \A q \in Ranks : /\ Saving(q)' <=> Saving(q)
                       /\ Clearing(q)' <=> Clearing(q)
                       /\ Due(step[q])' <=> Due(step[q])
                       /\ step'[q] = step[q]
                       /\ pc'[q] = pc[q] \/ (pc[q] = "pruning" /\ pc'[q] = "pruned")
  <2>1. pc \in [Ranks -> Ended \cup Waiting \cup {"loading", "writing", "pruning"}]
    BY DEF RInv, SInv, CheckpointTypeOK
  <2>2. \A q \in Ranks : pc'[q] = pc[q] \/ (pc[q] = "pruning" /\ pc'[q] = "pruned")
    BY <2>1, <1>2
  <2> QED BY <2>2, <1>2 DEF Saving, Clearing, Due
<1>5. Clearing(r) /\ pc[r] \notin Ended /\ pc[r] \notin Away /\ step[r] \in Common
  BY <1>2 DEF RInv, Written, Clearing, Ended, Away
<1>6. step[r] \in Common' /\ \A c \in Common : c \in Common' \/ c <= step[r]
  <2>1. CASE files' = files
    BY <2>1, <1>5 DEF Common
  <2>2. CASE /\ files' = [files EXCEPT ![r] = files[r] \ {Max(Surplus(files[r]))}]
             /\ Surplus(files[r]) # {}
    BY <2>2, <1>2, PruneKeepsStep
  <2> QED BY <2>1, <2>2, <1>2
<1>7. \A d \in Nat : Covered(d) => Covered(d)'
  <2> SUFFICES ASSUME NEW d \in Nat, NEW c \in Common, c >= d
               PROVE  Covered(d)'
    BY DEF Covered
  <2>1. c \in Nat
    BY DEF Common, Steps
  <2>2. CASE c \in Common'
    BY <2>2 DEF Covered
  <2>3. CASE c <= step[r]
    <3>1. step[r] >= d
      BY <2>1, <2>3, <1>3
    <3> QED BY <3>1, <1>6 DEF Covered
  <2> QED BY <2>2, <2>3, <1>6
<1>8. \A d \in Steps : d \in Nat /\ (Covered(d) => Covered(d)') /\ (Due(d)' <=> Due(d))
  BY <1>2, <1>7 DEF Steps, Due
<1>9. InStep'
  BY <1>4 DEF RInv, InStep, Away
<1>10. SavedWhenDue'
  BY <1>4 DEF RInv, SavedWhenDue
<1>11. Written'
  <2> SUFFICES ASSUME NEW q \in Ranks
               PROVE  /\ pc'[q] # "wrote"
                      /\ Clearing(q)' => step'[q] \in Common'
    BY DEF Written
  <2>1. pc[q] \notin Away => Clearing(q) /\ step[q] = step[r]
    BY <1>5 DEF RInv, InStep
  <2> QED BY <2>1, <1>4, <1>6 DEF Clearing, Away
<1>12. NoneBeyondDue'
  BY <1>3, <1>8 DEF RInv, NoneBeyondDue
<1>13. LeftCovered'
  BY <1>4, <1>8 DEF RInv, LeftCovered, Ended, Away
<1>14. NextIsNewest'
  BY <1>3, <1>4, <1>8 DEF RInv, NextIsNewest, Ended, Away
<1>15. ConfirmedIsRecoverable'
  <2>1. confirmed \in Nat
    BY DEF RInv, SInv, CheckpointTypeOK
  <2> QED BY <2>1, <1>2, <1>7 DEF RInv, ConfirmedIsRecoverable, Covered
<1> QED BY <1>1, <1>9, <1>10, <1>11, <1>12, <1>13, <1>14, <1>15 DEF RInv


LEMMA AllPrunedKeepsRun ==
  ASSUME RInv, AllPruned
  PROVE  RInv'
<1>1. SInv'
  BY AllPrunedKeepsSession DEF RInv
<1>2. /\ \A r \in Ranks : pc[r] = "pruned"
      /\ UNCHANGED <<step, files, failed, every, budget>>
  BY DEF AllPruned, Collect, session
<1>3. CASE /\ pc' = [r \in Ranks |-> "down"]
           /\ confirmed' = confirmed
  BY <1>1, <1>2, <1>3, GoingDownKeepsRun DEF Away
<1>4. CASE /\ pc' = Proceed
           /\ confirmed' = Max({step[r] : r \in Ranks})
  <2>1. /\ Common' = Common /\ NoneBeyondDue'
        /\ \A d \in Steps : Covered(d)' <=> Covered(d)
        /\ \A d \in Steps : Due(d)' <=> Due(d)
    BY <1>2, SameFiles
  <2>2. \A p, q \in Ranks : step[p] = step[q]
    BY <1>2 DEF RInv, InStep, Clearing, Away
  <2>3. \A r \in Ranks : /\ Clearing(r) /\ ~Clearing(r)' /\ ~Saving(r)' /\ ~Saving(r)
                         /\ pc[r] \notin Ended
                         /\ pc'[r] \in {"training", "done"}
                         /\ step'[r] = step[r]
    BY <1>2, <1>4 DEF Proceed, Saving, Clearing, Ended, Away
  <2>4. \A r \in Ranks : step[r] \in Common /\ step[r] \in Nat
    BY <2>3 DEF RInv, SInv, WithinBudget, Written, Steps
  <2>5. InStep'
    BY <2>2, <2>3, <2>4 DEF InStep
  <2>6. SavedWhenDue' /\ Written'
    BY <2>3 DEF SavedWhenDue, Written
  <2>7. LeftCovered'
    BY <2>1, <2>3 DEF RInv, LeftCovered
  <2>8. NextIsNewest'
    BY <1>2, <2>1, <2>3 DEF RInv, NextIsNewest
  <2>9. ConfirmedIsRecoverable'
    <3>1. PICK r \in Ranks : confirmed' = step[r]
      BY <1>4, GreatestStep DEF RInv, SInv
    <3> QED BY <3>1, <2>1, <2>4 DEF ConfirmedIsRecoverable
  <2> QED BY <1>1, <2>1, <2>5, <2>6, <2>7, <2>8, <2>9 DEF RInv
<1> QED BY <1>3, <1>4 DEF AllPruned, Collect

LEMMA RunInit == Init => RInv
<1> SUFFICES ASSUME Init PROVE RInv
  OBVIOUS
<1>1. SInv
  BY SessionInit
<1>2. \A r \in Ranks : pc[r] = "down" /\ files[r] = {} /\ step[r] = 0
  BY DEF Init
<1>3. InStep /\ SavedWhenDue /\ Written
  BY <1>2 DEF InStep, SavedWhenDue, Written, Saving, Clearing, Away
<1>4. NoneBeyondDue /\ LeftCovered /\ NextIsNewest
  BY <1>2 DEF NoneBeyondDue, LeftCovered, NextIsNewest, Ended, Away
<1>5. ConfirmedIsRecoverable
  BY DEF Init, ConfirmedIsRecoverable
<1> QED BY <1>1, <1>3, <1>4, <1>5 DEF RInv

LEMMA RunStep ==
  ASSUME KeepInterval
  PROVE  RInv /\ [Next]_vars => RInv'
<1> SUFFICES ASSUME RInv, [Next]_vars PROVE RInv'
  OBVIOUS
<1>1. CASE UNCHANGED vars
  <2>1. SInv'
    BY SessionStep DEF RInv
  <2>2. UNCHANGED <<pc, step, files, every, budget, confirmed, failed>>
    BY <1>1 DEF vars
  <2> QED BY <2>1, <2>2, GoingDownKeepsRun
<1>2. ASSUME NEW k \in Intervals, NEW n \in Steps, Start(k, n) PROVE RInv'
  BY <1>2, StartKeepsRun
<1>3. ASSUME NEW k \in Intervals, NEW n \in Steps, Resume(k, n) PROVE RInv'
  BY <1>3, ResumeKeepsRun
<1>4. ASSUME NEW r \in Ranks, Trim(r) PROVE RInv'
  BY <1>4, TrimKeepsRun
<1>5. ASSUME NEW r \in Ranks, Train(r) PROVE RInv'
  BY <1>5, TrainKeepsRun
<1>6. ASSUME NEW r \in Ranks, Write(r) PROVE RInv'
  BY <1>6, WriteKeepsRun
<1>7. ASSUME NEW r \in Ranks, Prune(r) PROVE RInv'
  BY <1>7, PruneKeepsRun
<1>8. ASSUME NEW r \in Ranks, Crash(r) PROVE RInv'
  BY <1>8, CrashKeepsRun
<1>9. ASSUME NEW r \in Ranks, Abandon(r) PROVE RInv'
  BY <1>9, AbandonKeepsRun
<1>10. CASE AllWrote
  BY <1>10, AllWroteKeepsRun
<1>11. CASE AllPruned
  BY <1>11, AllPrunedKeepsRun
<1> QED BY <1>1, <1>2, <1>3, <1>4, <1>5, <1>6, <1>7, <1>8, <1>9, <1>10, <1>11 DEF Next

\* A step that was reported as checkpoint_saved stays recoverable: whatever
\* crashes, fails to be written and is resumed later, all ranks have a version of
\* that step or of a later one.  This holds for runs that are resumed with the
\* interval they began with; without that premise the run checkpoint_changed
\* refutes it (save_checkpoint, load_common_checkpoint).
THEOREM ConfirmedStaysRecoverable ==
  ASSUME KeepInterval
  PROVE  Spec => []ConfirmedIsRecoverable
<1>1. RInv => ConfirmedIsRecoverable
  BY DEF RInv
<1>2. Init => RInv
  BY RunInit
<1>3. RInv /\ [Next]_vars => RInv'
  BY RunStep
<1> QED BY <1>1, <1>2, <1>3, PTL DEF Spec
=============================================================================
