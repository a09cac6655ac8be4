--------------------------- MODULE TrainingProofs ---------------------------
(***************************************************************************)
(* Proofs about the training side, for any plans, jobs and synchronizers:  *)
(*   - lemmas about programs, the sequences of calls a rank has still to   *)
(*     make: which kinds of calls come before, after or never;             *)
(*   - ClassificationRun: nobody updates before all ranks agree;           *)
(*   - TaskRuns: the ranks that train have the same settings and start;    *)
(*     and schedules, in which all ranks' programs are played together, of *)
(*     the way of all micro-batches forward and back (TaskScheduleProofs   *)
(*     has those of a batch, a step and a program, and follows them);      *)
(*   - Compression: what a replica adds to its residual is sent once or    *)
(*     kept.  This needs neither that the largest coordinates are sent nor *)
(*     how many: any selection of a bucket conserves what was accumulated. *)
(***************************************************************************)
EXTENDS ClassificationRun, TaskRuns, Compression, FiniteSetTheorems, WellFoundedInduction, TLAPS

------------------------------------------------------------------------------
LEMMA LeastOfSet ==
  ASSUME NEW S \in SUBSET Nat, S # {}
  PROVE  \E m \in S : \A x \in S : m <= x
<1>1. IsWellFoundedOn(OpToRel(<, Nat), Nat)
  BY NatLessThanWellFounded
<1>2. PICK m \in S : \A y \in S : ~(<<y, m>> \in OpToRel(<, Nat))
  BY <1>1, WFMin
<1>3. \A y \in S : ~(y < m)
  BY <1>2 DEF OpToRel
<1> QED BY <1>3

\* The function that flattens the first m sequences.
Flattens(f, s, m) == f = [i \in 1 .. m |-> IF i = 1 THEN s[i] ELSE f[i - 1] \o s[i]]

LEMMA FlattenExists ==
  ASSUME NEW s, NEW n \in Nat, n > 0
  PROVE  \E f : Flattens(f, s, n)
<1> DEFINE Bad == {m \in Nat : m > 0 /\ ~\E f : Flattens(f, s, m)}
<1>1. SUFFICES Bad = {}
  OBVIOUS
<1>2. SUFFICES ASSUME Bad # {} PROVE FALSE
  OBVIOUS
<1>3. PICK m \in Bad : \A x \in Bad : m <= x
  BY <1>2, LeastOfSet
<1>4. m \in Nat /\ m > 0 /\ ~\E f : Flattens(f, s, m)
  OBVIOUS
<1>5. CASE m = 1
  <2> DEFINE g == [i \in 1 .. 1 |-> s[1]]
  <2>1. Flattens(g, s, 1)
    BY DEF Flattens
  <2> QED BY <1>4, <1>5, <2>1
<1>6. CASE m # 1
  <2>1. m - 1 \in Nat /\ m - 1 > 0 /\ m - 1 \notin Bad
    BY <1>3, <1>4, <1>6
  <2>2. PICK f : Flattens(f, s, m - 1)
    BY <2>1
  <2> DEFINE g == [i \in 1 .. m |-> IF i = m THEN f[m - 1] \o s[m] ELSE f[i]]
  <2>3. ASSUME NEW i \in 1 .. m PROVE g[i] = IF i = 1 THEN s[i] ELSE g[i - 1] \o s[i]
    <3>1. CASE i = m
      <4>1. i - 1 \in 1 .. m /\ i - 1 # m /\ i # 1
        BY <1>4, <1>6, <3>1
      <4>2. g[i] = f[m - 1] \o s[m] /\ g[i - 1] = f[i - 1]
        BY <3>1, <4>1
      <4> QED BY <3>1, <4>1, <4>2
    <3>2. CASE i # m
      <4>1. i \in 1 .. m - 1 /\ (i # 1 => i - 1 \in 1 .. m - 1 /\ i - 1 # m)
        BY <1>4, <3>2
      <4>2. g[i] = f[i] /\ (i # 1 => g[i - 1] = f[i - 1])
        BY <3>2, <4>1, <1>4
      <4>3. f[i] = IF i = 1 THEN s[i] ELSE f[i - 1] \o s[i]
        BY <2>2, <4>1 DEF Flattens
      <4> QED BY <4>2, <4>3
    <3> QED BY <3>1, <3>2
  <2>4. g = [i \in 1 .. m |-> g[i]]
    OBVIOUS
  <2> HIDE DEF g
  <2>5. g = [i \in 1 .. m |-> IF i = 1 THEN s[i] ELSE g[i - 1] \o s[i]]
    BY <2>3, <2>4
  <2> QED BY <1>4, <2>5 DEF Flattens
<1> QED BY <1>5, <1>6

LEMMA FlattensSeq ==
  ASSUME NEW S, NEW n \in Nat, NEW s, \A i \in 1 .. n : s[i] \in Seq(S),
         NEW f, Flattens(f, s, n)
  PROVE  \A i \in 1 .. n : f[i] \in Seq(S)
<1> DEFINE Bad == {i \in 1 .. n : f[i] \notin Seq(S)}
<1>1. SUFFICES ASSUME Bad # {} PROVE FALSE
  OBVIOUS
<1>2. Bad \in SUBSET Nat
  OBVIOUS
<1>3. PICK m \in Bad : \A x \in Bad : m <= x
  BY <1>1, <1>2, LeastOfSet
<1>4. m \in 1 .. n /\ f[m] \notin Seq(S) /\ s[m] \in Seq(S)
  OBVIOUS
<1>5. f[m] = IF m = 1 THEN s[m] ELSE f[m - 1] \o s[m]
  BY <1>4 DEF Flattens
<1>6. m # 1
  BY <1>4, <1>5
<1>7. m - 1 \in 1 .. n /\ m - 1 \notin Bad
  BY <1>3, <1>4, <1>6
<1>8. f[m - 1] \in Seq(S)
  BY <1>7
<1>9. f[m - 1] \o s[m] \in Seq(S)
  BY <1>4, <1>8
<1> QED BY <1>4, <1>5, <1>6, <1>9

LEMMA FlattenIsSeq ==
  ASSUME NEW S, NEW s \in Seq(Seq(S))
  PROVE  FlattenSeq(s) \in Seq(S)
<1>1. CASE Len(s) = 0
  BY <1>1 DEF FlattenSeq
<1>2. CASE Len(s) # 0
  <2> DEFINE n == Len(s)
             flatten[i \in 1 .. Len(s)] == IF i = 1 THEN s[i] ELSE flatten[i - 1] \o s[i]
  <2>0. n \in Nat /\ n > 0 /\ \A i \in 1 .. n : s[i] \in Seq(S)
    BY <1>2
  <2>1. \E f : f = [i \in 1 .. Len(s) |-> IF i = 1 THEN s[i] ELSE f[i - 1] \o s[i]]
    BY <2>0, FlattenExists DEF Flattens
  <2>2. flatten = [i \in 1 .. Len(s) |-> IF i = 1 THEN s[i] ELSE flatten[i - 1] \o s[i]]
    BY <2>1
  <2>3. FlattenSeq(s) = flatten[n]
    BY <1>2 DEF FlattenSeq
  <2> HIDE DEF flatten
  <2>4. Flattens(flatten, s, n)
    BY <2>2 DEF Flattens
  <2> HIDE DEF n
  <2>5. \A i \in 1 .. n : flatten[i] \in Seq(S)
    BY <2>0, <2>4, FlattensSeq
  <2> QED BY <2>0, <2>3, <2>5
<1> QED BY <1>1, <1>2

------------------------------------------------------------------------------
(* Orders of calls in a program.  Only the kinds of the calls matter.       *)

Guarded(p, g, u) == \A i \in 1 .. Len(p) : p[i].what = u => \E j \in 1 .. i - 1 : p[j].what = g
Never(p, u) == \A i \in 1 .. Len(p) : p[i].what # u
NeverAfter(p, g, u) == \A i \in 1 .. Len(p) : \A j \in 1 .. i - 1 : p[j].what = g => p[i].what # u
Sealed(p, g, u) == Guarded(p, g, u) /\ \E i \in 1 .. Len(p) : p[i].what = g

\* A program goes on: it ends, or drops its first k calls.
Drops(p, q, k) ==
  /\ k \in 0 .. Len(p) /\ Len(q) = Len(p) - k
  /\ \A i \in 1 .. Len(q) : q[i] = p[k + i]

LEMMA DroppedGuard ==
  ASSUME NEW S, NEW p \in Seq(S), NEW q \in Seq(S), NEW k, Drops(p, q, k), NEW g, NEW u,
         \A i \in 1 .. k : p[i].what # g
  PROVE  Guarded(p, g, u) => Guarded(q, g, u)
<1> SUFFICES ASSUME Guarded(p, g, u), NEW i \in 1 .. Len(q), q[i].what = u
             PROVE  \E j \in 1 .. i - 1 : q[j].what = g
  BY DEF Guarded
<1>1. k \in Nat /\ Len(p) \in Nat /\ Len(q) = Len(p) - k /\ Len(q) \in Nat
  BY DEF Drops
<1>2. k + i \in 1 .. Len(p) /\ p[k + i] = q[i]
  BY <1>1 DEF Drops
<1> DEFINE n == k + i
<1>7. n \in 1 .. Len(p) /\ p[n].what = u
  BY <1>2
<1>8. \A m \in 1 .. Len(p) : p[m].what = u => \E j \in 1 .. m - 1 : p[j].what = g
  BY DEF Guarded
<1> HIDE DEF n
<1>9. \E j \in 1 .. n - 1 : p[j].what = g
  BY <1>7, <1>8
<1>3. PICK j \in 1 .. n - 1 : p[j].what = g
  BY <1>9
<1>10. n = k + i
  BY DEF n
<1>4. j \notin 1 .. k
  BY <1>3
<1>5. j - k \in 1 .. i - 1 /\ j - k \in 1 .. Len(q) /\ k + (j - k) = j
  BY <1>1, <1>3, <1>4, <1>10
<1>6. q[j - k] = p[k + (j - k)]
  BY <1>5 DEF Drops
<1> QED BY <1>3, <1>5, <1>6

LEMMA DroppedNever ==
  ASSUME NEW S, NEW p \in Seq(S), NEW q \in Seq(S), NEW k, Drops(p, q, k), NEW u
  PROVE  Never(p, u) => Never(q, u)
<1>1. k \in Nat /\ Len(p) \in Nat /\ Len(q) = Len(p) - k /\ Len(q) \in Nat
  BY DEF Drops
<1>2. \A i \in 1 .. Len(q) : k + i \in 1 .. Len(p) /\ p[k + i] = q[i]
  BY <1>1 DEF Drops
<1> QED BY <1>2 DEF Never

LEMMA DroppedNeverAfter ==
  ASSUME NEW S, NEW p \in Seq(S), NEW q \in Seq(S), NEW k, Drops(p, q, k), NEW g, NEW u
  PROVE  NeverAfter(p, g, u) => NeverAfter(q, g, u)
<1> SUFFICES ASSUME NeverAfter(p, g, u), NEW i \in 1 .. Len(q), NEW j \in 1 .. i - 1, q[j].what = g
             PROVE  q[i].what # u
  BY DEF NeverAfter
<1>1. k \in Nat /\ Len(p) \in Nat /\ Len(q) = Len(p) - k /\ Len(q) \in Nat
  BY DEF Drops
<1>2. j \in 1 .. Len(q)
  BY <1>1
<1> DEFINE n == k + i
           m == k + j
<1>3. n \in 1 .. Len(p) /\ p[n] = q[i] /\ m \in 1 .. n - 1 /\ p[m] = q[j]
  BY <1>1, <1>2 DEF Drops
<1>4. \A x \in 1 .. Len(p) : \A y \in 1 .. x - 1 : p[y].what = g => p[x].what # u
  BY DEF NeverAfter
<1> HIDE DEF n, m
<1> QED BY <1>3, <1>4

LEMMA TailDrops ==
  ASSUME NEW S, NEW p \in Seq(S), p # <<>>
  PROVE  Tail(p) \in Seq(S) /\ Drops(p, Tail(p), 1) /\ Head(p) = p[1] /\ Head(p) \in S /\ 1 \in 1 .. Len(p)
BY DEF Drops

LEMMA NothingDrops ==
  ASSUME NEW S, NEW p \in Seq(S)
  PROVE  Drops(p, p, 0)
BY DEF Drops

\* The call at the head is not one that has to be guarded; nothing forbidden
\* follows the call that forbids it.
LEMMA HeadFacts ==
  ASSUME NEW S, NEW p \in Seq(S), p # <<>>, NEW g, NEW u
  PROVE  /\ Guarded(p, g, u) => Head(p).what # u
         /\ Never(p, u) => Head(p).what # u
         /\ (NeverAfter(p, g, u) /\ Head(p).what = g) => Never(Tail(p), u)
<1>1. 1 \in 1 .. Len(p) /\ Head(p) = p[1] /\ ~\E j \in 1 .. 1 - 1 : TRUE
  OBVIOUS
<1>2. Guarded(p, g, u) => Head(p).what # u
  BY <1>1 DEF Guarded
<1>3. Never(p, u) => Head(p).what # u
  BY <1>1 DEF Never
<1>4. ASSUME NeverAfter(p, g, u), Head(p).what = g PROVE Never(Tail(p), u)
  <2> SUFFICES ASSUME NEW i \in 1 .. Len(Tail(p)) PROVE Tail(p)[i].what # u
    BY DEF Never
  <2>1. Tail(p)[i] = p[i + 1] /\ i + 1 \in 1 .. Len(p) /\ 1 \in 1 .. (i + 1) - 1
    OBVIOUS
  <2> QED BY <1>1, <1>4, <2>1 DEF NeverAfter
<1> QED BY <1>2, <1>3, <1>4

LEMMA EmptyProgram ==
  ASSUME NEW g, NEW u
  PROVE  Guarded(<<>>, g, u) /\ Never(<<>>, u) /\ NeverAfter(<<>>, g, u)
BY DEF Guarded, Never, NeverAfter

\* Concatenation.
LEMMA ConcatenatedCalls ==
  ASSUME NEW S, NEW p \in Seq(S), NEW q \in Seq(S)
  PROVE  /\ p \o q \in Seq(S) /\ Len(p) \in Nat /\ Len(q) \in Nat /\ Len(p \o q) = Len(p) + Len(q)
         /\ \A i \in 1 .. Len(p) : (p \o q)[i] = p[i]
         /\ \A i \in 1 .. Len(q) : (p \o q)[Len(p) + i] = q[i]
         /\ \A i \in 1 .. Len(p \o q) :
              \/ i \in 1 .. Len(p) /\ (p \o q)[i] = p[i]
              \/ i - Len(p) \in 1 .. Len(q) /\ (p \o q)[i] = q[i - Len(p)]
OBVIOUS

LEMMA ConcatNever ==
  ASSUME NEW S, NEW p \in Seq(S), NEW q \in Seq(S), NEW u
  PROVE  Never(p, u) /\ Never(q, u) => Never(p \o q, u)
BY ConcatenatedCalls DEF Never

LEMMA ConcatNeverAfter ==
  ASSUME NEW S, NEW p \in Seq(S), NEW q \in Seq(S), NEW g, NEW u, Never(q, u)
  PROVE  NeverAfter(p, g, u) => NeverAfter(p \o q, g, u)
<1> DEFINE r == p \o q
<1> SUFFICES ASSUME NeverAfter(p, g, u), NEW i \in 1 .. Len(r), NEW j \in 1 .. i - 1, r[j].what = g
             PROVE  r[i].what # u
  BY DEF NeverAfter
<1>0. Len(p) \in Nat /\ Len(q) \in Nat /\ Len(r) = Len(p) + Len(q) /\ j \in 1 .. Len(r)
  BY ConcatenatedCalls
<1>1. CASE i \in 1 .. Len(p)
  <2>1. j \in 1 .. Len(p)
    BY <1>0, <1>1
  <2>2. r[i] = p[i] /\ r[j] = p[j]
    BY <1>1, <2>1, ConcatenatedCalls
  <2> QED BY <1>1, <2>2 DEF NeverAfter
<1>2. CASE i \notin 1 .. Len(p)
  <2>1. i - Len(p) \in 1 .. Len(q) /\ r[i] = q[i - Len(p)]
    BY <1>2, ConcatenatedCalls
  <2> QED BY <2>1 DEF Never
<1> QED BY <1>1, <1>2

LEMMA ConcatSealed ==
  ASSUME NEW S, NEW p \in Seq(S), NEW q \in Seq(S), NEW g, NEW u, Sealed(p, g, u)
  PROVE  Sealed(p \o q, g, u)
<1> DEFINE r == p \o q
<1>0. Len(p) \in Nat /\ Len(q) \in Nat /\ Len(r) = Len(p) + Len(q)
  BY ConcatenatedCalls
<1>1. PICK k \in 1 .. Len(p) : p[k].what = g
  BY DEF Sealed
<1>2. k \in 1 .. Len(r) /\ r[k].what = g
  BY <1>0, <1>1, ConcatenatedCalls
<1>3. ASSUME NEW i \in 1 .. Len(r), r[i].what = u PROVE \E j \in 1 .. i - 1 : r[j].what = g
  <2>1. CASE i \in 1 .. Len(p)
    <3>1. p[i].what = u
      BY <1>3, <2>1, ConcatenatedCalls
    <3>2. PICK j \in 1 .. i - 1 : p[j].what = g
      BY <2>1, <3>1 DEF Sealed, Guarded
    <3>3. j \in 1 .. Len(p)
      BY <2>1
    <3> QED BY <3>2, <3>3, ConcatenatedCalls
  <2>2. CASE i \notin 1 .. Len(p)
    BY <1>0, <1>1, <1>2, <2>2
  <2> QED BY <2>1, <2>2
<1> QED BY <1>2, <1>3 DEF Sealed, Guarded

LEMMA SealingCall ==
  ASSUME NEW S, NEW p \in Seq(S), NEW c \in S, NEW u, Never(p, u), c.what # u
  PROVE  Sealed(p \o <<c>>, c.what, u)
<1> DEFINE r == p \o <<c>>
<1>1. <<c>> \in Seq(S) /\ Len(<<c>>) = 1
  OBVIOUS
<1>2. Never(<<c>>, u)
  BY DEF Never
<1>3. Never(r, u)
  BY <1>1, <1>2, ConcatNever
<1>4. Len(p) + 1 \in 1 .. Len(r) /\ r[Len(p) + 1] = c
  BY <1>1, ConcatenatedCalls
<1>5. \E i \in 1 .. Len(r) : r[i].what = c.what
  BY <1>4
<1> QED BY <1>3, <1>5 DEF Sealed, Guarded, Never

------------------------------------------------------------------------------
(* The classification runner's calls and programs.                         *)

\* Calls all ranks make together, and work of a rank's own.
Worldwide ==
  {"join", "consensus", "assignments", "vocabulary", "vocabularies", "plans", "collect", "barrier", "measurements"}
Locally == {"update", "measure", "wait", "import_nccl"}
Kinds ==
  Worldwide \cup Locally \cup
  {"setup", "nccl", "require_nccl", "data_nccl", "attempt", "listen", "serve", "activation", "gradient", "reduce"}

ClassCalls ==
  {c \in [do : {"meet", "send", "recv", "local"}, what : Kinds, with : SUBSET Int, slot : Int] :
     /\ c.what \in Worldwide => c.do = "meet" /\ c.with = Launched
     /\ c.what \in Locally => c.do = "local"
     /\ c.what = "nccl" => c.do = "meet" /\ c.with \subseteq Launched}
CallsOf(W) == {c \in ClassCalls : c.what \in W}

\* An import of NCCL is followed by the rendezvous that needs it.
Paired(p) ==
  \A i \in 1 .. Len(p) : p[i].what = "import_nccl" => i + 1 \in 1 .. Len(p) /\ p[i + 1].what = "nccl"

\* Rank 0 still has to wait for its children.
Waits(p) == p # <<>> /\ p[Len(p)].what = "wait"

LEMMA LaunchedRanks ==
  ASSUME plan \in Plans
  PROVE  /\ Launched \subseteq Nat /\ 0 \in Launched /\ IsFiniteSet(Launched) /\ Cardinality(Launched) \in Nat
         /\ \A w \in Launched : PipelineOf(w) \subseteq Int /\ ReplicasOf(w) \subseteq Int
<1>1. plan.stages * plan.replicas \in Nat /\ plan.stages * plan.replicas > 0
  <2> DEFINE s == plan.stages
             r == plan.replicas
  <2>1. s \in Nat /\ r \in Nat /\ s > 0 /\ r > 0
    BY ClassificationAssumption
  <2> HIDE DEF s, r
  <2>2. s * r \in Nat /\ s * r > 0
    BY <2>1
  <2> QED BY <2>2 DEF s, r
<1> DEFINE n == plan.stages * plan.replicas
<1>2. n - 1 \in Int /\ Launched = 0 .. n - 1
  BY <1>1 DEF Launched
<1> HIDE DEF n
<1>3. Launched \subseteq Nat /\ IsFiniteSet(Launched)
  BY <1>2, FS_Interval
<1>4. 0 \in Launched
  BY <1>1, <1>2 DEF n
<1>5. Cardinality(Launched) \in Nat
  BY <1>3, FS_CardinalityType
<1>6. \A w \in Launched : PipelineOf(w) \subseteq Launched /\ ReplicasOf(w) \subseteq Launched
  BY DEF PipelineOf, ReplicasOf
<1>7. Nat \subseteq Int
  OBVIOUS
<1> QED BY <1>3, <1>4, <1>5, <1>6, <1>7

LEMMA SubCalls ==
  ASSUME NEW V, NEW W, V \subseteq W, NEW p \in Seq(CallsOf(V))
  PROVE  p \in Seq(CallsOf(W))
<1>1. CallsOf(V) \subseteq CallsOf(W)
  BY DEF CallsOf
<1> QED BY <1>1

LEMMA CallsNever ==
  ASSUME NEW W, NEW p \in Seq(CallsOf(W)), NEW u, u \notin W
  PROVE  Never(p, u) /\ p \in Seq(ClassCalls)
<1>1. CallsOf(W) \subseteq ClassCalls
  BY DEF CallsOf
<1>2. \A i \in 1 .. Len(p) : p[i] \in CallsOf(W)
  OBVIOUS
<1> QED BY <1>1, <1>2 DEF Never, CallsOf

LEMMA SingleCall ==
  ASSUME NEW S, NEW c \in S
  PROVE  <<c>> \in Seq(S)
OBVIOUS

LEMMA CallOfSingle ==
  ASSUME NEW S, NEW c, <<c>> \in Seq(S)
  PROVE  c \in S
<1>1. 1 \in 1 .. Len(<<c>>) /\ <<c>>[1] = c
  OBVIOUS
<1> QED BY <1>1

LEMMA OneCall ==
  ASSUME NEW what \in Kinds, NEW i \in Int
  PROVE  /\ what \notin Worldwide \cup {"nccl"} => <<Alone(what, i)>> \in Seq(CallsOf({what}))
         /\ (plan \in Plans /\ what \notin Locally) => Everyone(what) \in Seq(CallsOf({what}))
         /\ \A G \in SUBSET Int : what \notin Worldwide \cup Locally \cup {"nccl"} => <<Together(what, G)>> \in Seq(CallsOf({what}))
         /\ \A q \in Int : what \notin Worldwide \cup Locally \cup {"nccl"} =>
              <<SendTo(q, what, i)>> \in Seq(CallsOf({what})) /\ <<RecvFrom(q, what, i)>> \in Seq(CallsOf({what}))
<1>1. ASSUME what \notin Worldwide \cup {"nccl"} PROVE <<Alone(what, i)>> \in Seq(CallsOf({what}))
  <2>1. Alone(what, i) \in CallsOf({what})
    BY <1>1 DEF Alone, Call, CallsOf, ClassCalls
  <2> QED BY <2>1, SingleCall
<1>2. ASSUME plan \in Plans, what \notin Locally PROVE Everyone(what) \in Seq(CallsOf({what}))
  <2>1. Launched \in SUBSET Int
    BY <1>2, LaunchedRanks
  <2>2. Together(what, Launched) \in CallsOf({what})
    BY <1>2, <2>1 DEF Together, Call, CallsOf, ClassCalls
  <2> QED BY <2>2, SingleCall DEF Everyone
<1>3. ASSUME NEW G \in SUBSET Int, what \notin Worldwide \cup Locally \cup {"nccl"} PROVE <<Together(what, G)>> \in Seq(CallsOf({what}))
  <2>1. Together(what, G) \in CallsOf({what})
    BY <1>3 DEF Together, Call, CallsOf, ClassCalls
  <2> QED BY <2>1, SingleCall
<1>4. ASSUME NEW q \in Int, what \notin Worldwide \cup Locally \cup {"nccl"}
      PROVE  <<SendTo(q, what, i)>> \in Seq(CallsOf({what})) /\ <<RecvFrom(q, what, i)>> \in Seq(CallsOf({what}))
  <2>1. SendTo(q, what, i) \in CallsOf({what}) /\ RecvFrom(q, what, i) \in CallsOf({what})
    BY <1>4 DEF SendTo, RecvFrom, Call, CallsOf, ClassCalls
  <2> QED BY <2>1, SingleCall
<1> QED BY <1>1, <1>2, <1>3, <1>4

LEMMA CallIn ==
  ASSUME NEW W, W \subseteq Kinds, NEW what \in W, NEW i \in Int
  PROVE  /\ what \notin Worldwide \cup {"nccl"} => <<Alone(what, i)>> \in Seq(CallsOf(W))
         /\ (plan \in Plans /\ what \notin Locally) => Everyone(what) \in Seq(CallsOf(W))
         /\ \A G \in SUBSET Int : what \notin Worldwide \cup Locally \cup {"nccl"} => <<Together(what, G)>> \in Seq(CallsOf(W))
         /\ \A q \in Int : what \notin Worldwide \cup Locally \cup {"nccl"} =>
              <<SendTo(q, what, i)>> \in Seq(CallsOf(W)) /\ <<RecvFrom(q, what, i)>> \in Seq(CallsOf(W))
<1>1. {what} \subseteq W /\ what \in Kinds
  OBVIOUS
<1>2. \A p \in Seq(CallsOf({what})) : p \in Seq(CallsOf(W))
  BY <1>1, SubCalls
<1> QED BY <1>1, <1>2, OneCall

LEMMA NoCalls ==
  ASSUME NEW S, NEW condition, NEW p \in Seq(S)
  PROVE  Optional(condition, p) \in Seq(S)
BY DEF Optional

LEMMA PairedConcat ==
  ASSUME NEW S, NEW p \in Seq(S), NEW q \in Seq(S), Paired(p), Paired(q)
  PROVE  Paired(p \o q)
<1> DEFINE r == p \o q
           n == Len(p)
<1>1. /\ n \in Nat /\ Len(q) \in Nat /\ Len(r) = n + Len(q)
      /\ \A i \in 1 .. n : r[i] = p[i]
      /\ \A i \in 1 .. Len(q) : r[n + i] = q[i]
  BY ConcatenatedCalls
<1>2. \A i \in 1 .. n : p[i].what = "import_nccl" => i + 1 \in 1 .. n /\ p[i + 1].what = "nccl"
  BY DEF Paired
<1>3. \A i \in 1 .. Len(q) : q[i].what = "import_nccl" => i + 1 \in 1 .. Len(q) /\ q[i + 1].what = "nccl"
  BY DEF Paired
<1> HIDE DEF r, n
<1>4. ASSUME NEW i \in 1 .. Len(r), r[i].what = "import_nccl"
      PROVE  i + 1 \in 1 .. Len(r) /\ r[i + 1].what = "nccl"
  <2>1. CASE i \in 1 .. n
    <3>1. p[i].what = "import_nccl"
      BY <1>1, <1>4, <2>1
    <3>2. i + 1 \in 1 .. n /\ p[i + 1].what = "nccl"
      BY <1>2, <2>1, <3>1
    <3> QED BY <1>1, <3>2
  <2>2. CASE i \notin 1 .. n
    <3>1. PICK k \in 1 .. Len(q) : i = n + k
      <4>0. n \in Nat /\ Len(q) \in Nat /\ i \in 1 .. n + Len(q)
        BY <1>1, <1>4
      <4>1. i - n \in 1 .. Len(q) /\ i = n + (i - n)
        BY ONLY <4>0, <2>2
      <4> QED BY <4>1
    <3>2. q[k].what = "import_nccl"
      BY <1>1, <1>4, <3>1
    <3>3. k + 1 \in 1 .. Len(q) /\ q[k + 1].what = "nccl"
      BY <1>3, <3>2
    <3>4. r[n + (k + 1)] = q[k + 1] /\ n + (k + 1) = i + 1 /\ i + 1 \in 1 .. Len(r)
      BY <1>1, <3>1, <3>3
    <3> QED BY <3>3, <3>4
  <2> QED BY <2>1, <2>2
<1> QED BY <1>4 DEF Paired, r

LEMMA UnpairedCalls ==
  ASSUME NEW p, Never(p, "import_nccl")
  PROVE  Paired(p)
BY DEF Never, Paired

LEMMA CommunicatorsCalls ==
  ASSUME plan \in Plans, NEW w \in Launched
  PROVE  /\ Communicators(w) \in Seq(CallsOf({"import_nccl", "nccl", "consensus", "require_nccl", "data_nccl"}))
         /\ Paired(Communicators(w))
<1> DEFINE W == {"import_nccl", "nccl", "consensus", "require_nccl", "data_nccl"}
           import == Alone("import_nccl", 0)
           rendezvous == Together("nccl", PipelineOf(w))
           first == <<import, rendezvous>>
           agree == Everyone("consensus")
           needs == Alone("require_nccl", 0)
           replicas == Together("data_nccl", ReplicasOf(w))
           require == <<needs, replicas>>
<1> HIDE DEF W
<1>0. W \subseteq Kinds /\ {"import_nccl", "nccl", "consensus", "require_nccl", "data_nccl"} \subseteq W
  BY DEF W, Kinds, Worldwide, Locally
<1>1. import \in CallsOf(W) /\ rendezvous \in CallsOf(W) /\ needs \in CallsOf(W) /\ replicas \in CallsOf(W)
  <2>1. PipelineOf(w) \in SUBSET Int /\ ReplicasOf(w) \in SUBSET Int /\ PipelineOf(w) \subseteq Launched
    BY LaunchedRanks DEF PipelineOf
  <2>0. {"import_nccl", "nccl", "require_nccl", "data_nccl"} \subseteq Kinds
    BY <1>0
  <2>2. import \in ClassCalls /\ needs \in ClassCalls
    BY <2>0 DEF ClassCalls, Alone, Call, Worldwide, Locally
  <2>3. rendezvous \in ClassCalls /\ replicas \in ClassCalls
    BY <2>0, <2>1 DEF ClassCalls, Together, Call, Worldwide, Locally
  <2>4. import.what = "import_nccl" /\ needs.what = "require_nccl" /\ rendezvous.what = "nccl" /\ replicas.what = "data_nccl"
    BY DEF Alone, Together, Call
  <2> QED BY <1>0, <2>2, <2>3, <2>4 DEF CallsOf
<1>2. agree \in Seq(CallsOf(W))
  <2>1. "consensus" \in W /\ 0 \in Int /\ "consensus" \notin Locally
    BY <1>0 DEF Locally
  <2> QED BY <1>0, <2>1, CallIn
<1>3. Paired(first) /\ Paired(agree) /\ Paired(require) /\ Paired(<<>>)
  <2>1. import.what = "import_nccl" /\ rendezvous.what = "nccl" /\ needs.what # "import_nccl" /\ replicas.what # "import_nccl"
    BY DEF Alone, Together, Call
  <2>2. Paired(<<>>) /\ Paired(agree)
    BY DEF Paired, Everyone, Together, Call
  <2> HIDE DEF import, rendezvous, needs, replicas
  <2>3. Len(first) = 2 /\ first[1] = import /\ first[2] = rendezvous /\ 1 .. 2 = {1, 2}
    OBVIOUS
  <2>4. Len(require) = 2 /\ require[1] = needs /\ require[2] = replicas
    OBVIOUS
  <2>5. Paired(first)
    BY <2>1, <2>3 DEF Paired
  <2>6. Paired(require)
    BY <2>1, <2>3, <2>4 DEF Paired
  <2> QED BY <2>2, <2>5, <2>6
<1>4. first \in Seq(CallsOf(W)) /\ require \in Seq(CallsOf(W)) /\ <<>> \in Seq(CallsOf(W))
  <2> HIDE DEF import, rendezvous, needs, replicas
  <2> QED BY <1>1
<1>5. Communicators(w) = Optional(UsesNccl, first \o agree) \o Optional(plan.replicas > 1, require)
  BY DEF Communicators
<1> HIDE DEF first, agree, require
<1>6. first \o agree \in Seq(CallsOf(W)) /\ Paired(first \o agree)
  BY <1>2, <1>3, <1>4, PairedConcat
<1>7. /\ Optional(UsesNccl, first \o agree) \in Seq(CallsOf(W)) /\ Paired(Optional(UsesNccl, first \o agree))
      /\ Optional(plan.replicas > 1, require) \in Seq(CallsOf(W)) /\ Paired(Optional(plan.replicas > 1, require))
  BY <1>3, <1>4, <1>6 DEF Optional
<1> QED BY <1>5, <1>7, PairedConcat DEF W

LEMMA PrefixSealed ==
  ASSUME NEW S, NEW p \in Seq(S), NEW q \in Seq(S), NEW g, NEW u, Never(p, u), Sealed(q, g, u)
  PROVE  Sealed(p \o q, g, u)
<1> DEFINE r == p \o q
           n == Len(p)
<1>1. /\ n \in Nat /\ Len(q) \in Nat /\ Len(r) = n + Len(q)
      /\ \A i \in 1 .. n : r[i] = p[i]
      /\ \A i \in 1 .. Len(q) : r[n + i] = q[i]
  BY ConcatenatedCalls
<1>2. PICK k \in 1 .. Len(q) : q[k].what = g
  BY DEF Sealed
<1>3. \A i \in 1 .. Len(q) : q[i].what = u => \E j \in 1 .. i - 1 : q[j].what = g
  BY DEF Sealed, Guarded
<1>4. \A i \in 1 .. n : p[i].what # u
  BY DEF Never
<1> HIDE DEF r, n
<1>5. n + k \in 1 .. Len(r) /\ r[n + k].what = g
  BY <1>1, <1>2
<1>6. ASSUME NEW i \in 1 .. Len(r), r[i].what = u PROVE \E j \in 1 .. i - 1 : r[j].what = g
  <2>1. i \notin 1 .. n
    BY <1>1, <1>4, <1>6
  <2>2. n \in Nat /\ Len(q) \in Nat /\ i \in 1 .. n + Len(q)
    BY <1>1, <1>6
  <2>3. PICK m \in 1 .. Len(q) : i = n + m
    <3>1. i - n \in 1 .. Len(q) /\ i = n + (i - n)
      BY ONLY <2>1, <2>2
    <3> QED BY <3>1
  <2>4. q[m].what = u
    BY <1>1, <1>6, <2>3
  <2>5. PICK j \in 1 .. m - 1 : q[j].what = g
    BY <1>3, <2>4
  <2>6. j \in 1 .. Len(q) /\ n + j \in 1 .. i - 1
    BY ONLY <2>2, <2>3, <2>5
  <2> QED BY <1>1, <2>5, <2>6
<1> QED BY <1>5, <1>6 DEF r, Sealed, Guarded

LEMMA PrefixNeverAfter ==
  ASSUME NEW S, NEW p \in Seq(S), NEW q \in Seq(S), NEW g, NEW u, Never(p, g), NeverAfter(q, g, u)
  PROVE  NeverAfter(p \o q, g, u)
<1> DEFINE r == p \o q
           n == Len(p)
<1>1. /\ n \in Nat /\ Len(q) \in Nat /\ Len(r) = n + Len(q)
      /\ \A i \in 1 .. n : r[i] = p[i]
      /\ \A i \in 1 .. Len(q) : r[n + i] = q[i]
  BY ConcatenatedCalls
<1>2. \A i \in 1 .. Len(q) : \A j \in 1 .. i - 1 : q[j].what = g => q[i].what # u
  BY DEF NeverAfter
<1>3. \A i \in 1 .. n : p[i].what # g
  BY DEF Never
<1> HIDE DEF r, n
<1>4. ASSUME NEW i \in 1 .. Len(r), NEW j \in 1 .. i - 1, r[j].what = g PROVE r[i].what # u
  <2>0. n \in Nat /\ Len(q) \in Nat /\ i \in 1 .. n + Len(q)
    BY <1>1
  <2>1. j \notin 1 .. n
    BY <1>1, <1>3, <1>4
  <2>2. /\ i - n \in 1 .. Len(q) /\ j - n \in 1 .. (i - n) - 1 /\ j - n \in 1 .. Len(q)
        /\ i = n + (i - n) /\ j = n + (j - n)
    BY ONLY <2>0, <2>1, j \in 1 .. i - 1
  <2>3. r[i] = q[i - n] /\ r[j] = q[j - n]
    BY <1>1, <2>2
  <2> QED BY <1>2, <1>4, <2>2, <2>3
<1> QED BY <1>4 DEF r, NeverAfter

LEMMA NeverNeverAfter ==
  ASSUME NEW S, NEW p \in Seq(S), NEW g, NEW u, Never(p, g)
  PROVE  NeverAfter(p, g, u)
BY DEF Never, NeverAfter

LEMMA TimesIsSeq ==
  ASSUME NEW S, NEW n \in Nat, NEW p \in Seq(S)
  PROVE  FlattenSeq(Times(n, p)) \in Seq(S)
<1>1. Times(n, p) \in Seq(Seq(S))
  BY DEF Times
<1> QED BY <1>1, FlattenIsSeq

LEMMA NegotiationCalls ==
  ASSUME plan \in Plans, NEW u, u \notin {"attempt", "collect", "vocabularies", "plans"}
  PROVE  /\ Negotiation \in Seq(CallsOf({"attempt", "collect", "vocabularies", "plans"}))
         /\ Sealed(Negotiation, "vocabularies", u) /\ Sealed(Negotiation, "plans", u)
<1> DEFINE W == {"attempt", "collect", "vocabularies", "plans"}
           C == CallsOf(W)
           vocabularies == Everyone("vocabularies")
           calibrations == FlattenSeq(Times(Cardinality(Launched), Collected))
           plans == Everyone("plans")
           before == Collected \o vocabularies \o Collected \o calibrations \o Collected
           after == Collected
<1>1. W \subseteq Kinds /\ W \cap Locally = {} /\ "attempt" \notin Worldwide \cup {"nccl"} /\ 0 \in Int
  BY DEF Kinds, Locally, Worldwide
<1> HIDE DEF W, C
<1>2. "attempt" \in W /\ "collect" \in W /\ "vocabularies" \in W /\ "plans" \in W
  BY DEF W
<1>3. Collected \in Seq(C)
  <2>1. <<Alone("attempt", 0)>> \in Seq(C) /\ Everyone("collect") \in Seq(C)
    BY <1>1, <1>2, CallIn DEF C
  <2> QED BY <2>1 DEF Collected
<1>4. vocabularies \in Seq(C) /\ plans \in Seq(C)
  BY <1>1, <1>2, CallIn DEF C
<1>5. calibrations \in Seq(C)
  BY <1>3, LaunchedRanks, TimesIsSeq
<1>6. Negotiation = before \o plans \o after
  BY DEF Negotiation
<1>7. /\ plans = <<Together("plans", Launched)>> /\ Together("plans", Launched).what = "plans"
      /\ vocabularies = <<Together("vocabularies", Launched)>> /\ Together("vocabularies", Launched).what = "vocabularies"
  BY DEF Everyone, Together, Call
<1> DEFINE opening == Collected \o vocabularies
<1>15. before = opening \o Collected \o calibrations \o Collected
  OBVIOUS
<1> HIDE DEF vocabularies, calibrations, plans
<1>16. opening \in Seq(C) /\ opening \o Collected \in Seq(C) /\ opening \o Collected \o calibrations \in Seq(C)
  BY <1>3, <1>4, <1>5
<1>8. before \in Seq(C) /\ after \in Seq(C)
  BY <1>3, <1>4, <1>5
<1> HIDE DEF before, after
<1>9. before \o plans \in Seq(C)
  BY <1>4, <1>8
<1>10. Negotiation \in Seq(C)
  BY <1>6, <1>8, <1>9
<1>11. u \notin W
  BY DEF W
<1>12. Never(before, u) /\ u # "plans"
  BY <1>2, <1>8, <1>11, CallsNever DEF C
<1>13. Sealed(before \o plans, "plans", u)
  <2>1. Together("plans", Launched) \in C
    BY <1>4, <1>7
  <2> QED BY <1>7, <1>8, <1>12, <2>1, SealingCall
<1>14. Sealed(Negotiation, "plans", u)
  BY <1>6, <1>8, <1>9, <1>13, ConcatSealed
<1>17. Sealed(opening, "vocabularies", u)
  <2>1. Together("vocabularies", Launched) \in C
    BY <1>4, <1>7
  <2>2. Never(Collected, u) /\ u # "vocabularies"
    BY <1>2, <1>3, <1>11, CallsNever DEF C
  <2> QED BY <1>3, <1>7, <2>1, <2>2, SealingCall
<1> HIDE DEF opening
<1>18. Sealed(opening \o Collected, "vocabularies", u)
  BY <1>3, <1>16, <1>17, ConcatSealed
<1>19. Sealed(opening \o Collected \o calibrations, "vocabularies", u)
  BY <1>5, <1>16, <1>18, ConcatSealed
<1>20. Sealed(before, "vocabularies", u)
  BY <1>3, <1>15, <1>16, <1>19, ConcatSealed
<1>21. Sealed(before \o plans, "vocabularies", u)
  BY <1>4, <1>8, <1>20, ConcatSealed
<1>22. Sealed(Negotiation, "vocabularies", u)
  BY <1>6, <1>8, <1>9, <1>21, ConcatSealed
<1> QED BY <1>10, <1>14, <1>22 DEF C, W

LEMMA ProbesCalls ==
  ASSUME plan \in Plans, NEW w \in Launched, NEW u,
         u \notin {"barrier", "listen", "measure", "serve", "measurements"}
  PROVE  /\ Probes(w) \in Seq(CallsOf({"barrier", "listen", "measure", "serve", "measurements"}))
         /\ Sealed(Probes(w), "measurements", u)
         /\ NeverAfter(Probes(w), "measurements", "measure")
<1> DEFINE V == {"barrier", "listen", "measure", "serve"}
           W == {"barrier", "listen", "measure", "serve", "measurements"}
           n == Cardinality(Launched)
           links == [k \in 1 .. n * n |->
                      LET s == (k - 1) \div n
                          d == (k - 1) % n
                      IN IF s = d THEN Everyone("barrier") \o Everyone("barrier") ELSE Probe(w, s, d)]
           shared == Everyone("measurements")
           before == Everyone("barrier") \o FlattenSeq(links)
<1>1. V \subseteq Kinds /\ V \cap (Worldwide \cup {"nccl"}) = {"barrier"} /\ "barrier" \notin Locally
  BY DEF Kinds, Locally, Worldwide
<1>2. V \subseteq W /\ W \subseteq Kinds /\ "measurements" \in W /\ "measurements" \notin V /\ "measurements" \notin Locally
      /\ u # "measurements"
  BY DEF Kinds, Locally, Worldwide
<1>3. /\ "barrier" \in V /\ "listen" \in V /\ "measure" \in V /\ "serve" \in V /\ 0 \in Int
      /\ "listen" # "barrier" /\ "measure" # "barrier" /\ "serve" # "barrier"
  OBVIOUS
<1>u. u \notin V
  OBVIOUS
<1> HIDE DEF V, W
<1>4. Everyone("barrier") \in Seq(CallsOf(V))
  BY <1>1, <1>3, CallIn
<1>5. ASSUME NEW s \in Int, NEW d \in Int PROVE Probe(w, s, d) \in Seq(CallsOf(V))
  <2> DEFINE listen == Optional(w = d, <<Alone("listen", s)>>)
             measure == Optional(w = s, <<Alone("measure", d)>>)
             serve == Optional(w = d, <<Alone("serve", s)>>)
             barrier == Everyone("barrier")
  <2>1. <<Alone("listen", s)>> \in Seq(CallsOf(V)) /\ <<Alone("measure", d)>> \in Seq(CallsOf(V))
        /\ <<Alone("serve", s)>> \in Seq(CallsOf(V))
    BY <1>1, <1>3, CallIn
  <2>2. listen \in Seq(CallsOf(V)) /\ measure \in Seq(CallsOf(V)) /\ serve \in Seq(CallsOf(V))
    BY <2>1, NoCalls
  <2>3. Probe(w, s, d) = listen \o barrier \o measure \o serve \o barrier
    BY DEF Probe
  <2> HIDE DEF listen, measure, serve, barrier
  <2>4. barrier \in Seq(CallsOf(V))
    BY <1>4 DEF barrier
  <2> QED BY <2>2, <2>3, <2>4
<1>6. n \in Nat /\ n > 0
  BY LaunchedRanks, FS_EmptySet
<1> HIDE DEF n
<1>7. n * n \in Nat /\ \A k \in 1 .. n * n : (k - 1) \div n \in Int /\ (k - 1) % n \in Int
  BY <1>6
<1>8. \A k \in 1 .. n * n : links[k] \in Seq(CallsOf(V))
  BY <1>4, <1>5, <1>7
<1>9. links \in Seq(Seq(CallsOf(V)))
  <2>1. links = [k \in 1 .. n * n |-> links[k]] /\ DOMAIN links = 1 .. n * n
    OBVIOUS
  <2> HIDE DEF links
  <2> QED BY <1>7, <1>8, <2>1
<1>10. Probes(w) = before \o shared
  BY DEF Probes, n
<1> HIDE DEF links
<1>11. before \in Seq(CallsOf(V))
  BY <1>4, <1>9, FlattenIsSeq
<1> HIDE DEF before
<1>12. before \in Seq(CallsOf(W)) /\ shared \in Seq(CallsOf(W))
  BY <1>2, <1>3, <1>11, CallIn, SubCalls
<1>13. Probes(w) \in Seq(CallsOf(W))
  BY <1>10, <1>12
<1>14. Never(before, u) /\ Never(before, "measurements")
  BY <1>2, <1>u, <1>11, CallsNever
<1>15. shared = <<Together("measurements", Launched)>> /\ Together("measurements", Launched).what = "measurements"
  BY DEF Everyone, Together, Call
<1>16. Sealed(before \o shared, "measurements", u)
  <2>1. Together("measurements", Launched) \in CallsOf(W)
    BY <1>12, <1>15, CallOfSingle
  <2> QED BY <1>2, <1>12, <1>14, <1>15, <2>1, SealingCall
<1>17. Never(shared, "measure")
  BY <1>15 DEF Never
<1>18. NeverAfter(before \o shared, "measurements", "measure")
  BY <1>12, <1>14, <1>17, NeverNeverAfter, ConcatNeverAfter
<1> QED BY <1>10, <1>13, <1>16, <1>18 DEF W

LEMMA IterationCalls ==
  ASSUME plan \in Plans, NEW w \in Launched
  PROVE  Iteration(w) \in Seq(CallsOf({"barrier", "activation", "gradient", "reduce", "update"}))
<1> DEFINE W == {"barrier", "activation", "gradient", "reduce", "update"}
           C == CallsOf(W)
           barrier == Everyone("barrier")
           a == Optional(~IsFirst(w), <<RecvFrom(w - 1, "activation", 1)>>)
           b == Optional(~IsLast(w), <<SendTo(w + 1, "activation", 1)>>)
           c == Optional(~IsLast(w), <<RecvFrom(w + 1, "gradient", 1)>>)
           d == Optional(~IsFirst(w), <<SendTo(w - 1, "gradient", 1)>>)
           e == Optional(plan.replicas > 1, <<Together("reduce", ReplicasOf(w))>>)
           f == <<Alone("update", 0)>>
<1>1. W \subseteq Kinds
      /\ \A x \in {"activation", "gradient", "reduce"} : x \notin Worldwide \cup Locally \cup {"nccl"}
  BY DEF Kinds, Locally, Worldwide
<1>2. /\ "barrier" \in W /\ "activation" \in W /\ "gradient" \in W /\ "reduce" \in W /\ "update" \in W
      /\ 0 \in Int /\ 1 \in Int /\ w - 1 \in Int /\ w + 1 \in Int /\ ReplicasOf(w) \in SUBSET Int
  BY LaunchedRanks
<1> HIDE DEF W
<1>3. barrier \in Seq(C) /\ f \in Seq(C)
  <2>1. "barrier" \notin Locally /\ "update" \notin Worldwide \cup {"nccl"}
    BY DEF Locally, Worldwide
  <2> QED BY <1>1, <1>2, <2>1, CallIn
<1>4. a \in Seq(C) /\ b \in Seq(C) /\ c \in Seq(C) /\ d \in Seq(C)
  <2>1. <<RecvFrom(w - 1, "activation", 1)>> \in Seq(C) /\ <<SendTo(w + 1, "activation", 1)>> \in Seq(C)
    BY <1>1, <1>2, CallIn
  <2>2. <<RecvFrom(w + 1, "gradient", 1)>> \in Seq(C) /\ <<SendTo(w - 1, "gradient", 1)>> \in Seq(C)
    BY <1>1, <1>2, CallIn
  <2> QED BY <2>1, <2>2, NoCalls
<1>5. e \in Seq(C)
  <2>1. <<Together("reduce", ReplicasOf(w))>> \in Seq(C)
    BY <1>1, <1>2, CallIn
  <2> QED BY <2>1, NoCalls
<1>6. Iteration(w) = barrier \o a \o b \o barrier \o c \o d \o e \o f \o barrier
  BY DEF Iteration
<1> HIDE DEF C, barrier, a, b, c, d, e, f
<1>7. barrier \o a \o b \o barrier \in Seq(C)
  BY <1>3, <1>4
<1>8. barrier \o a \o b \o barrier \o c \o d \in Seq(C)
  BY <1>4, <1>7
<1>9. barrier \o a \o b \o barrier \o c \o d \o e \o f \o barrier \in Seq(C)
  BY <1>3, <1>5, <1>8
<1> QED BY <1>6, <1>9 DEF C, W

LEMMA LeastIsNat ==
  ASSUME NEW a \in Nat, NEW b \in Nat
  PROVE  Min({a, b}) \in Nat
BY DEF Min

LEMMA IterationsAreNat ==
  ASSUME plan \in Plans, NEW w \in Launched
  PROVE  IterationsOf(w) \in Nat
<1>1. plan.epochs \in Nat /\ plan.perEpoch \in Nat /\ plan.loader \in Nat
  BY ClassificationAssumption
<1>2. Min({plan.perEpoch, plan.loader}) \in Nat
  BY <1>1, LeastIsNat
<1> DEFINE n == IF IsFirst(w) \/ IsLast(w) THEN Min({plan.perEpoch, plan.loader}) ELSE plan.perEpoch
           m == plan.epochs
<1>3. n \in Nat /\ m \in Nat /\ IterationsOf(w) = m * n
  BY <1>1, <1>2 DEF IterationsOf
<1> HIDE DEF n, m
<1> QED BY <1>3

\* What the order of a classification program guarantees.
LEMMA ClassProgramOrder ==
  ASSUME plan \in Plans, NEW w \in Launched
  PROVE  /\ ClassProgram(w) \in Seq(ClassCalls)
         /\ Paired(ClassProgram(w))
         /\ Guarded(ClassProgram(w), "assignments", "update")
         /\ Guarded(ClassProgram(w), "vocabulary", "update")
         /\ plan.dynamic => Guarded(ClassProgram(w), "vocabularies", "update") /\ Guarded(ClassProgram(w), "plans", "update")
         /\ plan.probe => Guarded(ClassProgram(w), "measurements", "update")
         /\ ~plan.probe => Never(ClassProgram(w), "measure")
         /\ NeverAfter(ClassProgram(w), "measurements", "measure")
         /\ (plan.spawned /\ w = 0) => Waits(ClassProgram(w))
<1> DEFINE C == CallsOf(Kinds)
           a0 == <<Alone("setup", 0)>>
           a1 == Everyone("join")
           a2 == Communicators(w)
           a3 == Everyone("assignments")
           a4 == Optional(IsFirst(w) \/ IsLast(w), <<Alone("setup", 0)>>)
           a5 == Everyone("vocabulary")
           a6 == Optional(plan.dynamic, Negotiation)
           a7 == <<Alone("setup", 0)>>
           a8 == Everyone("barrier")
           a9 == Optional(plan.probe, Probes(w))
           a10 == FlattenSeq(Times(IterationsOf(w), Iteration(w)))
           a11 == <<Alone("setup", 0), Alone("attempt", 0)>>
           a12 == Optional(plan.spawned /\ w = 0, <<Alone("wait", 0)>>)
<1>1. ClassProgram(w) = a0 \o a1 \o a2 \o a3 \o a4 \o a5 \o a6 \o a7 \o a8 \o a9 \o a8 \o a10 \o a11 \o a12
  BY DEF ClassProgram
<1>2. /\ {"setup", "join", "barrier", "attempt", "wait", "assignments", "vocabulary"} \subseteq Kinds
      /\ {"setup", "attempt", "wait"} \cap (Worldwide \cup {"nccl"}) = {}
      /\ {"join", "barrier", "assignments", "vocabulary"} \cap Locally = {} /\ 0 \in Int
  BY DEF Kinds, Worldwide, Locally
<1>3. /\ a0 \in Seq(CallsOf({"setup"})) /\ a1 \in Seq(CallsOf({"join"})) /\ a3 \in Seq(CallsOf({"assignments"}))
      /\ a5 \in Seq(CallsOf({"vocabulary"})) /\ a7 \in Seq(CallsOf({"setup"})) /\ a8 \in Seq(CallsOf({"barrier"}))
  BY <1>2, OneCall
<1>4. /\ <<Alone("attempt", 0)>> \in Seq(CallsOf({"attempt"})) /\ <<Alone("wait", 0)>> \in Seq(CallsOf({"wait"}))
  BY <1>2, OneCall
<1>5. a4 \in Seq(CallsOf({"setup"})) /\ a12 \in Seq(CallsOf({"wait"}))
  BY <1>3, <1>4, NoCalls
<1>28. (plan.spawned /\ w = 0) => a12 = <<Alone("wait", 0)>>
  BY DEF Optional
<1>6. a11 \in Seq(CallsOf({"setup", "attempt"}))
  <2>1. a11 = a0 \o <<Alone("attempt", 0)>>
    OBVIOUS
  <2>2. a0 \in Seq(CallsOf({"setup", "attempt"})) /\ <<Alone("attempt", 0)>> \in Seq(CallsOf({"setup", "attempt"}))
    <3>1. {"setup"} \subseteq {"setup", "attempt"} /\ {"attempt"} \subseteq {"setup", "attempt"}
      OBVIOUS
    <3> QED BY <1>3, <1>4, <3>1, SubCalls
  <2> HIDE DEF a0, a11
  <2> QED BY <2>1, <2>2
<1>7. a2 \in Seq(CallsOf({"import_nccl", "nccl", "consensus", "require_nccl", "data_nccl"})) /\ Paired(a2)
  BY CommunicatorsCalls
<1>8. /\ a6 \in Seq(CallsOf({"attempt", "collect", "vocabularies", "plans"}))
      /\ plan.dynamic => Sealed(a6, "vocabularies", "update") /\ Sealed(a6, "plans", "update")
  <2>1. "update" \notin {"attempt", "collect", "vocabularies", "plans"}
    OBVIOUS
  <2>2. Negotiation \in Seq(CallsOf({"attempt", "collect", "vocabularies", "plans"}))
        /\ Sealed(Negotiation, "vocabularies", "update") /\ Sealed(Negotiation, "plans", "update")
    BY <2>1, NegotiationCalls
  <2> QED BY <2>2 DEF Optional
<1>9. /\ a9 \in Seq(CallsOf({"barrier", "listen", "measure", "serve", "measurements"}))
      /\ plan.probe => Sealed(a9, "measurements", "update")
      /\ NeverAfter(a9, "measurements", "measure")
      /\ ~plan.probe => a9 = <<>>
  <2>1. "update" \notin {"barrier", "listen", "measure", "serve", "measurements"}
    OBVIOUS
  <2>2. /\ Probes(w) \in Seq(CallsOf({"barrier", "listen", "measure", "serve", "measurements"}))
        /\ Sealed(Probes(w), "measurements", "update")
        /\ NeverAfter(Probes(w), "measurements", "measure")
    BY <2>1, ProbesCalls
  <2>3. NeverAfter(<<>>, "measurements", "measure")
    BY EmptyProgram
  <2> QED BY <2>2, <2>3 DEF Optional
<1>10. a10 \in Seq(CallsOf({"barrier", "activation", "gradient", "reduce", "update"}))
  BY IterationCalls, IterationsAreNat, TimesIsSeq
<1> HIDE DEF a0, a1, a2, a3, a4, a5, a6, a7, a8, a9, a10, a11, a12
<1>11. /\ a0 \in Seq(ClassCalls) /\ a1 \in Seq(ClassCalls) /\ a2 \in Seq(ClassCalls) /\ a3 \in Seq(ClassCalls)
       /\ a4 \in Seq(ClassCalls) /\ a5 \in Seq(ClassCalls) /\ a6 \in Seq(ClassCalls) /\ a7 \in Seq(ClassCalls)
       /\ a8 \in Seq(ClassCalls) /\ a9 \in Seq(ClassCalls) /\ a10 \in Seq(ClassCalls) /\ a11 \in Seq(ClassCalls)
       /\ a12 \in Seq(ClassCalls)
  <2>1. \A W : \A p \in Seq(CallsOf(W)) : p \in Seq(ClassCalls)
    <3>1. \A W : CallsOf(W) \subseteq ClassCalls
      BY DEF CallsOf
    <3> QED BY <3>1
  <2> QED BY <1>3, <1>5, <1>6, <1>7, <1>8, <1>9, <1>10, <2>1
<1> DEFINE U == {"update", "measure", "measurements", "import_nccl"}
<1>12. /\ \A u \in U : /\ Never(a0, u) /\ Never(a1, u) /\ Never(a3, u) /\ Never(a4, u) /\ Never(a5, u)
                       /\ Never(a6, u) /\ Never(a7, u) /\ Never(a8, u) /\ Never(a11, u) /\ Never(a12, u)
       /\ Never(a2, "update") /\ Never(a2, "measure") /\ Never(a2, "measurements")
       /\ Never(a9, "update") /\ Never(a9, "import_nccl")
       /\ Never(a10, "measure") /\ Never(a10, "measurements") /\ Never(a10, "import_nccl")
  <2>1. \A u \in U : Never(a0, u) /\ Never(a1, u) /\ Never(a3, u) /\ Never(a4, u)
    <3> TAKE u \in U
    <3>1. u \notin {"setup"} /\ u \notin {"join"} /\ u \notin {"assignments"}
      OBVIOUS
    <3> QED BY <1>3, <1>5, <3>1, CallsNever
  <2>2. \A u \in U : Never(a5, u) /\ Never(a7, u) /\ Never(a8, u)
    <3> TAKE u \in U
    <3>1. u \notin {"vocabulary"} /\ u \notin {"setup"} /\ u \notin {"barrier"}
      OBVIOUS
    <3> QED BY <1>3, <3>1, CallsNever
  <2>3. \A u \in U : Never(a6, u) /\ Never(a11, u) /\ Never(a12, u)
    <3> TAKE u \in U
    <3>1. u \notin {"attempt", "collect", "vocabularies", "plans"} /\ u \notin {"setup", "attempt"} /\ u \notin {"wait"}
      OBVIOUS
    <3> QED BY <1>5, <1>6, <1>8, <3>1, CallsNever
  <2>4. Never(a2, "update") /\ Never(a2, "measure") /\ Never(a2, "measurements")
    <3>1. {"update", "measure", "measurements"} \cap {"import_nccl", "nccl", "consensus", "require_nccl", "data_nccl"} = {}
      OBVIOUS
    <3> QED BY <1>7, <3>1, CallsNever
  <2>5. Never(a9, "update") /\ Never(a9, "import_nccl")
    <3>1. {"update", "import_nccl"} \cap {"barrier", "listen", "measure", "serve", "measurements"} = {}
      OBVIOUS
    <3> QED BY <1>9, <3>1, CallsNever
  <2>6. Never(a10, "measure") /\ Never(a10, "measurements") /\ Never(a10, "import_nccl")
    <3>1. {"measure", "measurements", "import_nccl"} \cap {"barrier", "activation", "gradient", "reduce", "update"} = {}
      OBVIOUS
    <3> QED BY <1>10, <3>1, CallsNever
  <2> QED BY <2>1, <2>2, <2>3, <2>4, <2>5, <2>6
<1> DEFINE b1 == a0 \o a1 \o a2
           b2 == b1 \o a3
           b4 == b2 \o a4 \o a5
           b5 == b4 \o a6
           b6 == b5 \o a7 \o a8
           b7 == b6 \o a9
           b8 == b7 \o a8 \o a10
           b9 == b8 \o a11 \o a12
<1>13. /\ b1 \in Seq(ClassCalls) /\ b2 \in Seq(ClassCalls) /\ b2 \o a4 \in Seq(ClassCalls) /\ b4 \in Seq(ClassCalls)
       /\ b5 \in Seq(ClassCalls) /\ b6 \in Seq(ClassCalls) /\ b7 \in Seq(ClassCalls)
       /\ b8 \in Seq(ClassCalls) /\ b9 \in Seq(ClassCalls)
  <2>1. b1 \in Seq(ClassCalls)
    BY <1>11
  <2> HIDE DEF b1
  <2>2. b2 \in Seq(ClassCalls) /\ b2 \o a4 \in Seq(ClassCalls) /\ b4 \in Seq(ClassCalls)
    BY <1>11, <2>1
  <2> HIDE DEF b4
  <2>3. b5 \in Seq(ClassCalls)
    BY <1>11, <2>2
  <2> HIDE DEF b5
  <2>4. b6 \in Seq(ClassCalls)
    BY <1>11, <2>3
  <2> HIDE DEF b6
  <2>5. b7 \in Seq(ClassCalls)
    BY <1>11, <2>4
  <2> HIDE DEF b7
  <2>6. b8 \in Seq(ClassCalls)
    BY <1>11, <2>5
  <2> HIDE DEF b8
  <2>7. b9 \in Seq(ClassCalls)
    BY <1>11, <2>6
  <2> QED BY <2>1, <2>2, <2>3, <2>4, <2>5, <2>6, <2>7
\* What comes after the call that seals a program does not matter.
<1>14. ASSUME NEW g, Sealed(b2, g, "update") \/ Sealed(b4, g, "update") \/ Sealed(b5, g, "update") \/ Sealed(b7, g, "update")
       PROVE  Guarded(b9, g, "update")
  <2> DEFINE S(p) == Sealed(p, g, "update")
             Q == Seq(ClassCalls)
  <2>1. \A p, q \in Q : S(p) => S(p \o q) /\ p \o q \in Q
    <3> TAKE p, q \in Q
    <3>1. p \o q \in Q
      OBVIOUS
    <3> QED BY <3>1, ConcatSealed
  <2> HIDE DEF S, Q
  <2>2. /\ b2 \in Q /\ b4 \in Q /\ b5 \in Q /\ b6 \in Q /\ b7 \in Q /\ b8 \in Q
        /\ a4 \in Q /\ a5 \in Q /\ a6 \in Q /\ a7 \in Q /\ a8 \in Q /\ a9 \in Q /\ a10 \in Q /\ a11 \in Q /\ a12 \in Q
    BY <1>11, <1>13 DEF Q
  <2>3. S(b2) => S(b4)
    <3> HIDE DEF b2
    <3> QED BY <2>1, <2>2
  <2>4. S(b4) => S(b5)
    <3> HIDE DEF b4
    <3> QED BY <2>1, <2>2
  <2>5. S(b5) => S(b6)
    <3> HIDE DEF b5
    <3> QED BY <2>1, <2>2
  <2>6. S(b6) => S(b7)
    <3> HIDE DEF b6
    <3> QED BY <2>1, <2>2
  <2>7. S(b7) => S(b8)
    <3> HIDE DEF b7
    <3> QED BY <2>1, <2>2
  <2>8. S(b8) => S(b9)
    <3> HIDE DEF b8
    <3> QED BY <2>1, <2>2
  <2>9. S(b2) \/ S(b4) \/ S(b5) \/ S(b7)
    BY <1>14 DEF S
  <2> HIDE DEF b2, b4, b5, b6, b7, b8, b9
  <2>10. S(b9)
    BY <2>3, <2>4, <2>5, <2>6, <2>7, <2>8, <2>9
  <2> QED BY <2>10 DEF S, Sealed
<1>15. \A p, q \in Seq(ClassCalls) : \A u : Never(p, u) /\ Never(q, u) => Never(p \o q, u)
  BY ConcatNever
<1>16. \A u \in {"update", "measurements", "measure"} :
         Never(b1, u) /\ Never(b2 \o a4, u) /\ Never(b4, u) /\ Never(b6, u)
  <2>1. \A u \in {"update", "measurements", "measure"} : Never(b1, u) /\ Never(b2, u) /\ Never(b2 \o a4, u) /\ Never(b4, u)
    <3> TAKE u \in {"update", "measurements", "measure"}
    <3>0. u \in U
      OBVIOUS
    <3>1. Never(b1, u)
      <4>1. a0 \o a1 \in Seq(ClassCalls) /\ Never(a0 \o a1, u)
        BY <1>11, <1>12, <1>15, <3>0
      <4> QED BY <1>11, <1>12, <1>15, <3>0, <4>1
    <3> HIDE DEF b1
    <3>2. Never(b2, u)
      BY <1>11, <1>12, <1>13, <1>15, <3>0, <3>1
    <3> HIDE DEF b2
    <3>3. Never(b2 \o a4, u)
      BY <1>11, <1>12, <1>13, <1>15, <3>0, <3>2
    <3>4. Never(b4, u)
      BY <1>11, <1>12, <1>13, <1>15, <3>0, <3>3
    <3> QED BY <3>1, <3>2, <3>3, <3>4
  <2>2. \A u \in {"update", "measurements", "measure"} : Never(b5, u) /\ Never(b6, u)
    <3> TAKE u \in {"update", "measurements", "measure"}
    <3>0. u \in U
      OBVIOUS
    <3> HIDE DEF b4
    <3>1. Never(b5, u)
      BY <1>11, <1>12, <1>13, <1>15, <2>1, <3>0
    <3> HIDE DEF b5
    <3>2. b5 \o a7 \in Seq(ClassCalls) /\ Never(b5 \o a7, u)
      BY <1>11, <1>12, <1>13, <1>15, <3>0, <3>1
    <3> QED BY <1>11, <1>12, <1>13, <1>15, <3>0, <3>1, <3>2
  <2> HIDE DEF b1, b2, b4, b5, b6
  <2> QED BY <2>1, <2>2
<1>17. Sealed(b2, "assignments", "update")
  <2> DEFINE c == Together("assignments", Launched)
  <2>1. a3 = <<c>> /\ c.what = "assignments"
    BY DEF a3, Everyone, Together, Call
  <2> HIDE DEF c, b1
  <2>2. c \in ClassCalls
    BY <1>11, <2>1, CallOfSingle
  <2>3. b1 \in Seq(ClassCalls) /\ Never(b1, "update") /\ c.what # "update" /\ b2 = b1 \o <<c>>
    BY <1>13, <1>16, <2>1
  <2> HIDE DEF b2
  <2>4. Sealed(b1 \o <<c>>, c.what, "update")
    BY <2>2, <2>3, SealingCall
  <2> QED BY <2>1, <2>3, <2>4
<1>18. Sealed(b4, "vocabulary", "update")
  <2> DEFINE c == Together("vocabulary", Launched)
             b3 == b2 \o a4
  <2>1. a5 = <<c>> /\ c.what = "vocabulary" /\ b4 = b3 \o a5
    BY DEF a5, Everyone, Together, Call
  <2>2. b3 \in Seq(ClassCalls) /\ Never(b3, "update")
    BY <1>13, <1>16
  <2> HIDE DEF c, b2, b3, b4
  <2>3. c \in ClassCalls
    BY <1>11, <2>1, CallOfSingle
  <2>4. c.what # "update"
    BY <2>1
  <2>5. Sealed(b3 \o <<c>>, c.what, "update")
    BY <2>2, <2>3, <2>4, SealingCall
  <2> QED BY <2>1, <2>5
<1>19. plan.dynamic => Sealed(b5, "vocabularies", "update") /\ Sealed(b5, "plans", "update")
  <2> HIDE DEF b4
  <2> QED BY <1>8, <1>11, <1>13, <1>16, PrefixSealed
<1>20. plan.probe => Sealed(b7, "measurements", "update")
  <2> HIDE DEF b6
  <2> QED BY <1>9, <1>11, <1>13, <1>16, PrefixSealed
<1>21. NeverAfter(b9, "measurements", "measure")
  <2>0. /\ Never(a8, "measure") /\ Never(a10, "measure") /\ Never(a11, "measure") /\ Never(a12, "measure")
    BY <1>12
  <2>1. NeverAfter(b7, "measurements", "measure")
    <3> HIDE DEF b6
    <3> QED BY <1>9, <1>11, <1>13, <1>16, PrefixNeverAfter
  <2> DEFINE After(p) == NeverAfter(p, "measurements", "measure")
             Q == Seq(ClassCalls)
  <2>2. \A p, q \in Q : After(p) /\ Never(q, "measure") => After(p \o q) /\ p \o q \in Q
    <3> TAKE p, q \in Q
    <3>1. p \o q \in Q
      OBVIOUS
    <3> QED BY <3>1, ConcatNeverAfter
  <2>3. /\ b7 \in Q /\ b8 \in Q /\ a8 \in Q /\ a10 \in Q /\ a11 \in Q /\ a12 \in Q
    BY <1>11, <1>13
  <2>4. After(b7)
    BY <2>1
  <2> HIDE DEF After, Q
  <2>5. After(b8)
    <3> HIDE DEF b7
    <3>1. After(b7 \o a8) /\ b7 \o a8 \in Q
      BY <2>0, <2>2, <2>3, <2>4
    <3> QED BY <2>0, <2>2, <2>3, <3>1
  <2>6. After(b9)
    <3> HIDE DEF b8
    <3>1. After(b8 \o a11) /\ b8 \o a11 \in Q
      BY <2>0, <2>2, <2>3, <2>5
    <3> QED BY <2>0, <2>2, <2>3, <3>1
  <2> QED BY <2>6 DEF After
<1>22. ASSUME NEW u \in {"measure", "import_nccl"}, Never(b6, u), Never(a9, u) PROVE Never(b9, u)
  <2>0. Never(a8, u) /\ Never(a10, u) /\ Never(a11, u) /\ Never(a12, u)
    BY <1>12
  <2>1. Never(b7, u)
    <3> HIDE DEF b6
    <3> QED BY <1>11, <1>13, <1>15, <1>22
  <2>2. Never(b8, u)
    <3> HIDE DEF b7
    <3>1. b7 \o a8 \in Seq(ClassCalls) /\ Never(b7 \o a8, u)
      BY <1>11, <1>13, <1>15, <2>0, <2>1
    <3> QED BY <1>11, <1>15, <2>0, <3>1
  <2> HIDE DEF b8
  <2>3. b8 \o a11 \in Seq(ClassCalls) /\ Never(b8 \o a11, u)
    BY <1>11, <1>13, <1>15, <2>0, <2>2
  <2> QED BY <1>11, <1>15, <2>0, <2>3
<1>23. ~plan.probe => Never(b9, "measure")
  <2>1. ~plan.probe => Never(a9, "measure")
    BY <1>9 DEF Never
  <2> HIDE DEF b6, b9
  <2> QED BY <1>16, <1>22, <2>1
<1>24. Paired(b9)
  <2> DEFINE Q == Seq(ClassCalls)
  <2>1. \A p, q \in Q : Paired(p) /\ Paired(q) => Paired(p \o q) /\ p \o q \in Q
    <3> TAKE p, q \in Q
    <3>1. p \o q \in Q
      OBVIOUS
    <3> QED BY <3>1, PairedConcat
  <2>2. /\ a0 \in Q /\ a1 \in Q /\ a2 \in Q /\ a3 \in Q /\ a4 \in Q /\ a5 \in Q /\ a6 \in Q /\ a7 \in Q /\ a8 \in Q
        /\ a9 \in Q /\ a10 \in Q /\ a11 \in Q /\ a12 \in Q
    BY <1>11
  <2>3. /\ Paired(a0) /\ Paired(a1) /\ Paired(a2) /\ Paired(a3) /\ Paired(a4) /\ Paired(a5) /\ Paired(a6) /\ Paired(a7)
        /\ Paired(a8) /\ Paired(a9) /\ Paired(a10) /\ Paired(a11) /\ Paired(a12)
    BY <1>7, <1>12, UnpairedCalls
  <2> HIDE DEF Q
  <2>4. Paired(b1) /\ b1 \in Q
    <3>1. Paired(a0 \o a1) /\ a0 \o a1 \in Q
      BY <2>1, <2>2, <2>3
    <3> QED BY <2>1, <2>2, <2>3, <3>1
  <2> HIDE DEF b1
  <2>5. Paired(b2) /\ b2 \in Q
    BY <2>1, <2>2, <2>3, <2>4
  <2> HIDE DEF b2
  <2>6. Paired(b4) /\ b4 \in Q
    <3>1. Paired(b2 \o a4) /\ b2 \o a4 \in Q
      BY <2>1, <2>2, <2>3, <2>5
    <3> QED BY <2>1, <2>2, <2>3, <3>1
  <2> HIDE DEF b4
  <2>7. Paired(b5) /\ b5 \in Q
    BY <2>1, <2>2, <2>3, <2>6
  <2> HIDE DEF b5
  <2>8. Paired(b6) /\ b6 \in Q
    <3>1. Paired(b5 \o a7) /\ b5 \o a7 \in Q
      BY <2>1, <2>2, <2>3, <2>7
    <3> QED BY <2>1, <2>2, <2>3, <3>1
  <2> HIDE DEF b6
  <2>9. Paired(b7) /\ b7 \in Q
    BY <2>1, <2>2, <2>3, <2>8
  <2> HIDE DEF b7
  <2>10. Paired(b8) /\ b8 \in Q
    <3>1. Paired(b7 \o a8) /\ b7 \o a8 \in Q
      BY <2>1, <2>2, <2>3, <2>9
    <3> QED BY <2>1, <2>2, <2>3, <3>1
  <2> HIDE DEF b8
  <2>11. Paired(b8 \o a11) /\ b8 \o a11 \in Q
    BY <2>1, <2>2, <2>3, <2>10
  <2> QED BY <2>1, <2>2, <2>3, <2>11
<1>25. ClassProgram(w) = b9
  BY <1>1
<1>26. Guarded(b9, "assignments", "update") /\ Guarded(b9, "vocabulary", "update")
  <2> HIDE DEF b2, b4, b5, b7, b9
  <2> QED BY <1>14, <1>17, <1>18
<1>27. /\ plan.dynamic => Guarded(b9, "vocabularies", "update") /\ Guarded(b9, "plans", "update")
       /\ plan.probe => Guarded(b9, "measurements", "update")
  <2> HIDE DEF b2, b4, b5, b7, b9
  <2> QED BY <1>14, <1>19, <1>20
<1>29. (plan.spawned /\ w = 0) => Waits(b9)
  <2> HIDE DEF b8
  <2>1. b8 \o a11 \in Seq(ClassCalls)
    BY <1>11, <1>13
  <2> DEFINE b == b8 \o a11
  <2> HIDE DEF b
  <2>2. \A c : c.what = "wait" => Waits(b \o <<c>>)
    <3> TAKE c
    <3>1. b \in Seq(ClassCalls)
      BY <2>1 DEF b
    <3>2. Len(b \o <<c>>) = Len(b) + 1 /\ (b \o <<c>>)[Len(b) + 1] = c /\ b \o <<c>> # <<>>
      BY <3>1
    <3> QED BY <3>2 DEF Waits
  <2>3. Alone("wait", 0).what = "wait"
    BY DEF Alone, Call
  <2> QED BY <1>28, <2>2, <2>3 DEF b
<1> HIDE DEF b9
<1> QED BY <1>13, <1>21, <1>23, <1>24, <1>25, <1>26, <1>27, <1>29

------------------------------------------------------------------------------
(* Steps: what a rank drops of its program.                                 *)

\* A rank ends with an error, or goes on past calls of the kinds W and transfers.
GoesOn(r, W) ==
  \/ todo'[r] = <<>> /\ r \in raised'
  \/ \E k \in Nat :
       /\ Drops(todo[r], todo'[r], k)
       /\ \A i \in 1 .. k : todo[r][i].what \in W \/ todo[r][i].do \in {"send", "recv"}

LEMMA NoPopGoesOn ==
  ASSUME NEW S, NEW r, todo[r] \in Seq(S), todo'[r] = todo[r], NEW W
  PROVE  GoesOn(r, W)
<1>1. Drops(todo[r], todo'[r], 0)
  BY NothingDrops
<1> QED BY <1>1 DEF GoesOn

LEMMA PopGoesOn ==
  ASSUME NEW S, NEW r, todo[r] \in Seq(S), todo[r] # <<>>, todo'[r] = Tail(todo[r]), NEW W,
         Head(todo[r]).what \in W \/ Head(todo[r]).do \in {"send", "recv"}
  PROVE  GoesOn(r, W) /\ todo'[r] \in Seq(S)
<1>1. Drops(todo[r], todo'[r], 1) /\ Head(todo[r]) = todo[r][1] /\ todo'[r] \in Seq(S)
  BY TailDrops
<1>2. \A i \in 1 .. 1 : todo[r][i].what \in W \/ todo[r][i].do \in {"send", "recv"}
  BY <1>1
<1> QED BY <1>1, <1>2 DEF GoesOn

LEMMA PoppedGoesOn ==
  ASSUME NEW R, NEW S, todo \in [R -> Seq(S)], NEW G, NEW W, todo' = Popped(G),
         \A r \in G \cap R :
           todo[r] # <<>> /\ (Head(todo[r]).what \in W \/ Head(todo[r]).do \in {"send", "recv"})
  PROVE  todo' \in [R -> Seq(S)] /\ \A r \in R : GoesOn(r, W)
<1>1. todo' = [r \in R |-> IF r \in G THEN Tail(todo[r]) ELSE todo[r]]
  BY DEF Popped, Peers
<1>2. ASSUME NEW r \in R PROVE GoesOn(r, W) /\ todo'[r] \in Seq(S)
  <2>0. todo[r] \in Seq(S)
    OBVIOUS
  <2>1. CASE r \in G
    BY <1>1, <2>0, <2>1, PopGoesOn
  <2>2. CASE r \notin G
    BY <1>1, <2>0, <2>2, NoPopGoesOn
  <2> QED BY <2>1, <2>2
<1> QED BY <1>1, <1>2

LEMMA RaisedGoesOn ==
  ASSUME NEW R, NEW S, todo \in [R -> Seq(S)], NEW G, NEW W, Raise(G)
  PROVE  todo' \in [R -> Seq(S)] /\ \A r \in R : GoesOn(r, W)
<1>1. raised' = raised \cup G /\ todo' = [r \in R |-> IF r \in G THEN <<>> ELSE todo[r]]
  BY DEF Raise, Peers
<1>2. ASSUME NEW r \in R PROVE GoesOn(r, W) /\ todo'[r] \in Seq(S)
  <2>0. todo[r] \in Seq(S)
    OBVIOUS
  <2>1. CASE r \in G
    BY <1>1, <2>1 DEF GoesOn
  <2>2. CASE r \notin G
    BY <1>1, <2>0, <2>2, NoPopGoesOn
  <2> QED BY <2>1, <2>2
<1> QED BY <1>1, <1>2

LEMMA IdleGoesOn ==
  ASSUME NEW R, NEW S, todo \in [R -> Seq(S)], todo' = todo, NEW W
  PROVE  todo' \in [R -> Seq(S)] /\ \A r \in R : GoesOn(r, W)
BY NoPopGoesOn

\* Going on keeps the orders, but for a guard that is passed.
LEMMA OnwardKeeps ==
  ASSUME NEW S, NEW r, todo[r] \in Seq(S), todo'[r] \in Seq(S), NEW W, GoesOn(r, W)
  PROVE  /\ \A u : Never(todo[r], u) => Never(todo'[r], u)
         /\ \A g, u : NeverAfter(todo[r], g, u) => NeverAfter(todo'[r], g, u)
         /\ \A g, u : (/\ g \notin W /\ Guarded(todo[r], g, u)
                       /\ \A c \in S : c.what = g => c.do \notin {"send", "recv"}) => Guarded(todo'[r], g, u)
<1> DEFINE p == todo[r]
           q == todo'[r]
<1>1. CASE q = <<>>
  BY <1>1, EmptyProgram
<1>2. CASE q # <<>>
  <2>1. PICK k \in Nat :
          /\ Drops(p, q, k)
          /\ \A i \in 1 .. k : p[i].what \in W \/ p[i].do \in {"send", "recv"}
    BY <1>2 DEF GoesOn
  <2>2. p \in Seq(S) /\ q \in Seq(S)
    OBVIOUS
  <2> HIDE DEF p, q
  <2>3. k \in 0 .. Len(p) /\ Len(p) \in Nat
    BY <2>1, <2>2 DEF Drops
  <2>4. \A u : Never(p, u) => Never(q, u)
    BY <2>1, <2>2, DroppedNever
  <2>5. \A g, u : NeverAfter(p, g, u) => NeverAfter(q, g, u)
    BY <2>1, <2>2, DroppedNeverAfter
  <2>6. ASSUME NEW g, NEW u, g \notin W, Guarded(p, g, u), \A c \in S : c.what = g => c.do \notin {"send", "recv"}
        PROVE  Guarded(q, g, u)
    <3>1. ASSUME NEW i \in 1 .. k PROVE p[i].what # g
      <4>1. i \in 1 .. Len(p)
        BY <2>3
      <4>2. p[i] \in S
        BY <2>2, <4>1
      <4> QED BY <2>1, <2>6, <4>2
    <3> QED BY <2>1, <2>2, <2>6, <3>1, DroppedGuard
  <2> QED BY <2>4, <2>5, <2>6 DEF p, q
<1> QED BY <1>1, <1>2

------------------------------------------------------------------------------
(* Steps of the classification runner.                                      *)

ClassShape ==
  /\ plan \in Plans
  /\ todo \in [Launched -> Seq(ClassCalls)]
  /\ \A w \in Launched : Paired(todo[w])

Advances(W) ==
  /\ todo' \in [Launched -> Seq(ClassCalls)]
  /\ \A r \in Launched : GoesOn(r, W)

LEMMA PopAdvances ==
  ASSUME ClassShape, NEW G, NEW W, todo' = Popped(G),
         \A r \in G \cap Launched :
           todo[r] # <<>> /\ (Head(todo[r]).what \in W \/ Head(todo[r]).do \in {"send", "recv"})
  PROVE  Advances(W)
BY PoppedGoesOn DEF ClassShape, Advances

LEMMA LeaveAdvances ==
  ASSUME ClassShape, NEW G, NEW W, Leave(G),
         \A r \in G \cap Launched :
           todo[r] # <<>> /\ (Head(todo[r]).what \in W \/ Head(todo[r]).do \in {"send", "recv"})
  PROVE  Advances(W)
BY PopAdvances DEF Leave

LEMMA RaiseAdvances ==
  ASSUME ClassShape, NEW G, NEW W, Raise(G)
  PROVE  Advances(W)
BY RaisedGoesOn DEF ClassShape, Advances

LEMMA IdleAdvances ==
  ASSUME ClassShape, NEW W, UNCHANGED todo
  PROVE  Advances(W)
BY IdleGoesOn DEF ClassShape, Advances

\* Members of a collective are at the same call.
LEMMA MembersAdvance ==
  ASSUME ClassShape, NEW w, Gathered(w), Leave(Current(w).with)
  PROVE  Advances({Current(w).what})
<1> DEFINE G == Current(w).with
<1>1. \A r \in G \cap Launched : todo[r] # <<>> /\ Head(todo[r]).what = Current(w).what
  BY DEF Gathered, Current
<1> HIDE DEF G
<1>2. Leave(G)
  BY DEF G
<1> QED BY <1>1, <1>2, LeaveAdvances

LEMMA WorkAdvances ==
  ASSUME ClassShape, NEW w \in Launched, NEW what, Work(w, what), Leave({w})
  PROVE  Advances({what})
<1>1. \A r \in {w} \cap Launched : todo[r] # <<>> /\ Head(todo[r]).what = what
  BY DEF Work, At, Current
<1> QED BY <1>1, LeaveAdvances

\* All ranks make the same call.
Jointly == \A r \in Launched : todo[r] # <<>> /\ Head(todo[r]).what \in Worldwide /\ todo'[r] = Tail(todo[r])

\* What may be dropped only together with its effect.
Licensed(W, w) ==
  /\ W \cap Worldwide # {} => Jointly
  /\ "nccl" \in W => MakeNccl(w) \/ w \in noNccl
  /\ "measurements" \in W => ShareMatrix(w)
  /\ "wait" \in W => AwaitChildren(w)
  /\ \A x \in W : x \in {"assignments", "vocabulary", "vocabularies", "plans"} => ~Disagreement(x)

LEMMA StepAdvances ==
  ASSUME ClassShape, NEW w \in Launched, ClassStep(w)
  PROVE  \E W : Advances(W) /\ Licensed(W, w)
<1>0. \A x \in {"setup", "attempt", "require_nccl", "data_nccl", "reduce", "listen", "measure", "serve", "update", "import_nccl"} :
        Licensed({x}, w)
  BY DEF Licensed, Worldwide
<1>1. /\ Licensed({}, w) /\ Licensed({"measure", "serve"}, w)
      /\ w \in noNccl => Licensed({"import_nccl", "nccl"}, w)
      /\ MakeNccl(w) => Licensed({"nccl"}, w)
  BY DEF Licensed, Worldwide
<1>a. ASSUME NEW x \in Worldwide, Gathered(w), Current(w).what = x, Leave(Launched) PROVE Jointly
  <2>1. Current(w) \in ClassCalls
    BY <1>a, TailDrops DEF ClassShape, Gathered, At, Current
  <2>2. Current(w).with = Launched
    BY <1>a, <2>1 DEF ClassCalls
  <2>3. \A r \in Launched : todo[r] # <<>> /\ Head(todo[r]) = Current(w)
    BY <1>a, <2>2 DEF Gathered, Current
  <2>4. \A r \in Launched : todo'[r] = Tail(todo[r])
    BY <1>a DEF Leave, Popped, Peers, ClassShape
  <2> QED BY <1>a, <2>3, <2>4 DEF Jointly
<1>2. CASE SetUp(w)
  BY <1>0, <1>2, WorkAdvances DEF SetUp, Does
<1>3. CASE Attempt(w)
  BY <1>0, <1>3, WorkAdvances DEF Attempt
<1>4. CASE ImportNccl(w)
  <2>1. Work(w, "import_nccl") /\ raised' = raised
        /\ todo' = [todo EXCEPT ![w] = IF w \in noNccl THEN Tail(Tail(@)) ELSE Tail(@)]
    BY <1>4 DEF ImportNccl
  <2>2. todo \in [Launched -> Seq(ClassCalls)] /\ Paired(todo[w])
    BY DEF ClassShape
  <2> DEFINE p == todo[w]
             W == IF w \in noNccl THEN {"import_nccl", "nccl"} ELSE {"import_nccl"}
  <2>3. p \in Seq(ClassCalls) /\ p # <<>> /\ Head(p).what = "import_nccl"
    BY <2>1, <2>2 DEF Work, At, Current
  <2>4. 1 \in 1 .. Len(p) /\ p[1].what = "import_nccl"
    BY <2>3
  <2>5. 2 \in 1 .. Len(p) /\ p[2].what = "nccl"
    BY <2>2, <2>4 DEF Paired
  <2>6. todo'[w] = Tail(p) \/ (w \in noNccl /\ todo'[w] = Tail(Tail(p)))
    BY <2>1, <2>2
  <2>a. "import_nccl" \in W
    OBVIOUS
  <2>7. GoesOn(w, W) /\ todo'[w] \in Seq(ClassCalls)
    <3>1. CASE todo'[w] = Tail(p)
      <4> HIDE DEF W
      <4> QED BY <2>3, <2>a, <3>1, PopGoesOn
    <3>2. CASE w \in noNccl /\ todo'[w] = Tail(Tail(p))
      <4> DEFINE q == Tail(Tail(p))
      <4>1. q \in Seq(ClassCalls) /\ Len(q) = Len(p) - 2 /\ \A i \in 1 .. Len(q) : q[i] = p[2 + i]
        <5> DEFINE t == Tail(p)
        <5>1. t \in Seq(ClassCalls) /\ Len(t) = Len(p) - 1 /\ \A i \in 1 .. Len(t) : t[i] = p[i + 1]
          BY <2>3
        <5>2. Len(p) \in Nat /\ Len(p) >= 2 /\ q = Tail(t)
          BY <2>3, <2>5
        <5> HIDE DEF t, q
        <5>3. t # <<>> /\ Len(t) >= 1
          BY <5>1, <5>2
        <5>4. q \in Seq(ClassCalls) /\ Len(q) = Len(t) - 1 /\ \A i \in 1 .. Len(q) : q[i] = t[i + 1]
          BY <5>1, <5>2, <5>3
        <5>5. ASSUME NEW i \in 1 .. Len(q) PROVE q[i] = p[2 + i]
          <6>1. q[i] = t[i + 1] /\ i + 1 \in 1 .. Len(t) /\ (i + 1) + 1 = 2 + i
            BY <5>1, <5>2, <5>4
          <6>2. t[i + 1] = p[(i + 1) + 1]
            BY <5>1, <6>1
          <6> QED BY <6>1, <6>2
        <5> QED BY <5>1, <5>2, <5>4, <5>5
      <4> HIDE DEF q
      <4>2. Drops(p, q, 2)
        BY <2>5, <4>1 DEF Drops
      <4>3. \A i \in 1 .. 2 : p[i].what \in W
        BY <2>4, <2>5, <3>2
      <4>4. todo'[w] = q
        BY <3>2 DEF q
      <4> HIDE DEF W
      <4> QED BY <4>1, <4>2, <4>3, <4>4 DEF GoesOn
    <3> QED BY <2>6, <3>1, <3>2
  <2>8. ASSUME NEW r \in Launched, r # w PROVE GoesOn(r, W) /\ todo'[r] \in Seq(ClassCalls)
    <3>1. todo'[r] = todo[r] /\ todo[r] \in Seq(ClassCalls)
      BY <2>1, <2>2, <2>8
    <3> QED BY <3>1, NoPopGoesOn
  <2>9. todo' \in [Launched -> Seq(ClassCalls)]
    <3>1. todo' = [r \in Launched |-> todo'[r]]
      BY <2>1, <2>2
    <3> QED BY <2>7, <2>8, <3>1
  <2>10. Advances(W)
    BY <2>1, <2>7, <2>8, <2>9 DEF Advances
  <2>11. Licensed(W, w)
    BY <1>0, <1>1
  <2> HIDE DEF W
  <2> QED BY <2>10, <2>11
<1>5. CASE MakeNccl(w)
  BY <1>1, <1>5, MembersAdvance DEF MakeNccl
<1>7. CASE RequireNccl(w)
  BY <1>0, <1>7, WorkAdvances, RaiseAdvances DEF RequireNccl
<1>8. CASE ChooseTransport(w)
  <2>1. Gathered(w) /\ Current(w).what = "consensus"
    BY <1>8 DEF ChooseTransport
  <2>2. Current(w).with = Launched
    <3>1. Current(w) \in ClassCalls
      BY <2>1, TailDrops DEF ClassShape, Gathered, At, Current
    <3> QED BY <2>1, <3>1 DEF ClassCalls, Worldwide
  <2>3. (\E G : Raise(G)) \/ Leave(Launched)
    BY <1>8 DEF ChooseTransport
  <2>4. CASE \E G : Raise(G)
    BY <1>1, <2>4, RaiseAdvances
  <2>5. CASE Leave(Launched)
    <3>1. Advances({"consensus"})
      BY <2>1, <2>2, <2>5, MembersAdvance
    <3>2. Licensed({"consensus"}, w)
      BY <1>a, <2>1, <2>5 DEF Licensed, Worldwide
    <3> QED BY <3>1, <3>2
  <2> QED BY <2>3, <2>4, <2>5
<1>9. CASE Compare(w)
  <2>1. Gathered(w) /\ Current(w).what \notin {"nccl", "consensus", "measurements"}
    BY <1>9 DEF Compare
  <2> DEFINE x == Current(w).what
  <2>2. CASE Disagreement(x)
    <3>1. Raise(Current(w).with)
      BY <1>9, <2>2 DEF Compare
    <3>2. Advances({})
      BY <3>1, RaiseAdvances
    <3> QED BY <1>1, <3>2
  <2>3. CASE ~Disagreement(x)
    <3>1. Leave(Current(w).with)
      BY <1>9, <2>3 DEF Compare
    <3>2. Advances({x})
      BY <2>1, <3>1, MembersAdvance
    <3>3. x # "wait"
      <4>1. Current(w) \in ClassCalls /\ Current(w).do = "meet"
        BY <2>1, TailDrops DEF ClassShape, Gathered, At, Current
      <4> QED BY <4>1 DEF ClassCalls, Locally
    <3>5. x \in Worldwide => Jointly
      <4>1. Current(w) \in ClassCalls
        BY <2>1, TailDrops DEF ClassShape, Gathered, At, Current
      <4> QED BY <1>a, <2>1, <3>1, <4>1 DEF ClassCalls
    <3>4. Licensed({x}, w)
      <4> HIDE DEF x
      <4>1. x # "measurements" /\ x # "nccl"
        BY <2>1 DEF x
      <4> QED BY <2>3, <3>3, <3>5, <4>1 DEF Licensed
    <3> QED BY <3>2, <3>4
  <2> QED BY <2>2, <2>3
<1>10. CASE Listen(w)
  BY <1>0, <1>10, WorkAdvances DEF Listen, Does
<1>11. CASE MeasureFails(w)
  <2>1. (Work(w, "measure") \/ Work(w, "serve")) /\ Leave({w})
    BY <1>11 DEF MeasureFails, Does
  <2>2. Advances({"measure"}) \/ Advances({"serve"})
    BY <2>1, WorkAdvances
  <2> QED BY <1>0, <2>2
<1>12. CASE ShareMatrix(w)
  <2>1. Gathered(w) /\ Current(w).what = "measurements" /\ Leave(Launched)
    BY <1>12 DEF ShareMatrix
  <2>2. Current(w).with = Launched
    <3>1. Current(w) \in ClassCalls
      BY <2>1, TailDrops DEF ClassShape, Gathered, At, Current
    <3> QED BY <2>1, <3>1 DEF ClassCalls, Worldwide
  <2>3. Advances({"measurements"})
    BY <2>1, <2>2, MembersAdvance
  <2>5. Jointly
    BY <1>a, <2>1 DEF Worldwide
  <2>4. Licensed({"measurements"}, w)
    BY <1>12, <2>5 DEF Licensed
  <2> QED BY <2>3, <2>4
<1>13. CASE \E v \in Launched : Measure(w, v) \/ Transfers(w, v)
  <2>1. PICK v \in Launched : Measure(w, v) \/ Transfers(w, v)
    BY <1>13
  <2>2. CASE Measure(w, v)
    <3>1. \A r \in {w, v} \cap Launched : todo[r] # <<>> /\ Head(todo[r]).what \in {"measure", "serve"}
      BY <2>2 DEF Measure, Work, At, Current
    <3>2. Leave({w, v})
      BY <2>2 DEF Measure
    <3>3. Advances({"measure", "serve"})
      BY <3>1, <3>2, LeaveAdvances
    <3> QED BY <1>1, <3>3
  <2>3. CASE Transfers(w, v)
    <3>1. CASE Pass(w, v)
      <4>1. \A r \in {w, v} \cap Launched : todo[r] # <<>> /\ Head(todo[r]).do \in {"send", "recv"}
        BY <3>1 DEF Pass, At
      <4>2. Leave({w, v})
        BY <3>1 DEF Pass
      <4>3. Advances({})
        BY <4>1, <4>2, LeaveAdvances
      <4> QED BY <1>1, <4>3
    <3>2. ASSUME NEW r \in Launched, todo[r] # <<>>, Head(todo[r]).do \in {"send", "recv"}, todo' = Popped({r})
          PROVE  Advances({})
      <4>1. \A q \in {r} \cap Launched : todo[q] # <<>> /\ Head(todo[q]).do \in {"send", "recv"}
        BY <3>2
      <4> QED BY <3>2, <4>1, PopAdvances
    <3>3. CASE Post(w, v, "tensor")
      BY <1>1, <3>2, <3>3 DEF Post, At
    <3>4. CASE Take(v, w)
      BY <1>1, <3>2, <3>4 DEF Take, Arrives, At
    <3> QED BY <2>3, <3>1, <3>3, <3>4 DEF Transfers
  <2> QED BY <2>1, <2>2, <2>3
<1>14. CASE UpdateModel(w)
  BY <1>0, <1>14, WorkAdvances DEF UpdateModel, Does
<1>15. CASE Terminate(w)
  BY <1>1, <1>15, RaiseAdvances DEF Terminate
<1>16. CASE AwaitChildren(w)
  <2>1. Advances({"wait"})
    BY <1>16, WorkAdvances, RaiseAdvances DEF AwaitChildren
  <2>2. Licensed({"wait"}, w)
    BY <1>16 DEF Licensed, Worldwide
  <2> QED BY <2>1, <2>2
<1>17. CASE Quit(w)
  BY <1>1, <1>17, RaiseAdvances DEF Quit, Desert
<1> QED BY <1>2, <1>3, <1>4, <1>5, <1>7, <1>8, <1>9, <1>10, <1>11, <1>12, <1>13, <1>14, <1>15, <1>16, <1>17
    DEF ClassStep

------------------------------------------------------------------------------
(* Nobody trains before all agree: the inductive invariant.                 *)

\* The comparisons that raise on a difference of what does not change.
Comparisons == {"assignments", "vocabulary", "vocabularies", "plans"}

Links == Launched \X Launched

ClassTypes ==
  /\ differs \in {"nothing", "assignment"} \cup (IF plan.dynamic THEN {"plan"} ELSE {})
  /\ tensors \in [Launched -> {"nccl", "gloo"}]
  /\ measured \in [Launched -> SUBSET Links] /\ matrix \in [Launched -> SUBSET Links]
  /\ updates \in [Launched -> Nat]

\* A comparison that finds a difference is still before all ranks.
Undecided ==
  \A x \in Comparisons : Disagreement(x) => \A w \in Launched : updates[w] = 0 /\ Guarded(todo[w], x, "update")

\* Either nobody has passed the exchange of measurements, or everybody has.
Unshared == \A w \in Launched : updates[w] = 0 /\ Guarded(todo[w], "measurements", "update")
Shared == \A w \in Launched : measured[w] \subseteq matrix[w] /\ Never(todo[w], "measure")

Alike == \A v, w \in Launched : tensors[v] = tensors[w] /\ matrix[v] = matrix[w]

ClassInv ==
  /\ ClassShape /\ ClassTypes
  /\ Undecided /\ (Unshared \/ Shared) /\ Alike
  /\ \A w \in Launched : NeverAfter(todo[w], "measurements", "measure")

LEMMA AdvanceKeepsOrder ==
  ASSUME ClassShape, NEW W, Advances(W), NEW r \in Launched
  PROVE  /\ Paired(todo'[r])
         /\ \A u : Never(todo[r], u) => Never(todo'[r], u)
         /\ \A g, u : NeverAfter(todo[r], g, u) => NeverAfter(todo'[r], g, u)
         /\ \A g \in Worldwide : \A u : (g \notin W /\ Guarded(todo[r], g, u)) => Guarded(todo'[r], g, u)
<1> DEFINE p == todo[r]
           q == todo'[r]
<1>1. p \in Seq(ClassCalls) /\ q \in Seq(ClassCalls) /\ Paired(p) /\ GoesOn(r, W)
  BY DEF ClassShape, Advances
<1>2. Paired(q)
  <2>1. CASE q = <<>>
    BY <2>1 DEF Paired
  <2>2. CASE q # <<>>
    <3>1. PICK k \in Nat : Drops(p, q, k)
      BY <1>1, <2>2 DEF GoesOn
    <3> HIDE DEF p, q
    <3>2. k \in 0 .. Len(p) /\ Len(p) \in Nat /\ Len(q) = Len(p) - k /\ \A i \in 1 .. Len(q) : q[i] = p[k + i]
      BY <1>1, <3>1 DEF Drops
    <3> SUFFICES ASSUME NEW i \in 1 .. Len(q), q[i].what = "import_nccl"
                 PROVE  i + 1 \in 1 .. Len(q) /\ q[i + 1].what = "nccl"
      BY DEF Paired
    <3> DEFINE n == k + i
    <3>3. n \in 1 .. Len(p) /\ p[n].what = "import_nccl"
      BY <3>2
    <3>4. \A m \in 1 .. Len(p) : p[m].what = "import_nccl" => m + 1 \in 1 .. Len(p) /\ p[m + 1].what = "nccl"
      BY <1>1 DEF Paired
    <3> HIDE DEF n
    <3>5. n + 1 \in 1 .. Len(p) /\ p[n + 1].what = "nccl"
      BY <3>3, <3>4
    <3>6. i + 1 \in 1 .. Len(q) /\ k + (i + 1) = n + 1
      BY <3>2, <3>5 DEF n
    <3> QED BY <3>2, <3>5, <3>6
  <2> QED BY <2>1, <2>2
<1>3. \A g \in Worldwide : \A c \in ClassCalls : c.what = g => c.do \notin {"send", "recv"}
  BY DEF ClassCalls
<1> QED BY <1>1, <1>2, <1>3, OnwardKeeps

\* Which action changes what.
LEMMA ClassChanges ==
  ASSUME NEW w \in Launched, ClassStep(w)
  PROVE  /\ UNCHANGED settings
         /\ UpdateModel(w) \/ updates' = updates
         /\ (\E v \in Launched : Measure(w, v)) \/ measured' = measured
         /\ ShareMatrix(w) \/ matrix' = matrix
         /\ ChooseTransport(w) \/ tensors' = tensors
<1>1. CASE SetUp(w)
  BY <1>1 DEF SetUp, Does, settings, probing
<1>2. CASE Attempt(w)
  BY <1>2 DEF Attempt, settings, probing
<1>3. CASE ImportNccl(w)
  BY <1>3 DEF ImportNccl, classVars, settings, probing
<1>4. CASE MakeNccl(w)
  BY <1>4 DEF MakeNccl, settings, probing
<1>6. CASE RequireNccl(w)
  BY <1>6 DEF RequireNccl, classVars, settings, probing
<1>7. CASE ChooseTransport(w)
  BY <1>7 DEF ChooseTransport, settings, probing
<1>8. CASE Compare(w)
  BY <1>8 DEF Compare, classVars, settings, probing
<1>9. CASE Listen(w)
  BY <1>9 DEF Listen, Does, settings, probing
<1>10. CASE MeasureFails(w)
  BY <1>10 DEF MeasureFails, Does, settings, probing
<1>11. CASE ShareMatrix(w)
  BY <1>11 DEF ShareMatrix, settings, probing
<1>12. CASE \E v \in Launched : Measure(w, v)
  BY <1>12 DEF Measure, settings, probing
<1>13. CASE \E v \in Launched : Transfers(w, v)
  BY <1>13 DEF Transfers, classVars, settings, probing
<1>14. CASE UpdateModel(w)
  BY <1>14 DEF UpdateModel, Does, settings, probing
<1>15. CASE Terminate(w)
  BY <1>15 DEF Terminate, classVars, settings, probing
<1>16. CASE AwaitChildren(w)
  BY <1>16 DEF AwaitChildren, classVars, settings, probing
<1>17. CASE Quit(w)
  BY <1>17 DEF Quit, classVars, settings, probing
<1> QED BY <1>1, <1>2, <1>3, <1>4, <1>6, <1>7, <1>8, <1>9, <1>10, <1>11, <1>12, <1>13, <1>14, <1>15, <1>16, <1>17
    DEF ClassStep

LEMMA ClassStepTypes ==
  ASSUME ClassShape, ClassTypes, NEW w \in Launched, ClassStep(w)
  PROVE  ClassTypes'
<1>0. plan' = plan /\ differs' = differs /\ Launched' = Launched /\ Links' = Links
  BY ClassChanges DEF settings, Launched, Links
<1>1. updates' \in [Launched -> Nat]
  <2>1. UpdateModel(w) => updates' = [updates EXCEPT ![w] = @ + 1]
    BY DEF UpdateModel
  <2> QED BY <2>1, ClassChanges DEF ClassTypes
<1>2. measured' \in [Launched -> SUBSET Links]
  <2>1. ASSUME NEW v \in Launched, Measure(w, v) PROVE measured' \in [Launched -> SUBSET Links]
    <3>1. measured' = [measured EXCEPT ![w] = @ \cup {<<w, v>>}] /\ <<w, v>> \in Links
      BY <2>1 DEF Measure, Links
    <3> QED BY <3>1 DEF ClassTypes
  <2> QED BY <2>1, ClassChanges DEF ClassTypes
<1>3. matrix' \in [Launched -> SUBSET Links]
  <2>1. ASSUME ShareMatrix(w) PROVE matrix' \in [Launched -> SUBSET Links]
    <3>1. matrix' = [v \in Launched |-> UNION {measured[u] : u \in Launched}]
      BY <2>1 DEF ShareMatrix
    <3>2. UNION {measured[u] : u \in Launched} \subseteq Links
      BY DEF ClassTypes
    <3> QED BY <3>1, <3>2
  <2> QED BY <2>1, ClassChanges DEF ClassTypes
<1>4. tensors' \in [Launched -> {"nccl", "gloo"}]
  <2>1. ChooseTransport(w) => tensors' = [v \in Launched |-> IF NcclOk(v) THEN "nccl" ELSE "gloo"]
    BY DEF ChooseTransport
  <2> QED BY <2>1, ClassChanges DEF ClassTypes
<1>5. differs' \in {"nothing", "assignment"} \cup (IF plan'.dynamic THEN {"plan"} ELSE {})
  BY <1>0 DEF ClassTypes
<1> QED BY <1>0, <1>1, <1>2, <1>3, <1>4, <1>5 DEF ClassTypes

\* What does not change differs or agrees for good.
LEMMA SameDisagreement ==
  ASSUME UNCHANGED <<plan, differs>>
  PROVE  /\ \A x \in Comparisons : Disagreement(x)' <=> Disagreement(x)
         /\ VocabularyAccepted' <=> VocabularyAccepted
         /\ VocabulariesAgree' <=> VocabulariesAgree
<1>1. plan' = plan /\ differs' = differs /\ Launched' = Launched /\ Ends' = Ends
  BY DEF Launched, Ends, IsFirst, IsLast, StageOf
<1>2. VocabularyAccepted' <=> VocabularyAccepted
  BY <1>1 DEF VocabularyAccepted
<1>3. VocabulariesAgree' <=> VocabulariesAgree
  BY <1>1 DEF VocabulariesAgree
<1> QED BY <1>1, <1>2, <1>3 DEF Disagreement, Comparisons

LEMMA ClassStepInv ==
  ASSUME ClassInv, NEW w \in Launched, ClassStep(w)
  PROVE  ClassInv'
<1>0. plan' = plan /\ differs' = differs /\ Launched' = Launched /\ ClassCalls' = ClassCalls
  BY ClassChanges DEF settings, Launched, ClassCalls
<1>1. ClassShape /\ ClassTypes /\ Undecided /\ Alike /\ \A r \in Launched : todo[r] \in Seq(ClassCalls)
  BY DEF ClassInv, ClassShape
<1>2. PICK W : Advances(W) /\ Licensed(W, w)
  BY <1>1, StepAdvances
<1>3. ClassShape'
  BY <1>0, <1>1, <1>2, AdvanceKeepsOrder DEF ClassShape, Advances
<1>4. ClassTypes'
  BY <1>1, ClassStepTypes
<1>5. \A r \in Launched' : NeverAfter(todo'[r], "measurements", "measure")
  BY <1>0, <1>1, <1>2, AdvanceKeepsOrder DEF ClassInv
<1>6. UpdateModel(w) => todo[w] # <<>> /\ Head(todo[w]).what = "update"
  BY DEF UpdateModel, Does, Work, At, Current
<1>7. \A g : (\A r \in Launched : updates[r] = 0 /\ Guarded(todo[r], g, "update")) => updates' = updates
  BY <1>1, <1>6, ClassChanges, HeadFacts
<1>8. Undecided'
  <2>0. \A x \in Comparisons : Disagreement(x)' => Disagreement(x)
    BY <1>0, SameDisagreement
  <2> SUFFICES ASSUME NEW x \in Comparisons, Disagreement(x), NEW r \in Launched
               PROVE  updates'[r] = 0 /\ Guarded(todo'[r], x, "update")
    BY <1>0, <2>0 DEF Undecided
  <2>1. \A q \in Launched : updates[q] = 0 /\ Guarded(todo[q], x, "update")
    BY <1>1 DEF Undecided
  <2>2. updates'[r] = 0
    BY <1>7, <2>1
  <2>3. x \in Worldwide /\ x \notin W
    BY <1>2 DEF Licensed, Worldwide, Comparisons
  <2> QED BY <1>1, <1>2, <2>1, <2>2, <2>3, AdvanceKeepsOrder
<1>9. (Unshared \/ Shared)'
  <2>1. CASE ShareMatrix(w)
    <3>1. /\ Gathered(w) /\ Current(w).what = "measurements" /\ Leave(Launched) /\ measured' = measured
          /\ matrix' = [v \in Launched |-> UNION {measured[u] : u \in Launched}]
      BY <2>1 DEF ShareMatrix
    <3>2. Current(w) \in ClassCalls
      BY <1>1, <3>1, TailDrops DEF Gathered, At, Current
    <3>3. Current(w).with = Launched
      BY <3>1, <3>2 DEF ClassCalls, Worldwide
    <3>4. \A r \in Launched : todo[r] # <<>> /\ Head(todo[r]).what = "measurements"
      BY <3>1, <3>3 DEF Gathered, Current
    <3>5. \A r \in Launched : todo'[r] = Tail(todo[r])
      BY <1>1, <3>1 DEF Leave, Popped, Peers, ClassShape
    <3>8. \A r \in Launched : NeverAfter(todo[r], "measurements", "measure")
      BY DEF ClassInv
    <3>6. ASSUME NEW r \in Launched PROVE Never(todo'[r], "measure")
      <4>1. todo[r] \in Seq(ClassCalls) /\ todo[r] # <<>> /\ Head(todo[r]).what = "measurements"
        BY <1>1, <3>4
      <4>2. NeverAfter(todo[r], "measurements", "measure") => Never(Tail(todo[r]), "measure")
        BY <4>1, HeadFacts
      <4> QED BY <3>5, <3>8, <4>2
    <3>7. \A r \in Launched : measured'[r] \subseteq matrix'[r]
      BY <3>1
    <3> QED BY <1>0, <3>6, <3>7 DEF Shared
  <2>2. CASE ~ShareMatrix(w)
    <3>1. "measurements" \notin W /\ "measurements" \in Worldwide /\ matrix' = matrix
      BY <1>2, <2>2, ClassChanges DEF Licensed, Worldwide
    <3>2. ASSUME Unshared PROVE Unshared'
      <4>1. updates' = updates
        BY <1>7, <3>2 DEF Unshared
      <4>2. \A r \in Launched : Guarded(todo'[r], "measurements", "update")
        BY <1>1, <1>2, <3>1, <3>2, AdvanceKeepsOrder DEF Unshared
      <4> QED BY <1>0, <3>2, <4>1, <4>2 DEF Unshared
    <3>3. ASSUME Shared PROVE Shared'
      <4>1. \A v \in Launched : ~Measure(w, v)
        <5> SUFFICES ASSUME NEW v \in Launched, Measure(w, v) PROVE FALSE
          OBVIOUS
        <5>1. todo[w] # <<>> /\ Head(todo[w]).what = "measure"
          BY DEF Measure, Work, At, Current
        <5> QED BY <1>1, <3>3, <5>1, HeadFacts DEF Shared
      <4>2. measured' = measured
        BY <4>1, ClassChanges
      <4>3. \A r \in Launched : Never(todo'[r], "measure")
        BY <1>1, <1>2, <3>3, AdvanceKeepsOrder DEF Shared
      <4> QED BY <1>0, <3>1, <3>3, <4>2, <4>3 DEF Shared
    <3> QED BY <3>2, <3>3 DEF ClassInv
  <2> QED BY <2>1, <2>2
<1>10. Alike'
  <2>1. \A u, v \in Launched : tensors'[u] = tensors'[v]
    <3>1. ChooseTransport(w) => tensors' = [v \in Launched |-> IF \A u \in Launched : nccl[u] THEN "nccl" ELSE "gloo"]
      BY DEF ChooseTransport, NcclOk
    <3> QED BY <1>1, <3>1, ClassChanges DEF Alike
  <2>2. \A u, v \in Launched : matrix'[u] = matrix'[v]
    <3>1. ShareMatrix(w) => matrix' = [v \in Launched |-> UNION {measured[u] : u \in Launched}]
      BY DEF ShareMatrix
    <3>2. CASE ShareMatrix(w)
      BY <3>1, <3>2
    <3>3. CASE ~ShareMatrix(w)
      <4>1. matrix' = matrix
        BY <3>3, ClassChanges
      <4> QED BY <1>1, <4>1 DEF Alike
    <3> QED BY <3>2, <3>3
  <2> QED BY <1>0, <2>1, <2>2 DEF Alike
<1> QED BY <1>3, <1>4, <1>5, <1>8, <1>9, <1>10 DEF ClassInv

LEMMA ClassInitInv ==
  ClassInit => ClassInv
<1> SUFFICES ASSUME ClassInit PROVE ClassInv
  OBVIOUS
<1>1. plan \in Plans /\ todo = [w \in Launched |-> ClassProgram(w)] /\ updates = [w \in Launched |-> 0]
  BY DEF ClassInit
<1>2. plan.probe \in BOOLEAN /\ plan.dynamic \in BOOLEAN
  BY <1>1, ClassificationAssumption
<1>3. ClassShape
  BY <1>1, ClassProgramOrder DEF ClassShape
<1>4. ClassTypes
  BY DEF ClassInit, ClassTypes
<1>5. ASSUME NEW x \in Comparisons, Disagreement(x), NEW w \in Launched PROVE Guarded(todo[w], x, "update")
  <2>1. x \in {"assignments", "vocabulary"} \/ (plan.dynamic /\ x \in {"vocabularies", "plans"})
    BY <1>4, <1>5 DEF ClassTypes, Comparisons, Disagreement, VocabulariesAgree
  <2> QED BY <1>1, <2>1, ClassProgramOrder
<1>6. Undecided
  BY <1>1, <1>5 DEF Undecided
<1>7. Unshared \/ Shared
  <2>1. CASE plan.probe
    BY <1>1, <2>1, ClassProgramOrder DEF Unshared
  <2>2. CASE ~plan.probe
    <3>1. measured = [w \in Launched |-> {}]
      BY DEF ClassInit
    <3> QED BY <1>1, <2>2, <3>1, ClassProgramOrder DEF Shared
  <2> QED BY <1>2, <2>1, <2>2
<1>8. Alike
  BY DEF ClassInit, Alike
<1>9. \A w \in Launched : NeverAfter(todo[w], "measurements", "measure")
  BY <1>1, ClassProgramOrder
<1> QED BY <1>3, <1>4, <1>6, <1>7, <1>8, <1>9 DEF ClassInv

\* A step that only ends ranks keeps it.
LEMMA ClassEndInv ==
  ASSUME ClassInv, Advances({}),
         UNCHANGED <<plan, differs, tensors, measured, matrix, updates>>
  PROVE  ClassInv'
<1>0. /\ plan' = plan /\ differs' = differs /\ tensors' = tensors /\ measured' = measured /\ matrix' = matrix
      /\ updates' = updates /\ Launched' = Launched /\ ClassCalls' = ClassCalls
  BY DEF Launched, ClassCalls
<1>1. ClassShape /\ ClassTypes /\ Undecided /\ (Unshared \/ Shared) /\ Alike
  BY DEF ClassInv
<1>2. \A r \in Launched : Paired(todo'[r])
  BY <1>1, AdvanceKeepsOrder
<1>3. \A r \in Launched : \A u : Never(todo[r], u) => Never(todo'[r], u)
  BY <1>1, AdvanceKeepsOrder
<1>4. \A r \in Launched : \A g, u : NeverAfter(todo[r], g, u) => NeverAfter(todo'[r], g, u)
  BY <1>1, AdvanceKeepsOrder
<1>5. \A r \in Launched : \A g \in Worldwide : \A u : Guarded(todo[r], g, u) => Guarded(todo'[r], g, u)
  <2> TAKE r \in Launched
  <2> TAKE g \in Worldwide
  <2>1. g \notin {}
    OBVIOUS
  <2> QED BY <1>1, <2>1, AdvanceKeepsOrder
<1>6. ClassShape'
  BY <1>0, <1>1, <1>2 DEF ClassShape, Advances
<1>7. ClassTypes'
  BY <1>0, <1>1 DEF ClassTypes, Links
<1>8. \A x \in Comparisons : x \in Worldwide /\ (Disagreement(x)' => Disagreement(x))
  BY <1>0, SameDisagreement DEF Comparisons, Worldwide
<1>9. Undecided'
  BY <1>0, <1>1, <1>5, <1>8 DEF Undecided
<1>10. "measurements" \in Worldwide
  BY DEF Worldwide
<1>11. (Unshared \/ Shared)'
  BY <1>0, <1>1, <1>3, <1>5, <1>10 DEF Unshared, Shared
<1>12. Alike'
  BY <1>0, <1>1 DEF Alike
<1>13. \A r \in Launched' : NeverAfter(todo'[r], "measurements", "measure")
  BY <1>0, <1>4 DEF ClassInv
<1> QED BY <1>6, <1>7, <1>9, <1>11, <1>12, <1>13 DEF ClassInv

LEMMA ClassAgrees ==
  ClassInv => AgreedBeforeTraining
<1> SUFFICES ASSUME ClassInv, NEW w \in Launched, updates[w] > 0
             PROVE  /\ differs = "nothing" /\ VocabularyAccepted /\ VocabulariesAgree
                    /\ \A v \in Launched : tensors[v] = tensors[0] /\ matrix[v] = matrix[0] /\ measured[v] \subseteq matrix[0]
  BY DEF AgreedBeforeTraining
<1>1. ClassShape /\ ClassTypes /\ Undecided /\ (Unshared \/ Shared) /\ Alike
  BY DEF ClassInv
<1>2. updates[w] # 0 /\ 0 \in Launched
  BY <1>1, LaunchedRanks DEF ClassTypes, ClassShape
<1>3. Shared
  BY <1>1, <1>2 DEF Unshared
<1>4. \A x \in Comparisons : ~Disagreement(x)
  BY <1>2 DEF ClassInv, Undecided
<1>5. differs = "nothing" /\ VocabularyAccepted /\ VocabulariesAgree
  BY <1>1, <1>4 DEF ClassTypes, Comparisons, Disagreement
<1> QED BY <1>1, <1>2, <1>3, <1>5 DEF Shared, Alike

\* Nobody updates a model of the classification task before all ranks have the
\* same assignment, the ends the expected vocabulary, if one is expected, and, in
\* a dynamic run, one vocabulary and all ranks one plan; before all have the same
\* transport, and share one matrix in which every measurement is (main of
\* dist_runner.py, negotiate, aggregate_probe_results).
THEOREM RanksAgreeFirst == ClassSpec => []AgreedBeforeTraining
<1>1. ClassInit => ClassInv
  BY ClassInitInv
<1>2. ClassInv /\ [ClassNext]_<<classVars, channelVars>> => ClassInv'
  <2> SUFFICES ASSUME ClassInv, [ClassNext]_<<classVars, channelVars>> PROVE ClassInv'
    OBVIOUS
  <2>1. ClassShape
    BY DEF ClassInv
  <2>2. ASSUME NEW w \in Launched, ClassStep(w) PROVE ClassInv'
    BY <2>2, ClassStepInv
  <2>3. ASSUME NEW w \in Launched, Error(w) PROVE ClassInv'
    <3>1. Raise({w}) /\ UNCHANGED <<plan, differs, tensors, measured, matrix, updates>>
      BY <2>3 DEF Error, settings, probing
    <3> QED BY <2>1, <3>1, RaiseAdvances, ClassEndInv
  <2>4. CASE UNCHANGED <<classVars, channelVars>>
    <3>1. UNCHANGED todo /\ UNCHANGED <<plan, differs, tensors, measured, matrix, updates>>
      BY <2>4 DEF classVars, channelVars, settings, probing
    <3> QED BY <2>1, <3>1, IdleAdvances, ClassEndInv
  <2> QED BY <2>2, <2>3, <2>4 DEF ClassNext
<1>3. ClassInv => AgreedBeforeTraining
  BY ClassAgrees
<1> QED BY <1>1, <1>2, <1>3, PTL DEF ClassSpec

------------------------------------------------------------------------------
(* Success is of all: while rank 0 has to await its children it does so, or  *)
(* has raised; it leaves only when all have ended and none has raised.       *)

AwaitInv ==
  plan.spawned =>
    \/ Waits(todo[0])
    \/ 0 \in raised
    \/ raised = {} /\ \A r \in Launched : todo[r] = <<>>

\* Whoever acts lets a rank make a call, and nobody's error is forgotten.
LEMMA ClassStepCalls ==
  ASSUME NEW w \in Launched, ClassStep(w)
  PROVE  raised \subseteq raised' /\ \E r \in Launched : todo[r] # <<>>
<1>1. CASE SetUp(w)
  BY <1>1 DEF SetUp, Does, Work, At, Leave
<1>2. CASE Attempt(w)
  BY <1>2 DEF Attempt, Work, At, Leave
<1>3. CASE ImportNccl(w)
  BY <1>3 DEF ImportNccl, Work, At
<1>4. CASE MakeNccl(w)
  BY <1>4 DEF MakeNccl, Gathered, At, Leave
<1>6. CASE RequireNccl(w)
  BY <1>6 DEF RequireNccl, Work, At, Leave, Raise
<1>7. CASE ChooseTransport(w)
  BY <1>7 DEF ChooseTransport, Gathered, At, Leave, Raise
<1>8. CASE Compare(w)
  BY <1>8 DEF Compare, Gathered, At, Leave, Raise
<1>9. CASE Listen(w)
  BY <1>9 DEF Listen, Does, Work, At, Leave
<1>10. CASE MeasureFails(w)
  BY <1>10 DEF MeasureFails, Does, Work, At, Leave
<1>11. CASE ShareMatrix(w)
  BY <1>11 DEF ShareMatrix, Gathered, At, Leave
<1>12. CASE \E v \in Launched : Measure(w, v)
  BY <1>12 DEF Measure, Work, At, Leave
<1>13. CASE \E v \in Launched : Transfers(w, v)
  <2>1. PICK v \in Launched : Pass(w, v) \/ Post(w, v, "tensor") \/ Take(v, w)
    BY <1>13 DEF Transfers
  <2> QED BY <2>1 DEF Pass, Post, Take, Arrives, At, Leave
<1>14. CASE UpdateModel(w)
  BY <1>14 DEF UpdateModel, Does, Work, At, Leave
<1>15. CASE Terminate(w)
  BY <1>15 DEF Terminate, Raise
<1>16. CASE AwaitChildren(w)
  BY <1>16 DEF AwaitChildren, Work, At, Leave, Raise
<1>17. CASE Quit(w)
  BY <1>17 DEF Quit, Desert, At, Raise
<1> QED BY <1>1, <1>2, <1>3, <1>4, <1>6, <1>7, <1>8, <1>9, <1>10, <1>11, <1>12, <1>13, <1>14, <1>15, <1>16, <1>17
    DEF ClassStep

\* Rank 0 keeps the call that waits, unless it makes it.
LEMMA KeepsWaiting ==
  ASSUME ClassShape, NEW W, Advances(W), "wait" \notin W, Waits(todo[0])
  PROVE  Waits(todo'[0]) \/ 0 \in raised'
<1> DEFINE p == todo[0]
           q == todo'[0]
<1>1. 0 \in Launched
  BY LaunchedRanks DEF ClassShape
<1>2. p \in Seq(ClassCalls) /\ q \in Seq(ClassCalls) /\ GoesOn(0, W)
  BY <1>1 DEF ClassShape, Advances
<1>3. SUFFICES ASSUME 0 \notin raised' PROVE Waits(q)
  OBVIOUS
<1>4. PICK k \in Nat : Drops(p, q, k) /\ \A i \in 1 .. k : p[i].what \in W \/ p[i].do \in {"send", "recv"}
  BY <1>2, <1>3 DEF GoesOn
<1>5. p # <<>> /\ p[Len(p)].what = "wait"
  BY DEF Waits
<1> HIDE DEF p, q
<1>6. Len(p) \in Nat /\ Len(p) \in 1 .. Len(p) /\ k \in 0 .. Len(p) /\ Len(q) = Len(p) - k
  BY <1>2, <1>4, <1>5 DEF Drops
<1>7. p[Len(p)] \in ClassCalls
  BY <1>2, <1>6
<1>8. p[Len(p)].do \notin {"send", "recv"}
  BY <1>5, <1>7 DEF ClassCalls, Locally
<1>9. k # Len(p)
  BY <1>4, <1>5, <1>6, <1>8
<1>10. Len(q) \in 1 .. Len(q) /\ k + Len(q) = Len(p)
  BY <1>6, <1>9
<1>11. q[Len(q)] = p[Len(p)] /\ q # <<>>
  BY <1>4, <1>10 DEF Drops
<1> QED BY <1>5, <1>11 DEF Waits

LEMMA AwaitStep ==
  ASSUME ClassShape, AwaitInv, NEW w \in Launched, ClassStep(w)
  PROVE  AwaitInv'
<1>0. plan' = plan /\ Launched' = Launched /\ 0 \in Launched
  BY ClassChanges, LaunchedRanks DEF settings, Launched, ClassShape
<1>1. raised \subseteq raised' /\ \E r \in Launched : todo[r] # <<>>
  BY ClassStepCalls
<1>2. SUFFICES ASSUME plan.spawned, 0 \notin raised'
               PROVE  Waits(todo'[0]) \/ (raised' = {} /\ \A r \in Launched : todo'[r] = <<>>)
  BY <1>0 DEF AwaitInv
<1>3. Waits(todo[0])
  BY <1>1, <1>2 DEF AwaitInv
<1>4. PICK W : Advances(W) /\ Licensed(W, w)
  BY StepAdvances
<1>5. CASE "wait" \notin W
  BY <1>2, <1>3, <1>4, <1>5, KeepsWaiting
<1>6. CASE AwaitChildren(w)
  <2>1. /\ todo[w] # <<>> /\ Head(todo[w]).what = "wait" /\ \A v \in Launched \ {w} : todo[v] = <<>>
        /\ IF raised # {} THEN Raise({w}) ELSE Leave({w})
    BY <1>6 DEF AwaitChildren, AnyFailed, Work, At, Current
  <2>2. w = 0
    BY <1>0, <1>3, <2>1 DEF Waits
  <2>3. raised = {} /\ Leave({0})
    BY <1>2, <2>1, <2>2 DEF Raise
  <2>4. raised' = {} /\ \A r \in Launched : r # 0 => todo'[r] = <<>>
    BY <2>1, <2>2, <2>3 DEF Leave, Popped, Peers, ClassShape
  <2>5. todo'[0] = Tail(todo[0]) /\ todo[0] \in Seq(ClassCalls)
    BY <1>0, <2>3 DEF Leave, Popped, Peers, ClassShape
  <2>6. todo'[0] = <<>> \/ Waits(todo'[0])
    <3> DEFINE p == todo[0]
    <3>1. p \in Seq(ClassCalls) /\ p # <<>> /\ p[Len(p)].what = "wait"
      BY <1>3, <2>5 DEF Waits
    <3> HIDE DEF p
    <3>2. ASSUME Tail(p) # <<>> PROVE Waits(Tail(p))
      <4>1. Len(Tail(p)) = Len(p) - 1 /\ Tail(p)[Len(Tail(p))] = p[Len(p)]
        BY <3>1, <3>2
      <4> QED BY <3>1, <3>2, <4>1 DEF Waits
    <3> QED BY <2>5, <3>2 DEF p
  <2> QED BY <2>4, <2>6
<1> QED BY <1>4, <1>5, <1>6 DEF Licensed

\* Rank 0 exits with success only when every rank it started has
\* (wait_local_ranks and main of dist_runner.py): the first part of
\* OutcomesAreTrue, for every plan and any number of errors.
THEOREM SuccessNeedsAll == ClassSpec => []SuccessIsOfAll
<1>1. ClassInit => ClassShape /\ AwaitInv
  <2> SUFFICES ASSUME ClassInit PROVE ClassShape /\ AwaitInv
    OBVIOUS
  <2>1. ClassShape
    BY ClassInitInv DEF ClassInv
  <2>2. 0 \in Launched /\ plan \in Plans /\ todo = [w \in Launched |-> ClassProgram(w)]
    BY <2>1, LaunchedRanks DEF ClassInit, ClassShape
  <2>3. plan.spawned => Waits(ClassProgram(0))
    BY <2>2, ClassProgramOrder
  <2> QED BY <2>1, <2>2, <2>3 DEF AwaitInv
<1>2. ClassShape /\ AwaitInv /\ [ClassNext]_<<classVars, channelVars>> => (ClassShape /\ AwaitInv)'
  <2> SUFFICES ASSUME ClassShape, AwaitInv, [ClassNext]_<<classVars, channelVars>> PROVE ClassShape' /\ AwaitInv'
    OBVIOUS
  <2>0. 0 \in Launched
    BY LaunchedRanks DEF ClassShape
  <2>1. ASSUME NEW w \in Launched, ClassStep(w) PROVE ClassShape' /\ AwaitInv'
    <3>1. PICK W : Advances(W)
      BY <2>1, StepAdvances
    <3>2. plan' = plan /\ Launched' = Launched /\ ClassCalls' = ClassCalls
      BY <2>1, ClassChanges DEF settings, Launched, ClassCalls
    <3>3. ClassShape'
      BY <3>1, <3>2, AdvanceKeepsOrder DEF ClassShape, Advances
    <3> QED BY <2>1, <3>3, AwaitStep
  <2>2. ASSUME NEW w \in Launched, Error(w) PROVE ClassShape' /\ AwaitInv'
    <3>1. Raise({w}) /\ todo[w] # <<>> /\ plan' = plan /\ Launched' = Launched /\ ClassCalls' = ClassCalls
      BY <2>2 DEF Error, settings, Launched, ClassCalls
    <3>2. Advances({})
      BY <3>1, RaiseAdvances
    <3>3. ClassShape'
      BY <3>1, <3>2, AdvanceKeepsOrder DEF ClassShape, Advances
    <3>4. Waits(todo[0]) => Waits(todo'[0]) \/ 0 \in raised'
      <4>1. "wait" \notin {}
        OBVIOUS
      <4> QED BY <3>2, <4>1, KeepsWaiting
    <3> QED BY <3>1, <3>3, <3>4 DEF AwaitInv, Raise
  <2>3. CASE UNCHANGED <<classVars, channelVars>>
    BY <2>3 DEF classVars, channelVars, settings, ClassShape, AwaitInv, Launched, ClassCalls, Paired, Waits
  <2> QED BY <2>1, <2>2, <2>3 DEF ClassNext
<1>3. ClassShape /\ AwaitInv => SuccessIsOfAll
  <2> SUFFICES ASSUME ClassShape, AwaitInv, plan.spawned, todo[0] = <<>>, 0 \notin raised
               PROVE  \A w \in Launched : todo[w] = <<>> /\ w \notin raised
    BY DEF SuccessIsOfAll
  <2> QED BY DEF AwaitInv, Waits
<1> QED BY <1>1, <1>2, <1>3, PTL DEF ClassSpec

------------------------------------------------------------------------------
(* Outcomes: how many calls a rank has still to make together with all the   *)
(* others.  As long as nobody raises, this number is the same for all.       *)

WorldCalls(p) == {i \in 1 .. Len(p) : p[i].what \in Worldwide}
Meetings(p) == Cardinality(WorldCalls(p))

LEMMA ShiftedSet ==
  ASSUME NEW A \in SUBSET Int, IsFiniteSet(A), NEW k \in Int
  PROVE  IsFiniteSet({k + i : i \in A}) /\ Cardinality({k + i : i \in A}) = Cardinality(A)
<1> DEFINE B == {k + i : i \in A}
           f == [i \in A |-> k + i]
<1>1. f \in Bijection(A, B)
  <2>1. f \in [A -> B] /\ \A i, j \in A : f[i] = f[j] => i = j
    OBVIOUS
  <2>2. \A b \in B : \E i \in A : f[i] = b
    OBVIOUS
  <2> HIDE DEF f, B
  <2> QED BY <2>1, <2>2 DEF Bijection, Injection, Surjection, IsInjective
<1>2. ExistsBijection(A, B)
  BY <1>1 DEF ExistsBijection
<1> HIDE DEF f, B
<1>3. IsFiniteSet(B) /\ Cardinality(B) = Cardinality(A)
  BY <1>2, FS_Bijection
<1> QED BY <1>3 DEF B

LEMMA MeetingsFinite ==
  ASSUME NEW S, NEW p \in Seq(S)
  PROVE  /\ WorldCalls(p) \in SUBSET Int /\ IsFiniteSet(WorldCalls(p)) /\ Meetings(p) \in Nat
         /\ Meetings(p) = 0 <=> WorldCalls(p) = {}
<1>1. Len(p) \in Nat /\ 1 \in Int /\ WorldCalls(p) \subseteq 1 .. Len(p)
  BY DEF WorldCalls
<1>2. IsFiniteSet(1 .. Len(p))
  BY <1>1, FS_Interval
<1>3. IsFiniteSet(WorldCalls(p))
  BY <1>1, <1>2, FS_Subset
<1> QED BY <1>1, <1>3, FS_CardinalityType, FS_EmptySet DEF Meetings

LEMMA MeetingsConcat ==
  ASSUME NEW S, NEW p \in Seq(S), NEW q \in Seq(S)
  PROVE  Meetings(p \o q) = Meetings(p) + Meetings(q)
<1> DEFINE r == p \o q
           n == Len(p)
           A == WorldCalls(p)
           B == WorldCalls(q)
           C == {n + i : i \in B}
<1>1. /\ n \in Nat /\ Len(q) \in Nat /\ Len(r) = n + Len(q)
      /\ \A i \in 1 .. n : r[i] = p[i]
      /\ \A i \in 1 .. Len(q) : r[n + i] = q[i]
  BY ConcatenatedCalls
<1>2. WorldCalls(r) = A \cup C
  <2>1. \A i \in A : i \in WorldCalls(r)
    BY <1>1 DEF WorldCalls
  <2>2. \A i \in C : i \in WorldCalls(r)
    BY <1>1 DEF WorldCalls
  <2>3. ASSUME NEW i \in WorldCalls(r) PROVE i \in A \cup C
    <3>1. i \in 1 .. n + Len(q) /\ r[i].what \in Worldwide
      BY <1>1 DEF WorldCalls
    <3>2. CASE i \in 1 .. n
      BY <1>1, <3>1, <3>2 DEF WorldCalls
    <3>3. CASE i \notin 1 .. n
      <4>1. i - n \in 1 .. Len(q) /\ n + (i - n) = i
        BY <1>1, <3>1, <3>3
      <4>2. i - n \in B
        BY <1>1, <3>1, <4>1 DEF WorldCalls
      <4> QED BY <4>1, <4>2
    <3> QED BY <3>2, <3>3
  <2> QED BY <2>1, <2>2, <2>3
<1>3. IsFiniteSet(A) /\ IsFiniteSet(B) /\ B \in SUBSET Int /\ Meetings(p) \in Nat /\ Meetings(q) \in Nat
  BY MeetingsFinite
<1>4. IsFiniteSet(C) /\ Cardinality(C) = Cardinality(B)
  <2> n \in Int
    BY <1>1
  <2> HIDE DEF n, B
  <2> QED BY <1>3, ShiftedSet
<1>5. A \cap C = {}
  BY <1>1 DEF WorldCalls
<1> HIDE DEF r, n, A, C, B
<1>6. Cardinality(A \cup C) = Cardinality(A) + Cardinality(C) - Cardinality(A \cap C)
  BY <1>3, <1>4, FS_Union
<1>7. Cardinality(A \cap C) = 0
  BY <1>5, FS_EmptySet
<1>8. Meetings(r) = Cardinality(A \cup C) /\ Meetings(p) = Cardinality(A) /\ Meetings(q) = Cardinality(B)
  BY <1>2 DEF Meetings, A, B
<1> QED BY <1>3, <1>4, <1>6, <1>7, <1>8 DEF r

LEMMA MeetingsDropped ==
  ASSUME NEW S, NEW p \in Seq(S), NEW q \in Seq(S), NEW k, Drops(p, q, k),
         \A i \in 1 .. k : p[i].what \notin Worldwide
  PROVE  Meetings(q) = Meetings(p)
<1>1. /\ k \in Nat /\ Len(p) \in Nat /\ Len(q) \in Nat /\ Len(p) = k + Len(q)
      /\ \A i \in 1 .. Len(q) : q[i] = p[k + i]
  BY DEF Drops
<1> DEFINE A == WorldCalls(q)
           B == {k + i : i \in A}
<1>2. WorldCalls(p) = B
  <2>1. \A i \in B : i \in WorldCalls(p)
    BY <1>1 DEF WorldCalls
  <2>2. ASSUME NEW i \in WorldCalls(p) PROVE i \in B
    <3>1. i \in 1 .. k + Len(q) /\ p[i].what \in Worldwide /\ i \notin 1 .. k
      BY <1>1 DEF WorldCalls
    <3>2. i - k \in 1 .. Len(q) /\ k + (i - k) = i
      BY <1>1, <3>1
    <3>3. i - k \in A
      BY <1>1, <3>1, <3>2 DEF WorldCalls
    <3> QED BY <3>2, <3>3
  <2> QED BY <2>1, <2>2
<1>3. IsFiniteSet(A) /\ A \in SUBSET Int
  BY MeetingsFinite
<1>4. Cardinality(B) = Cardinality(A)
  <2> k \in Int
    BY <1>1
  <2> HIDE DEF A
  <2> QED BY <1>3, ShiftedSet
<1> QED BY <1>2, <1>4 DEF Meetings

LEMMA MeetingPopped ==
  ASSUME NEW S, NEW p \in Seq(S), p # <<>>, Head(p).what \in Worldwide
  PROVE  Meetings(p) = 1 + Meetings(Tail(p))
<1> DEFINE h == <<Head(p)>>
<1>1. h \in Seq(S) /\ Tail(p) \in Seq(S) /\ p = h \o Tail(p) /\ Len(h) = 1 /\ h[1] = Head(p)
  OBVIOUS
<1>2. WorldCalls(h) = {1}
  BY <1>1 DEF WorldCalls
<1>3. Meetings(h) = 1
  BY <1>2, FS_Singleton DEF Meetings
<1> HIDE DEF h
<1> QED BY <1>1, <1>3, MeetingsConcat

LEMMA NoMeetings ==
  ASSUME NEW S, NEW p \in Seq(S), \A u \in Worldwide : Never(p, u)
  PROVE  Meetings(p) = 0
<1>1. WorldCalls(p) = {}
  BY DEF WorldCalls, Never
<1> QED BY <1>1, FS_EmptySet DEF Meetings

LEMMA FlattenUnfolds ==
  ASSUME NEW S, NEW s \in Seq(Seq(S)), Len(s) # 0
  PROVE  \E f : Flattens(f, s, Len(s)) /\ FlattenSeq(s) = f[Len(s)]
<1> DEFINE n == Len(s)
           flatten[i \in 1 .. Len(s)] == IF i = 1 THEN s[i] ELSE flatten[i - 1] \o s[i]
<1>1. \E f : f = [i \in 1 .. Len(s) |-> IF i = 1 THEN s[i] ELSE f[i - 1] \o s[i]]
  <2>1. n \in Nat /\ n > 0
    OBVIOUS
  <2> QED BY <2>1, FlattenExists DEF Flattens
<1>2. flatten = [i \in 1 .. Len(s) |-> IF i = 1 THEN s[i] ELSE flatten[i - 1] \o s[i]]
  BY <1>1
<1>3. FlattenSeq(s) = flatten[n]
  BY DEF FlattenSeq
<1> HIDE DEF flatten
<1> QED BY <1>2, <1>3 DEF Flattens

\* Two lists of programs, the m-th of each with the same number of meetings.
SameMeetings(s, t, n) == \A i \in 1 .. n : Meetings(s[i]) = Meetings(t[i])
Lists(s, n, S) == \A i \in 1 .. n : s[i] \in Seq(S)

LEMMA FlattensMeetings ==
  ASSUME NEW S, NEW n \in Nat, NEW s, Lists(s, n, S), NEW f, Flattens(f, s, n),
         NEW t, Lists(t, n, S), NEW g, Flattens(g, t, n), SameMeetings(s, t, n)
  PROVE  SameMeetings(f, g, n)
<1> DEFINE Bad == {i \in 1 .. n : Meetings(f[i]) # Meetings(g[i])}
<1>0. /\ \A i \in 1 .. n : s[i] \in Seq(S) /\ t[i] \in Seq(S)
      /\ \A i \in 1 .. n : Meetings(s[i]) = Meetings(t[i])
  BY DEF Lists, SameMeetings
<1>1. SUFFICES ASSUME Bad # {} PROVE FALSE
  BY DEF SameMeetings
<1>2. Bad \in SUBSET Nat
  OBVIOUS
<1>3. PICK m \in Bad : \A x \in Bad : m <= x
  BY <1>1, <1>2, LeastOfSet
<1>4. m \in 1 .. n /\ Meetings(f[m]) # Meetings(g[m]) /\ Meetings(s[m]) = Meetings(t[m])
  BY <1>0
<1>5. /\ f[m] = IF m = 1 THEN s[m] ELSE f[m - 1] \o s[m]
      /\ g[m] = IF m = 1 THEN t[m] ELSE g[m - 1] \o t[m]
  BY <1>4 DEF Flattens
<1>6. m # 1
  BY <1>4, <1>5
<1>7. m - 1 \in 1 .. n /\ m - 1 \notin Bad
  BY <1>3, <1>4, <1>6
<1>8. f[m - 1] \in Seq(S) /\ g[m - 1] \in Seq(S)
  <2>1. (\A i \in 1 .. n : f[i] \in Seq(S)) /\ (\A i \in 1 .. n : g[i] \in Seq(S))
    BY <1>0, FlattensSeq
  <2> QED BY <1>7, <2>1
<1>9. Meetings(f[m - 1]) = Meetings(g[m - 1])
  BY <1>7
<1>10. s[m] \in Seq(S) /\ t[m] \in Seq(S)
  BY <1>0, <1>4
<1>11. /\ Meetings(f[m - 1] \o s[m]) = Meetings(f[m - 1]) + Meetings(s[m])
       /\ Meetings(g[m - 1] \o t[m]) = Meetings(g[m - 1]) + Meetings(t[m])
  BY <1>8, <1>10, MeetingsConcat
<1> QED BY <1>4, <1>5, <1>6, <1>9, <1>11

LEMMA FlattenMeetings ==
  ASSUME NEW S, NEW s \in Seq(Seq(S)), NEW t \in Seq(Seq(S)), Len(s) = Len(t),
         \A i \in 1 .. Len(s) : Meetings(s[i]) = Meetings(t[i])
  PROVE  Meetings(FlattenSeq(s)) = Meetings(FlattenSeq(t))
<1>1. CASE Len(s) = 0
  <2> DEFINE T == Seq(S)
  <2> HIDE DEF T
  <2>1. s \in Seq(T) /\ t \in Seq(T) /\ Len(s) = 0 /\ Len(t) = 0
    BY <1>1 DEF T
  <2>2. s = <<>> /\ t = <<>>
    BY ONLY <2>1
  <2> QED BY <2>2
<1>2. CASE Len(s) # 0
  <2> DEFINE n == Len(s)
  <2>1. n \in 1 .. n /\ n \in Nat /\ \A i \in 1 .. n : s[i] \in Seq(S) /\ t[i] \in Seq(S)
    BY <1>2
  <2>2. PICK f : Flattens(f, s, n) /\ FlattenSeq(s) = f[n]
    BY <1>2, FlattenUnfolds
  <2>3. PICK g : Flattens(g, t, n) /\ FlattenSeq(t) = g[n]
    <3>1. Len(t) # 0
      BY <1>2
    <3>2. \E g : Flattens(g, t, Len(t)) /\ FlattenSeq(t) = g[Len(t)]
      BY <3>1, FlattenUnfolds
    <3> QED BY <3>2
  <2> HIDE DEF n
  <2>4. \A i \in 1 .. n : Meetings(s[i]) = Meetings(t[i])
    BY DEF n
  <2>5. \A i \in 1 .. n : Meetings(f[i]) = Meetings(g[i])
    <3>1. Lists(s, n, S) /\ Lists(t, n, S) /\ SameMeetings(s, t, n)
      BY <2>1, <2>4 DEF Lists, SameMeetings
    <3>2. n \in Nat /\ Flattens(f, s, n) /\ Flattens(g, t, n)
      BY <2>1, <2>2, <2>3
    <3>3. SameMeetings(f, g, n)
      BY <3>1, <3>2, FlattensMeetings
    <3> QED BY <3>3 DEF SameMeetings
  <2> QED BY <2>1, <2>2, <2>3, <2>5
<1> QED BY <1>1, <1>2

\* Two programs with the same number of meetings.
MeetAlike(p, q) == p \in Seq(ClassCalls) /\ q \in Seq(ClassCalls) /\ Meetings(p) = Meetings(q)

\* A program's last call is one of all ranks.
EndsTogether(p) == p # <<>> /\ p[Len(p)].what \in Worldwide

\* What a rank does not do on its own is followed by a call of all ranks.
Followed(p) == \A i \in 1 .. Len(p) : p[i].do # "local" => \E j \in i .. Len(p) : p[j].what \in Worldwide

LEMMA ConcatMeetAlike ==
  ASSUME NEW p, NEW q, NEW r, NEW s, MeetAlike(p, q), MeetAlike(r, s)
  PROVE  MeetAlike(p \o r, q \o s)
<1>1. p \in Seq(ClassCalls) /\ q \in Seq(ClassCalls) /\ r \in Seq(ClassCalls) /\ s \in Seq(ClassCalls)
  BY DEF MeetAlike
<1>2. p \o r \in Seq(ClassCalls) /\ q \o s \in Seq(ClassCalls)
  BY <1>1
<1>3. Meetings(p \o r) = Meetings(p) + Meetings(r) /\ Meetings(q \o s) = Meetings(q) + Meetings(s)
  BY <1>1, MeetingsConcat
<1> QED BY <1>2, <1>3 DEF MeetAlike

LEMMA UnmetAlike ==
  ASSUME NEW W, W \cap Worldwide = {}, NEW p \in Seq(CallsOf(W)), NEW q \in Seq(CallsOf(W))
  PROVE  MeetAlike(p, q)
<1>1. \A u \in Worldwide : u \notin W
  OBVIOUS
<1>2. \A r \in Seq(CallsOf(W)) : (\A u \in Worldwide : Never(r, u)) /\ r \in Seq(ClassCalls)
  <2> TAKE r \in Seq(CallsOf(W))
  <2>1. r \in Seq(ClassCalls)
    <3>1. CallsOf(W) \subseteq ClassCalls
      BY DEF CallsOf
    <3> QED BY <3>1
  <2> QED BY <1>1, <2>1, CallsNever
<1>3. Meetings(p) = 0 /\ Meetings(q) = 0
  BY <1>2, NoMeetings
<1> QED BY <1>2, <1>3 DEF MeetAlike

LEMMA FlattenMeetAlike ==
  ASSUME NEW n \in Nat, NEW s, DOMAIN s = 1 .. n, s = [i \in 1 .. n |-> s[i]],
         NEW t, DOMAIN t = 1 .. n, t = [i \in 1 .. n |-> t[i]], \A i \in 1 .. n : MeetAlike(s[i], t[i])
  PROVE  MeetAlike(FlattenSeq(s), FlattenSeq(t))
<1> DEFINE T == Seq(ClassCalls)
<1>1. \A i \in 1 .. n : s[i] \in T /\ t[i] \in T /\ Meetings(s[i]) = Meetings(t[i])
  BY DEF MeetAlike
<1> HIDE DEF T
<1>2. s \in Seq(T) /\ t \in Seq(T) /\ Len(s) = n /\ Len(t) = n
  BY <1>1
<1>3. FlattenSeq(s) \in T /\ FlattenSeq(t) \in T
  BY <1>2, FlattenIsSeq DEF T
<1>4. Meetings(FlattenSeq(s)) = Meetings(FlattenSeq(t))
  <2>1. s \in Seq(Seq(ClassCalls)) /\ t \in Seq(Seq(ClassCalls)) /\ Len(s) = Len(t)
    BY <1>2 DEF T
  <2>2. \A i \in 1 .. Len(s) : Meetings(s[i]) = Meetings(t[i])
    BY <1>1, <1>2
  <2> QED BY <2>1, <2>2, FlattenMeetings
<1> QED BY <1>3, <1>4 DEF MeetAlike, T

LEMMA CallsSubset ==
  ASSUME NEW W, NEW p \in Seq(CallsOf(W))
  PROVE  p \in Seq(ClassCalls)
<1>1. CallsOf(W) \subseteq ClassCalls
  BY DEF CallsOf
<1> QED BY <1>1

LEMMA SameAlike ==
  ASSUME NEW W, NEW p \in Seq(CallsOf(W))
  PROVE  MeetAlike(p, p)
BY CallsSubset DEF MeetAlike

LEMMA IterationsAlike ==
  ASSUME plan \in Plans, NEW v \in Launched, NEW w \in Launched,
         plan.stages > 2 => plan.loader >= plan.perEpoch
  PROVE  IterationsOf(v) = IterationsOf(w)
<1> DEFINE s == plan.stages
           a == plan.perEpoch
           b == plan.loader
<1>1. s \in Nat /\ s > 0 /\ a \in Nat /\ b \in Nat /\ v \in Nat /\ w \in Nat
  BY ClassificationAssumption, LaunchedRanks
<1>2. CASE s > 2
  <2>1. b >= a
    BY <1>2
  <2>2. Min({a, b}) = a
    BY <1>1, <2>1 DEF Min
  <2> QED BY <2>2 DEF IterationsOf
<1>3. CASE ~(s > 2)
  <2>1. \A x \in Launched : x % s = 0 \/ x % s = s - 1
    <3> TAKE x \in Launched
    <3>1. x \in Int
      BY LaunchedRanks
    <3>2. x % s \in 0 .. s - 1
      <4> HIDE DEF s
      <4> QED BY <1>1, <3>1
    <3> HIDE DEF s
    <3> QED BY <1>1, <1>3, <3>2
  <2>2. \A x \in Launched : IsFirst(x) \/ IsLast(x)
    BY <2>1 DEF IsFirst, IsLast, StageOf
  <2> QED BY <2>2 DEF IterationsOf
<1> QED BY <1>2, <1>3

LEMMA IterationAlike ==
  ASSUME plan \in Plans, NEW v \in Launched, NEW w \in Launched
  PROVE  /\ MeetAlike(Iteration(v), Iteration(w))
         /\ EndsTogether(Iteration(w))
<1> DEFINE W == {"activation", "gradient", "reduce", "update"}
           C == CallsOf(W)
           barrier == Everyone("barrier")
           a(x) == Optional(~IsFirst(x), <<RecvFrom(x - 1, "activation", 1)>>)
           b(x) == Optional(~IsLast(x), <<SendTo(x + 1, "activation", 1)>>)
           c(x) == Optional(~IsLast(x), <<RecvFrom(x + 1, "gradient", 1)>>)
           d(x) == Optional(~IsFirst(x), <<SendTo(x - 1, "gradient", 1)>>)
           e(x) == Optional(plan.replicas > 1, <<Together("reduce", ReplicasOf(x))>>)
           f == <<Alone("update", 0)>>
<1>1. /\ W \subseteq Kinds /\ W \cap Worldwide = {}
      /\ \A x \in {"activation", "gradient", "reduce"} : x \notin Worldwide \cup Locally \cup {"nccl"}
  BY DEF Kinds, Locally, Worldwide
<1>2. "activation" \in W /\ "gradient" \in W /\ "reduce" \in W /\ "update" \in W
  OBVIOUS
<1>3. 0 \in Int /\ 1 \in Int /\ \A x \in Launched : x - 1 \in Int /\ x + 1 \in Int /\ ReplicasOf(x) \in SUBSET Int
  BY LaunchedRanks
<1> HIDE DEF W
<1>4. f \in Seq(C)
  <2>1. "update" \notin Worldwide \cup {"nccl"}
    BY DEF Worldwide
  <2> QED BY <1>1, <1>2, <1>3, <2>1, CallIn
<1>5. \A x \in Launched : a(x) \in Seq(C) /\ b(x) \in Seq(C) /\ c(x) \in Seq(C) /\ d(x) \in Seq(C)
  <2> TAKE x \in Launched
  <2>1. <<RecvFrom(x - 1, "activation", 1)>> \in Seq(C) /\ <<SendTo(x + 1, "activation", 1)>> \in Seq(C)
    BY <1>1, <1>2, <1>3, CallIn
  <2>2. <<RecvFrom(x + 1, "gradient", 1)>> \in Seq(C) /\ <<SendTo(x - 1, "gradient", 1)>> \in Seq(C)
    BY <1>1, <1>2, <1>3, CallIn
  <2> QED BY <2>1, <2>2, NoCalls
<1>6. \A x \in Launched : e(x) \in Seq(C)
  <2> TAKE x \in Launched
  <2>1. <<Together("reduce", ReplicasOf(x))>> \in Seq(C)
    BY <1>1, <1>2, <1>3, CallIn
  <2> QED BY <2>1, NoCalls
<1>7. MeetAlike(a(v), a(w)) /\ MeetAlike(b(v), b(w)) /\ MeetAlike(c(v), c(w)) /\ MeetAlike(d(v), d(w))
      /\ MeetAlike(e(v), e(w)) /\ MeetAlike(f, f)
  BY <1>1, <1>4, <1>5, <1>6, UnmetAlike
<1>8. barrier \in Seq(CallsOf({"barrier"}))
  <2>1. "barrier" \in Kinds /\ "barrier" \notin Locally
    BY DEF Kinds, Worldwide, Locally
  <2> QED BY <1>3, <2>1, OneCall
<1>9. MeetAlike(barrier, barrier)
  BY <1>8, SameAlike
<1> DEFINE m(x) == barrier \o a(x) \o b(x) \o barrier \o c(x) \o d(x)
<1>10. \A x : Iteration(x) = m(x) \o e(x) \o f \o barrier
  BY DEF Iteration
<1> HIDE DEF barrier, a, b, c, d, e, f
<1>11. MeetAlike(m(v), m(w))
  <2>1. MeetAlike(barrier \o a(v), barrier \o a(w))
    BY <1>7, <1>9, ConcatMeetAlike
  <2>2. MeetAlike(barrier \o a(v) \o b(v), barrier \o a(w) \o b(w))
    BY <1>7, <2>1, ConcatMeetAlike
  <2>3. MeetAlike(barrier \o a(v) \o b(v) \o barrier, barrier \o a(w) \o b(w) \o barrier)
    BY <1>9, <2>2, ConcatMeetAlike
  <2>4. MeetAlike(barrier \o a(v) \o b(v) \o barrier \o c(v), barrier \o a(w) \o b(w) \o barrier \o c(w))
    BY <1>7, <2>3, ConcatMeetAlike
  <2> QED BY <1>7, <2>4, ConcatMeetAlike
<1> HIDE DEF m
<1>12. MeetAlike(m(v) \o e(v) \o f, m(w) \o e(w) \o f)
  <2>1. MeetAlike(m(v) \o e(v), m(w) \o e(w))
    BY <1>7, <1>11, ConcatMeetAlike
  <2> QED BY <1>7, <2>1, ConcatMeetAlike
<1>13. MeetAlike(Iteration(v), Iteration(w))
  BY <1>9, <1>10, <1>12, ConcatMeetAlike
<1>14. EndsTogether(Iteration(w))
  <2> DEFINE k == Together("barrier", Launched)
             p == m(w) \o e(w) \o f
  <2>1. barrier = <<k>> /\ k.what \in Worldwide
    BY DEF barrier, Everyone, Together, Call, Worldwide
  <2>2. p \in Seq(ClassCalls)
    BY <1>12 DEF MeetAlike
  <2> HIDE DEF p, k
  <2>3. Len(p \o <<k>>) = Len(p) + 1 /\ (p \o <<k>>)[Len(p) + 1] = k /\ p \o <<k>> # <<>>
    BY <2>2
  <2>4. Iteration(w) = p \o <<k>>
    BY <1>10, <2>1 DEF p
  <2> QED BY <2>1, <2>3, <2>4 DEF EndsTogether
<1> QED BY <1>13, <1>14

LEMMA ProbesAlike ==
  ASSUME plan \in Plans, NEW v \in Launched, NEW w \in Launched
  PROVE  MeetAlike(Probes(v), Probes(w))
<1> DEFINE W == {"listen", "measure", "serve"}
           n == Cardinality(Launched)
           barrier == Everyone("barrier")
           shared == Everyone("measurements")
           link(x) == [k \in 1 .. n * n |->
                        LET s == (k - 1) \div n
                            d == (k - 1) % n
                        IN IF s = d THEN Everyone("barrier") \o Everyone("barrier") ELSE Probe(x, s, d)]
<1>1. /\ W \subseteq Kinds /\ W \cap Worldwide = {} /\ "nccl" \notin W
      /\ "barrier" \in Kinds \ Locally /\ "measurements" \in Kinds \ Locally /\ 0 \in Int
  BY DEF Kinds, Locally, Worldwide
<1>2. "listen" \in W /\ "measure" \in W /\ "serve" \in W
  OBVIOUS
<1> HIDE DEF W
<1>3. MeetAlike(barrier, barrier) /\ MeetAlike(shared, shared)
  BY <1>1, OneCall, SameAlike
<1>4. ASSUME NEW s \in Int, NEW d \in Int PROVE MeetAlike(Probe(v, s, d), Probe(w, s, d))
  <2> DEFINE listen(x) == Optional(x = d, <<Alone("listen", s)>>)
             measure(x) == Optional(x = s, <<Alone("measure", d)>>)
             serve(x) == Optional(x = d, <<Alone("serve", s)>>)
  <2>1. <<Alone("listen", s)>> \in Seq(CallsOf(W)) /\ <<Alone("measure", d)>> \in Seq(CallsOf(W))
        /\ <<Alone("serve", s)>> \in Seq(CallsOf(W))
    BY <1>1, <1>2, CallIn
  <2>2. \A x : listen(x) \in Seq(CallsOf(W)) /\ measure(x) \in Seq(CallsOf(W)) /\ serve(x) \in Seq(CallsOf(W))
    BY <2>1, NoCalls
  <2>3. MeetAlike(listen(v), listen(w)) /\ MeetAlike(measure(v), measure(w)) /\ MeetAlike(serve(v), serve(w))
    BY <1>1, <2>2, UnmetAlike
  <2>4. \A x : Probe(x, s, d) = listen(x) \o barrier \o measure(x) \o serve(x) \o barrier
    BY DEF Probe
  <2> HIDE DEF listen, measure, serve, barrier
  <2>5. MeetAlike(listen(v) \o barrier, listen(w) \o barrier)
    BY <1>3, <2>3, ConcatMeetAlike
  <2>6. MeetAlike(listen(v) \o barrier \o measure(v), listen(w) \o barrier \o measure(w))
    BY <2>3, <2>5, ConcatMeetAlike
  <2>7. MeetAlike(listen(v) \o barrier \o measure(v) \o serve(v), listen(w) \o barrier \o measure(w) \o serve(w))
    BY <2>3, <2>6, ConcatMeetAlike
  <2> QED BY <1>3, <2>4, <2>7, ConcatMeetAlike
<1>5. n \in Nat /\ n > 0
  BY LaunchedRanks, FS_EmptySet
<1>6. n * n \in Nat /\ \A k \in 1 .. n * n : (k - 1) \div n \in Int /\ (k - 1) % n \in Int
  <2> HIDE DEF n
  <2> QED BY <1>5
<1>7. \A k \in 1 .. n * n : MeetAlike(link(v)[k], link(w)[k])
  <2> TAKE k \in 1 .. n * n
  <2> DEFINE s == (k - 1) \div n
             d == (k - 1) % n
  <2>1. s \in Int /\ d \in Int
    BY <1>6
  <2>2. \A x : link(x)[k] = IF s = d THEN barrier \o barrier ELSE Probe(x, s, d)
    OBVIOUS
  <2>3. MeetAlike(barrier \o barrier, barrier \o barrier)
    BY <1>3, ConcatMeetAlike
  <2> HIDE DEF link, s, d
  <2> QED BY <1>4, <2>1, <2>2, <2>3
<1>8. MeetAlike(FlattenSeq(link(v)), FlattenSeq(link(w)))
  <2> DEFINE m == n * n
  <2>1. \A x : DOMAIN link(x) = 1 .. m /\ link(x) = [i \in 1 .. m |-> link(x)[i]]
    OBVIOUS
  <2> HIDE DEF link, m
  <2>2. m \in Nat /\ \A k \in 1 .. m : MeetAlike(link(v)[k], link(w)[k])
    BY <1>6, <1>7 DEF m
  <2> QED BY <2>1, <2>2, FlattenMeetAlike
<1>9. \A x : Probes(x) = barrier \o FlattenSeq(link(x)) \o shared
  BY DEF Probes
<1> HIDE DEF link, barrier, shared
<1>10. MeetAlike(barrier \o FlattenSeq(link(v)), barrier \o FlattenSeq(link(w)))
  BY <1>3, <1>8, ConcatMeetAlike
<1> QED BY <1>3, <1>9, <1>10, ConcatMeetAlike

LEMMA TrainingAlike ==
  ASSUME plan \in Plans, NEW v \in Launched, NEW w \in Launched, IterationsOf(v) = IterationsOf(w)
  PROVE  MeetAlike(FlattenSeq(Times(IterationsOf(v), Iteration(v))), FlattenSeq(Times(IterationsOf(w), Iteration(w))))
<1> DEFINE n == IterationsOf(v)
           s == Times(n, Iteration(v))
           t == Times(n, Iteration(w))
<1>1. n \in Nat
  BY IterationsAreNat
<1> HIDE DEF n
<1>2. /\ DOMAIN s = 1 .. n /\ s = [i \in 1 .. n |-> s[i]]
      /\ DOMAIN t = 1 .. n /\ t = [i \in 1 .. n |-> t[i]]
      /\ \A i \in 1 .. n : s[i] = Iteration(v) /\ t[i] = Iteration(w)
  BY DEF Times
<1>3. \A i \in 1 .. n : MeetAlike(s[i], t[i])
  BY <1>2, IterationAlike
<1> HIDE DEF s, t
<1>4. MeetAlike(FlattenSeq(s), FlattenSeq(t))
  BY <1>1, <1>2, <1>3, FlattenMeetAlike
<1> QED BY <1>4 DEF s, t, n

LEMMA ConcatEndsTogether ==
  ASSUME NEW S, NEW p \in Seq(S), NEW q \in Seq(S), EndsTogether(q)
  PROVE  EndsTogether(p \o q)
<1>1. Len(q) \in 1 .. Len(q)
  BY DEF EndsTogether
<1>2. Len(p \o q) = Len(p) + Len(q) /\ (p \o q)[Len(p) + Len(q)] = q[Len(q)] /\ p \o q # <<>>
  BY <1>1, ConcatenatedCalls
<1> QED BY <1>2 DEF EndsTogether

LEMMA FlattenEndsTogether ==
  ASSUME NEW S, NEW s \in Seq(Seq(S)), Len(s) # 0, EndsTogether(s[Len(s)])
  PROVE  EndsTogether(FlattenSeq(s))
<1> DEFINE n == Len(s)
<1>1. n \in 1 .. n /\ n \in Nat /\ \A i \in 1 .. n : s[i] \in Seq(S)
  OBVIOUS
<1>2. PICK f : Flattens(f, s, n) /\ FlattenSeq(s) = f[n]
  BY FlattenUnfolds
<1>3. EndsTogether(s[n])
  OBVIOUS
<1> HIDE DEF n
<1>4. \A i \in 1 .. n : f[i] \in Seq(S)
  BY <1>1, <1>2, FlattensSeq
<1>5. f[n] = IF n = 1 THEN s[n] ELSE f[n - 1] \o s[n]
  BY <1>1, <1>2 DEF Flattens
<1>6. CASE n = 1
  BY <1>2, <1>3, <1>5, <1>6
<1>7. CASE n # 1
  <2>1. n - 1 \in 1 .. n
    BY <1>1, <1>7
  <2>2. f[n - 1] \in Seq(S) /\ s[n] \in Seq(S)
    BY <1>1, <1>4, <2>1
  <2> QED BY <1>2, <1>3, <1>5, <1>7, <2>2, ConcatEndsTogether
<1> QED BY <1>6, <1>7

LEMMA TogetherFollowed ==
  ASSUME NEW p \in Seq(ClassCalls), EndsTogether(p)
  PROVE  Followed(p)
<1>1. Len(p) \in Nat /\ Len(p) \in 1 .. Len(p) /\ p[Len(p)].what \in Worldwide
  BY DEF EndsTogether
<1>2. \A i \in 1 .. Len(p) : Len(p) \in i .. Len(p)
  BY <1>1
<1> QED BY <1>1, <1>2 DEF Followed

LEMMA LocalFollowed ==
  ASSUME NEW p \in Seq(ClassCalls), Followed(p), NEW q \in Seq({c \in ClassCalls : c.do = "local"})
  PROVE  Followed(p \o q)
<1> DEFINE r == p \o q
           n == Len(p)
<1>0. q \in Seq(ClassCalls) /\ \A i \in 1 .. Len(q) : q[i].do = "local"
  OBVIOUS
<1>1. /\ n \in Nat /\ Len(q) \in Nat /\ Len(r) = n + Len(q)
      /\ \A i \in 1 .. n : r[i] = p[i]
      /\ \A i \in 1 .. Len(q) : r[n + i] = q[i]
  BY <1>0, ConcatenatedCalls
<1>2. \A i \in 1 .. n : p[i].do # "local" => \E j \in i .. n : p[j].what \in Worldwide
  BY DEF Followed
<1> HIDE DEF r, n
<1>3. ASSUME NEW i \in 1 .. Len(r), r[i].do # "local" PROVE \E j \in i .. Len(r) : r[j].what \in Worldwide
  <2>1. CASE i \in 1 .. n
    <3>1. PICK j \in i .. n : p[j].what \in Worldwide
      BY <1>1, <1>2, <1>3, <2>1
    <3>2. j \in i .. Len(r) /\ r[j] = p[j]
      BY <1>1, <2>1
    <3> QED BY <3>1, <3>2
  <2>2. CASE i \notin 1 .. n
    <3>0. i \in 1 .. n + Len(q)
      BY <1>1
    <3>1. i - n \in 1 .. Len(q) /\ n + (i - n) = i
      BY <1>1, <2>2, <3>0
    <3>2. r[i] = q[i - n]
      BY <1>1, <3>1
    <3> QED BY <1>0, <1>3, <3>1, <3>2
  <2> QED BY <2>1, <2>2
<1> QED BY <1>3 DEF Followed, r

\* A call of a program is one of every program that contains it.
LEMMA ConcatSome ==
  ASSUME NEW S, NEW p \in Seq(S), NEW q \in Seq(S), NEW u
  PROVE  ~Never(p, u) \/ ~Never(q, u) => ~Never(p \o q, u)
<1>0. /\ Len(p) \in Nat /\ Len(q) \in Nat /\ Len(p \o q) = Len(p) + Len(q)
      /\ \A i \in 1 .. Len(p) : (p \o q)[i] = p[i]
      /\ \A i \in 1 .. Len(q) : (p \o q)[Len(p) + i] = q[i]
  BY ConcatenatedCalls
<1>1. ASSUME NEW i \in 1 .. Len(p), p[i].what = u PROVE ~Never(p \o q, u)
  <2>1. i \in 1 .. Len(p \o q) /\ (p \o q)[i] = p[i]
    BY <1>0
  <2> QED BY <1>1, <2>1 DEF Never
<1>2. ASSUME NEW i \in 1 .. Len(q), q[i].what = u PROVE ~Never(p \o q, u)
  <2>1. Len(p) + i \in 1 .. Len(p \o q) /\ (p \o q)[Len(p) + i] = q[i]
    BY <1>0
  <2> QED BY <1>2, <2>1 DEF Never
<1> QED BY <1>1, <1>2 DEF Never

LEMMA CommunicatorsOrder ==
  ASSUME plan \in Plans, NEW v \in Launched, NEW w \in Launched
  PROVE  /\ MeetAlike(Communicators(v), Communicators(w))
         /\ NeverAfter(Communicators(w), "consensus", "nccl")
         /\ plan.replicas = 1 => Never(Communicators(w), "require_nccl")
         /\ plan.comm = "nccl" => ~Never(Communicators(w), "nccl")
<1> DEFINE V == {"import_nccl", "nccl"}
           W == {"require_nccl", "data_nccl"}
           import == Alone("import_nccl", 0)
           rendezvous(x) == Together("nccl", PipelineOf(x))
           first(x) == <<import, rendezvous(x)>>
           agree == Everyone("consensus")
           needs == Alone("require_nccl", 0)
           replicas(x) == Together("data_nccl", ReplicasOf(x))
           require(x) == <<needs, replicas(x)>>
<1>0. /\ V \subseteq Kinds /\ V \cap Worldwide = {} /\ W \subseteq Kinds /\ W \cap Worldwide = {} /\ 0 \in Int
      /\ "consensus" \in Kinds \ Locally
  BY DEF Kinds, Worldwide, Locally
<1>1. \A x \in Launched : first(x) \in Seq(CallsOf(V)) /\ require(x) \in Seq(CallsOf(W))
  <2> TAKE x \in Launched
  <2>1. PipelineOf(x) \in SUBSET Int /\ ReplicasOf(x) \in SUBSET Int /\ PipelineOf(x) \subseteq Launched
    BY LaunchedRanks DEF PipelineOf
  <2>2. import \in ClassCalls /\ needs \in ClassCalls /\ rendezvous(x) \in ClassCalls /\ replicas(x) \in ClassCalls
    BY <1>0, <2>1 DEF ClassCalls, Alone, Together, Call, Worldwide, Locally
  <2>3. import.what = "import_nccl" /\ needs.what = "require_nccl" /\ rendezvous(x).what = "nccl" /\ replicas(x).what = "data_nccl"
    BY DEF Alone, Together, Call
  <2>4. import \in CallsOf(V) /\ rendezvous(x) \in CallsOf(V) /\ needs \in CallsOf(W) /\ replicas(x) \in CallsOf(W)
    BY <2>2, <2>3 DEF CallsOf
  <2> HIDE DEF import, rendezvous, needs, replicas, V, W
  <2> QED BY <2>4
<1>2. agree \in Seq(CallsOf({"consensus"}))
  BY <1>0, OneCall
<1> DEFINE a(x) == first(x) \o agree
<1>3. \A x : Communicators(x) = Optional(UsesNccl, a(x)) \o Optional(plan.replicas > 1, require(x))
  BY DEF Communicators
<1>4. MeetAlike(first(v), first(w)) /\ MeetAlike(require(v), require(w)) /\ MeetAlike(agree, agree)
  BY <1>0, <1>1, <1>2, UnmetAlike, SameAlike
<1>5. MeetAlike(<<>>, <<>>)
  BY DEF MeetAlike
<1>6. /\ Never(first(w), "consensus") /\ Never(first(w), "require_nccl")
      /\ Never(agree, "nccl") /\ Never(agree, "require_nccl") /\ Never(require(w), "nccl")
  <2>1. "consensus" \notin V /\ "require_nccl" \notin V /\ "nccl" \notin {"consensus"} /\ "require_nccl" \notin {"consensus"}
        /\ "nccl" \notin W
    OBVIOUS
  <2> HIDE DEF first, require, agree, V, W
  <2> QED BY <1>1, <1>2, <2>1, CallsNever
<1>7. Len(first(w)) = 2 /\ first(w)[2].what = "nccl"
  BY DEF Together, Call
<1>8. first(w) \in Seq(ClassCalls) /\ agree \in Seq(ClassCalls) /\ require(w) \in Seq(ClassCalls)
  BY <1>4 DEF MeetAlike
<1> HIDE DEF first, agree, require
<1>9. MeetAlike(a(v), a(w))
  BY <1>4, ConcatMeetAlike
<1>10. a(w) \in Seq(ClassCalls) /\ NeverAfter(a(w), "consensus", "nccl") /\ Never(a(w), "require_nccl")
  <2>1. a(w) \in Seq(ClassCalls)
    BY <1>8
  <2>2. NeverAfter(first(w), "consensus", "nccl")
    BY <1>6, <1>8, NeverNeverAfter
  <2>3. NeverAfter(a(w), "consensus", "nccl")
    BY <1>6, <1>8, <2>2, ConcatNeverAfter
  <2> QED BY <1>6, <1>8, <2>1, <2>3, ConcatNever
<1>11. ~Never(a(w), "nccl")
  <2>1. ~Never(first(w), "nccl")
    <3>1. 2 \in 1 .. Len(first(w))
      BY <1>7
    <3> QED BY <1>7, <3>1 DEF Never
  <2> QED BY <1>8, <2>1, ConcatSome
<1> DEFINE o(x) == Optional(UsesNccl, a(x))
           r(x) == Optional(plan.replicas > 1, require(x))
<1> HIDE DEF a
<1>12. MeetAlike(o(v), o(w)) /\ MeetAlike(r(v), r(w))
  BY <1>4, <1>5, <1>9 DEF Optional
<1>13. /\ o(w) \in Seq(ClassCalls) /\ r(w) \in Seq(ClassCalls)
       /\ NeverAfter(o(w), "consensus", "nccl") /\ Never(o(w), "require_nccl") /\ Never(r(w), "nccl")
       /\ plan.replicas = 1 => Never(r(w), "require_nccl")
       /\ plan.comm = "nccl" => ~Never(o(w), "nccl")
  <2>1. NeverAfter(<<>>, "consensus", "nccl") /\ \A u : Never(<<>>, u)
    BY DEF NeverAfter, Never
  <2>2. <<>> \in Seq(ClassCalls)
    OBVIOUS
  <2>3. plan.comm = "nccl" => UsesNccl
    BY DEF UsesNccl
  <2>4. plan.replicas = 1 => ~(plan.replicas > 1)
    OBVIOUS
  <2> QED BY <1>6, <1>8, <1>10, <1>11, <2>1, <2>2, <2>3, <2>4 DEF Optional
<1> HIDE DEF o, r
<1>14. \A x : Communicators(x) = o(x) \o r(x)
  BY <1>3 DEF o, r
<1>15. MeetAlike(Communicators(v), Communicators(w))
  BY <1>12, <1>14, ConcatMeetAlike
<1>16. NeverAfter(Communicators(w), "consensus", "nccl")
  BY <1>13, <1>14, ConcatNeverAfter
<1>17. plan.replicas = 1 => Never(Communicators(w), "require_nccl")
  BY <1>13, <1>14, ConcatNever
<1>18. plan.comm = "nccl" => ~Never(Communicators(w), "nccl")
  BY <1>13, <1>14, ConcatSome
<1> QED BY <1>15, <1>16, <1>17, <1>18

\* A program so far, for two ranks, and what may follow it.
BeginsAlike(p, q) ==
  /\ MeetAlike(p, q)
  /\ NeverAfter(p, "consensus", "nccl")
  /\ plan.replicas = 1 => Never(p, "require_nccl")
  /\ plan.comm = "nccl" => ~Never(p, "nccl")
GoesOnAlike(p, q) == MeetAlike(p, q) /\ Never(p, "nccl") /\ Never(p, "require_nccl")

LEMMA FollowsAlike ==
  ASSUME NEW p, NEW q, NEW r, NEW s, BeginsAlike(p, q), GoesOnAlike(r, s)
  PROVE  BeginsAlike(p \o r, q \o s)
<1>1. p \in Seq(ClassCalls) /\ r \in Seq(ClassCalls)
  BY DEF BeginsAlike, GoesOnAlike, MeetAlike
<1>2. MeetAlike(p \o r, q \o s)
  BY ConcatMeetAlike DEF BeginsAlike, GoesOnAlike
<1>3. NeverAfter(p \o r, "consensus", "nccl")
  BY <1>1, ConcatNeverAfter DEF BeginsAlike, GoesOnAlike
<1>4. plan.replicas = 1 => Never(p \o r, "require_nccl")
  BY <1>1, ConcatNever DEF BeginsAlike, GoesOnAlike
<1>5. plan.comm = "nccl" => ~Never(p \o r, "nccl")
  BY <1>1, ConcatSome DEF BeginsAlike
<1> QED BY <1>2, <1>3, <1>4, <1>5 DEF BeginsAlike

LEMMA CallsGoOnAlike ==
  ASSUME NEW W, "nccl" \notin W, "require_nccl" \notin W,
         NEW p \in Seq(CallsOf(W)), NEW q, MeetAlike(p, q)
  PROVE  GoesOnAlike(p, q)
BY CallsNever DEF GoesOnAlike

\* Programs end with calls that ranks make on their own.
LEMMA LocalCall ==
  ASSUME NEW what \in Kinds, NEW i \in Int, what \notin Worldwide \cup {"nccl"}
  PROVE  <<Alone(what, i)>> \in Seq({c \in ClassCalls : c.do = "local"})
<1>1. <<Alone(what, i)>> \in Seq(CallsOf({what}))
  BY OneCall
<1>2. Alone(what, i) \in ClassCalls /\ Alone(what, i).do = "local"
  BY <1>1, CallOfSingle DEF CallsOf, Alone, Call
<1> QED BY <1>2, SingleCall

\* What the programs of two ranks have in common.
LEMMA ProgramsAlike ==
  ASSUME plan \in Plans, NEW v \in Launched, NEW w \in Launched
  PROVE  /\ (plan.stages > 2 => plan.loader >= plan.perEpoch) =>
              BeginsAlike(ClassProgram(w), ClassProgram(v))
         /\ NeverAfter(ClassProgram(w), "consensus", "nccl")
         /\ Followed(ClassProgram(w))
<1> DEFINE a0 == <<Alone("setup", 0)>>
           a1 == Everyone("join")
           a2(x) == Communicators(x)
           a3 == Everyone("assignments")
           a4(x) == Optional(IsFirst(x) \/ IsLast(x), <<Alone("setup", 0)>>)
           a5 == Everyone("vocabulary")
           a6 == Optional(plan.dynamic, Negotiation)
           a7 == <<Alone("setup", 0)>>
           a8 == Everyone("barrier")
           a9(x) == Optional(plan.probe, Probes(x))
           a10(x) == FlattenSeq(Times(IterationsOf(x), Iteration(x)))
           a11 == <<Alone("setup", 0), Alone("attempt", 0)>>
           a12(x) == Optional(plan.spawned /\ x = 0, <<Alone("wait", 0)>>)
           Enough == plan.stages > 2 => plan.loader >= plan.perEpoch
<1>1. \A x : ClassProgram(x) = a0 \o a1 \o a2(x) \o a3 \o a4(x) \o a5 \o a6 \o a7 \o a8 \o a9(x) \o a8 \o a10(x) \o a11 \o a12(x)
  BY DEF ClassProgram
<1>2. /\ {"join", "barrier", "assignments", "vocabulary", "setup", "attempt", "wait"} \subseteq Kinds
      /\ {"join", "barrier", "assignments", "vocabulary"} \cap Locally = {} /\ 0 \in Int
      /\ {"setup", "attempt", "wait"} \cap (Worldwide \cup {"nccl"}) = {}
  BY DEF Kinds, Worldwide, Locally
<1>3. /\ a0 \in Seq(CallsOf({"setup"})) /\ a1 \in Seq(CallsOf({"join"})) /\ a3 \in Seq(CallsOf({"assignments"}))
      /\ a5 \in Seq(CallsOf({"vocabulary"})) /\ a7 \in Seq(CallsOf({"setup"})) /\ a8 \in Seq(CallsOf({"barrier"}))
      /\ \A x : a4(x) \in Seq(CallsOf({"setup"})) /\ a12(x) \in Seq(CallsOf({"wait"}))
  <2>1. <<Alone("setup", 0)>> \in Seq(CallsOf({"setup"})) /\ <<Alone("wait", 0)>> \in Seq(CallsOf({"wait"}))
    BY <1>2, OneCall
  <2> QED BY <1>2, <2>1, OneCall, NoCalls
<1>4. /\ a6 \in Seq(CallsOf({"attempt", "collect", "vocabularies", "plans"}))
      /\ \A x \in Launched : a9(x) \in Seq(CallsOf({"barrier", "listen", "measure", "serve", "measurements"}))
  <2>1. "update" \notin {"attempt", "collect", "vocabularies", "plans"}
        /\ "update" \notin {"barrier", "listen", "measure", "serve", "measurements"}
    OBVIOUS
  <2>2. Negotiation \in Seq(CallsOf({"attempt", "collect", "vocabularies", "plans"}))
    BY <2>1, NegotiationCalls
  <2>3. \A x \in Launched : Probes(x) \in Seq(CallsOf({"barrier", "listen", "measure", "serve", "measurements"}))
    BY <2>1, ProbesCalls
  <2> QED BY <2>2, <2>3, NoCalls
<1>5. \A x \in Launched : a10(x) \in Seq(CallsOf({"barrier", "activation", "gradient", "reduce", "update"}))
  BY IterationCalls, IterationsAreNat, TimesIsSeq
<1>6. a11 \in Seq({c \in ClassCalls : c.do = "local"}) /\ a12(w) \in Seq({c \in ClassCalls : c.do = "local"})
  <2>1. a11 = <<Alone("setup", 0)>> \o <<Alone("attempt", 0)>>
    OBVIOUS
  <2>2. <<Alone("setup", 0)>> \in Seq({c \in ClassCalls : c.do = "local"})
        /\ <<Alone("attempt", 0)>> \in Seq({c \in ClassCalls : c.do = "local"})
        /\ <<Alone("wait", 0)>> \in Seq({c \in ClassCalls : c.do = "local"})
    BY <1>2, LocalCall
  <2>3. a12(w) \in Seq({c \in ClassCalls : c.do = "local"})
    BY <2>2, NoCalls
  <2>4. \A S : \A p, q \in Seq(S) : p \o q \in Seq(S)
    OBVIOUS
  <2> HIDE DEF a11, a12
  <2> QED BY <2>1, <2>2, <2>3, <2>4
<1>7. a11 \in Seq(CallsOf({"setup", "attempt"}))
  <2>1. a11 = <<Alone("setup", 0)>> \o <<Alone("attempt", 0)>>
    OBVIOUS
  <2>2. <<Alone("setup", 0)>> \in Seq(CallsOf({"setup", "attempt"})) /\ <<Alone("attempt", 0)>> \in Seq(CallsOf({"setup", "attempt"}))
    <3>1. {"setup", "attempt"} \subseteq Kinds /\ "setup" \in {"setup", "attempt"} /\ "attempt" \in {"setup", "attempt"}
      BY <1>2
    <3> QED BY <1>2, <3>1, CallIn
  <2>3. \A S : \A p, q \in Seq(S) : p \o q \in Seq(S)
    OBVIOUS
  <2> HIDE DEF a11
  <2> QED BY <2>1, <2>2, <2>3
<1>8. MeetAlike(a9(w), a9(v)) /\ (Enough => MeetAlike(a10(w), a10(v)))
  <2>1. MeetAlike(<<>>, <<>>)
    BY DEF MeetAlike
  <2>2. MeetAlike(Probes(w), Probes(v))
    BY ProbesAlike
  <2>3. Enough => IterationsOf(w) = IterationsOf(v)
    BY IterationsAlike
  <2>4. Enough => MeetAlike(a10(w), a10(v))
    BY <2>3, TrainingAlike
  <2> QED BY <2>1, <2>2, <2>4 DEF Optional
<1>9. EndsTogether(a8) /\ (a10(w) = <<>> \/ EndsTogether(a10(w)))
  <2>1. EndsTogether(a8)
    BY DEF Everyone, Together, Call, EndsTogether, Worldwide
  <2> DEFINE n == IterationsOf(w)
             s == Times(n, Iteration(w))
             T == Seq(CallsOf({"barrier", "activation", "gradient", "reduce", "update"}))
  <2>2. n \in Nat /\ Iteration(w) \in T /\ EndsTogether(Iteration(w))
    BY IterationCalls, IterationsAreNat, IterationAlike
  <2> HIDE DEF n, T
  <2>3. s \in Seq(T) /\ Len(s) = n /\ (n # 0 => s[n] = Iteration(w))
    BY <2>2 DEF Times
  <2> HIDE DEF s
  <2>4. CASE n = 0
    <3>1. s = <<>>
      BY <2>3, <2>4
    <3>2. FlattenSeq(<<>>) = <<>>
      BY DEF FlattenSeq
    <3> QED BY <2>1, <3>1, <3>2 DEF s, n
  <2>5. CASE n # 0
    <3>1. EndsTogether(FlattenSeq(s))
      BY <2>2, <2>3, <2>5, FlattenEndsTogether DEF T
    <3> QED BY <2>1, <3>1 DEF s, n
  <2> QED BY <2>4, <2>5
<1> HIDE DEF a0, a1, a2, a3, a4, a5, a6, a7, a8, a9, a10, a11, a12, Enough
<1>10. /\ a0 \in Seq(ClassCalls) /\ a1 \in Seq(ClassCalls) /\ a2(w) \in Seq(ClassCalls) /\ a3 \in Seq(ClassCalls)
       /\ a4(w) \in Seq(ClassCalls) /\ a5 \in Seq(ClassCalls) /\ a6 \in Seq(ClassCalls) /\ a7 \in Seq(ClassCalls)
       /\ a8 \in Seq(ClassCalls) /\ a9(w) \in Seq(ClassCalls) /\ a10(w) \in Seq(ClassCalls)
       /\ a11 \in Seq(ClassCalls) /\ a12(w) \in Seq(ClassCalls)
  <2>1. a2(w) \in Seq(ClassCalls)
    BY CommunicatorsOrder DEF MeetAlike, a2
  <2>2. \A W : \A p \in Seq(CallsOf(W)) : p \in Seq(ClassCalls)
    BY CallsSubset
  <2> QED BY <1>3, <1>4, <1>5, <1>7, <2>1, <2>2
\* The calls after the communicators are made.
<1>11. /\ GoesOnAlike(a3, a3) /\ GoesOnAlike(a4(w), a4(v)) /\ GoesOnAlike(a5, a5) /\ GoesOnAlike(a6, a6)
       /\ GoesOnAlike(a7, a7) /\ GoesOnAlike(a8, a8) /\ GoesOnAlike(a9(w), a9(v)) /\ GoesOnAlike(a11, a11)
       /\ GoesOnAlike(a12(w), a12(v)) /\ (Enough => GoesOnAlike(a10(w), a10(v)))
  <2>1. /\ MeetAlike(a4(w), a4(v)) /\ MeetAlike(a12(w), a12(v))
    <3>1. {"setup"} \cap Worldwide = {} /\ {"wait"} \cap Worldwide = {}
      BY DEF Worldwide
    <3> QED BY <1>3, <3>1, UnmetAlike
  <2>2. GoesOnAlike(a3, a3) /\ GoesOnAlike(a5, a5) /\ GoesOnAlike(a7, a7) /\ GoesOnAlike(a8, a8)
    <3>1. {"nccl", "require_nccl"} \cap {"assignments"} = {} /\ {"nccl", "require_nccl"} \cap {"vocabulary"} = {}
          /\ {"nccl", "require_nccl"} \cap {"setup"} = {} /\ {"nccl", "require_nccl"} \cap {"barrier"} = {}
      OBVIOUS
    <3> QED BY <1>3, <3>1, SameAlike, CallsGoOnAlike
  <2>3. GoesOnAlike(a4(w), a4(v)) /\ GoesOnAlike(a12(w), a12(v))
    <3>1. {"nccl", "require_nccl"} \cap {"setup"} = {} /\ {"nccl", "require_nccl"} \cap {"wait"} = {}
      OBVIOUS
    <3> QED BY <1>3, <2>1, <3>1, CallsGoOnAlike
  <2>4. GoesOnAlike(a6, a6) /\ GoesOnAlike(a11, a11)
    <3>1. "nccl" \notin {"attempt", "collect", "vocabularies", "plans"} /\ "require_nccl" \notin {"attempt", "collect", "vocabularies", "plans"}
          /\ "nccl" \notin {"setup", "attempt"} /\ "require_nccl" \notin {"setup", "attempt"}
      OBVIOUS
    <3> QED BY <1>4, <1>7, <3>1, SameAlike, CallsGoOnAlike
  <2>5. GoesOnAlike(a9(w), a9(v))
    <3>1. "nccl" \notin {"barrier", "listen", "measure", "serve", "measurements"}
          /\ "require_nccl" \notin {"barrier", "listen", "measure", "serve", "measurements"}
      OBVIOUS
    <3> QED BY <1>4, <1>8, <3>1, CallsGoOnAlike
  <2>6. Enough => GoesOnAlike(a10(w), a10(v))
    <3>1. "nccl" \notin {"barrier", "activation", "gradient", "reduce", "update"}
          /\ "require_nccl" \notin {"barrier", "activation", "gradient", "reduce", "update"}
      OBVIOUS
    <3> QED BY <1>5, <1>8, <3>1, CallsGoOnAlike
  <2> QED BY <2>2, <2>3, <2>4, <2>5, <2>6
<1> DEFINE b1(x) == a0 \o a1 \o a2(x)
           b2(x) == b1(x) \o a3 \o a4(x) \o a5
           b3(x) == b2(x) \o a6 \o a7 \o a8
           b4(x) == b3(x) \o a9(x) \o a8
           b5(x) == b4(x) \o a10(x) \o a11 \o a12(x)
<1>12. \A x : ClassProgram(x) = b5(x)
  BY <1>1
\* Up to the communicators.
<1>13. BeginsAlike(b1(w), b1(v))
  <2>1. MeetAlike(a0, a0) /\ MeetAlike(a1, a1)
    BY <1>3, SameAlike
  <2>2. MeetAlike(a0 \o a1, a0 \o a1)
    BY <2>1, ConcatMeetAlike
  <2>3. Never(a0 \o a1, "consensus") /\ Never(a0 \o a1, "require_nccl")
    <3>1. "consensus" \notin {"setup"} /\ "consensus" \notin {"join"} /\ "require_nccl" \notin {"setup"} /\ "require_nccl" \notin {"join"}
      OBVIOUS
    <3>2. Never(a0, "consensus") /\ Never(a1, "consensus") /\ Never(a0, "require_nccl") /\ Never(a1, "require_nccl")
      BY <1>3, <3>1, CallsNever
    <3> QED BY <1>10, <3>2, ConcatNever
  <2> DEFINE p == a0 \o a1
  <2>4. p \in Seq(ClassCalls)
    BY <1>10
  <2>5. b1(w) = p \o a2(w) /\ b1(v) = p \o a2(v)
    OBVIOUS
  <2>6. /\ MeetAlike(a2(w), a2(v)) /\ NeverAfter(a2(w), "consensus", "nccl")
        /\ plan.replicas = 1 => Never(a2(w), "require_nccl")
        /\ plan.comm = "nccl" => ~Never(a2(w), "nccl")
    BY CommunicatorsOrder DEF a2
  <2>7. Never(p, "consensus") /\ Never(p, "require_nccl") /\ MeetAlike(p, p)
    BY <2>2, <2>3
  <2> HIDE DEF p, b1
  <2>8. MeetAlike(b1(w), b1(v))
    BY <2>5, <2>6, <2>7, ConcatMeetAlike
  <2>9. NeverAfter(b1(w), "consensus", "nccl")
    BY <1>10, <2>4, <2>5, <2>6, <2>7, PrefixNeverAfter
  <2>10. plan.replicas = 1 => Never(b1(w), "require_nccl")
    BY <1>10, <2>4, <2>5, <2>6, <2>7, ConcatNever
  <2>11. plan.comm = "nccl" => ~Never(b1(w), "nccl")
    BY <1>10, <2>4, <2>5, <2>6, ConcatSome
  <2> QED BY <2>8, <2>9, <2>10, <2>11 DEF BeginsAlike
<1> HIDE DEF b1
<1>14. BeginsAlike(b2(w), b2(v))
  <2>1. BeginsAlike(b1(w) \o a3, b1(v) \o a3)
    BY <1>11, <1>13, FollowsAlike
  <2>2. BeginsAlike(b1(w) \o a3 \o a4(w), b1(v) \o a3 \o a4(v))
    BY <1>11, <2>1, FollowsAlike
  <2> QED BY <1>11, <2>2, FollowsAlike
<1> HIDE DEF b2
<1>15. BeginsAlike(b3(w), b3(v))
  <2>1. BeginsAlike(b2(w) \o a6, b2(v) \o a6)
    BY <1>11, <1>14, FollowsAlike
  <2>2. BeginsAlike(b2(w) \o a6 \o a7, b2(v) \o a6 \o a7)
    BY <1>11, <2>1, FollowsAlike
  <2> QED BY <1>11, <2>2, FollowsAlike
<1> HIDE DEF b3
<1>16. BeginsAlike(b3(w) \o a9(w), b3(v) \o a9(v)) /\ BeginsAlike(b4(w), b4(v))
  <2>1. BeginsAlike(b3(w) \o a9(w), b3(v) \o a9(v))
    BY <1>11, <1>15, FollowsAlike
  <2> QED BY <1>11, <2>1, FollowsAlike
<1>17. EndsTogether(b4(w))
  <2>1. b3(w) \o a9(w) \in Seq(ClassCalls)
    BY <1>16 DEF BeginsAlike, MeetAlike
  <2> QED BY <1>9, <1>10, <2>1, ConcatEndsTogether
<1> HIDE DEF b4
<1>18. Enough => BeginsAlike(b5(w), b5(v))
  <2> SUFFICES ASSUME Enough PROVE BeginsAlike(b5(w), b5(v))
    OBVIOUS
  <2>1. BeginsAlike(b4(w) \o a10(w), b4(v) \o a10(v))
    BY <1>11, <1>16, FollowsAlike
  <2>2. BeginsAlike(b4(w) \o a10(w) \o a11, b4(v) \o a10(v) \o a11)
    BY <1>11, <2>1, FollowsAlike
  <2> QED BY <1>11, <2>2, FollowsAlike
<1> DEFINE m == b4(w) \o a10(w)
<1>19. b4(w) \in Seq(ClassCalls) /\ m \in Seq(ClassCalls)
  BY <1>10, <1>16 DEF BeginsAlike, MeetAlike
<1>20. NeverAfter(b5(w), "consensus", "nccl")
  <2>1. "nccl" \notin {"barrier", "activation", "gradient", "reduce", "update"}
    OBVIOUS
  <2>2. Never(a10(w), "nccl") /\ Never(a11, "nccl") /\ Never(a12(w), "nccl")
    BY <1>5, <1>11, <2>1, CallsNever DEF GoesOnAlike
  <2>3. NeverAfter(m, "consensus", "nccl")
    BY <1>10, <1>16, <1>19, <2>2, ConcatNeverAfter DEF BeginsAlike
  <2> HIDE DEF m
  <2>4. NeverAfter(m \o a11, "consensus", "nccl") /\ m \o a11 \in Seq(ClassCalls)
    BY <1>10, <1>19, <2>2, <2>3, ConcatNeverAfter
  <2>5. NeverAfter(m \o a11 \o a12(w), "consensus", "nccl")
    BY <1>10, <2>2, <2>4, ConcatNeverAfter
  <2> QED BY <2>5 DEF m
<1>21. EndsTogether(m)
  <2>1. CASE a10(w) = <<>>
    <3>1. m = b4(w)
      BY <1>19, <2>1
    <3> QED BY <1>17, <3>1
  <2>2. CASE EndsTogether(a10(w))
    BY <1>10, <1>19, <2>2, ConcatEndsTogether
  <2> QED BY <1>9, <2>1, <2>2
<1>22. Followed(b5(w))
  <2>1. Followed(m)
    BY <1>19, <1>21, TogetherFollowed
  <2> HIDE DEF m
  <2>2. Followed(m \o a11) /\ m \o a11 \in Seq(ClassCalls)
    BY <1>6, <1>10, <1>19, <2>1, LocalFollowed
  <2>3. Followed(m \o a11 \o a12(w))
    BY <1>6, <2>2, LocalFollowed
  <2> QED BY <2>3 DEF m
<1> HIDE DEF b5
<1> QED BY <1>12, <1>18, <1>20, <1>22 DEF Enough

\* Nothing that OutcomesAreTrue excuses has happened.
Healthy ==
  /\ mishaps = 0 /\ differs = "nothing" /\ VocabularyAccepted /\ VocabulariesAgree
  /\ NcclIsUniform
  /\ plan.stages > 2 => plan.loader >= plan.perEpoch

\* As long as that is so, all ranks have the same number of meetings before them,
\* none has to have an NCCL it lacks, and none misses a communicator it was to make.
InStep == \A v, w \in Launched : Meetings(todo[v]) = Meetings(todo[w])
Equipped ==
  \A w \in Launched :
    /\ plan.replicas = 1 => Never(todo[w], "require_nccl")
    /\ plan.comm = "nccl" => nccl[w] \/ ~Never(todo[w], "nccl")

Ordered == \A w \in Launched : NeverAfter(todo[w], "consensus", "nccl") /\ Followed(todo[w])

HealthInv ==
  /\ ClassShape /\ nccl \in [Launched -> BOOLEAN] /\ mishaps \in Nat /\ Ordered
  /\ Healthy => raised = {} /\ flawed = {} /\ InStep /\ Equipped

LEMMA DroppedFollowed ==
  ASSUME NEW S, NEW p \in Seq(S), NEW q \in Seq(S), NEW k, Drops(p, q, k), Followed(p)
  PROVE  Followed(q)
<1>1. k \in Nat /\ Len(p) \in Nat /\ Len(q) = Len(p) - k /\ Len(q) \in Nat
  BY DEF Drops
<1>2. \A i \in 1 .. Len(q) : k + i \in 1 .. Len(p) /\ p[k + i] = q[i]
  BY <1>1 DEF Drops
<1>3. \A i \in 1 .. Len(p) : p[i].do # "local" => \E j \in i .. Len(p) : p[j].what \in Worldwide
  BY DEF Followed
<1>4. ASSUME NEW i \in 1 .. Len(q), q[i].do # "local" PROVE \E j \in i .. Len(q) : q[j].what \in Worldwide
  <2>1. PICK j \in k + i .. Len(p) : p[j].what \in Worldwide
    BY <1>2, <1>3, <1>4
  <2>2. j - k \in i .. Len(q) /\ k + (j - k) = j
    BY <1>1, <2>1
  <2>3. j - k \in 1 .. Len(q)
    BY <1>1, <2>2
  <2>4. q[j - k] = p[j]
    BY <1>2, <2>2, <2>3
  <2> QED BY <2>1, <2>2, <2>4
<1> QED BY <1>4 DEF Followed

LEMMA OrderKept ==
  ASSUME ClassShape, Ordered, NEW W, Advances(W), Launched' = Launched
  PROVE  Ordered'
<1>1. \A w \in Launched : NeverAfter(todo'[w], "consensus", "nccl")
  BY AdvanceKeepsOrder DEF Ordered
<1>2. ASSUME NEW w \in Launched PROVE Followed(todo'[w])
  <2>1. todo[w] \in Seq(ClassCalls) /\ todo'[w] \in Seq(ClassCalls) /\ GoesOn(w, W) /\ Followed(todo[w])
    BY DEF ClassShape, Advances, Ordered
  <2>2. CASE todo'[w] = <<>>
    BY <2>2 DEF Followed
  <2>3. CASE \E k \in Nat : Drops(todo[w], todo'[w], k)
    BY <2>1, <2>3, DroppedFollowed
  <2> QED BY <2>1, <2>2, <2>3 DEF GoesOn
<1> QED BY <1>1, <1>2 DEF Ordered, NeverAfter, Followed

\* Nobody is gone while a rank has a call to make with others.
LEMMA NobodyGone ==
  ASSUME ClassShape, Ordered, InStep, NEW r \in Launched, todo[r] # <<>>, Head(todo[r]).do # "local",
         NEW q \in Launched
  PROVE  todo[q] # <<>>
<1>1. todo[r] \in Seq(ClassCalls) /\ todo[q] \in Seq(ClassCalls)
  BY DEF ClassShape
<1>2. 1 \in 1 .. Len(todo[r]) /\ todo[r][1] = Head(todo[r])
  BY <1>1
<1>3. PICK j \in 1 .. Len(todo[r]) : todo[r][j].what \in Worldwide
  BY <1>2 DEF Ordered, Followed
<1>4. WorldCalls(todo[r]) # {}
  BY <1>3 DEF WorldCalls
<1>5. Meetings(todo[r]) # 0
  BY <1>1, <1>4, MeetingsFinite
<1>6. Meetings(todo[q]) # 0
  BY <1>5 DEF InStep
<1>7. SUFFICES ASSUME todo[q] = <<>> PROVE FALSE
  OBVIOUS
<1>8. WorldCalls(todo[q]) = {}
  BY <1>7 DEF WorldCalls
<1> QED BY <1>1, <1>6, <1>8, MeetingsFinite

\* The calls a rank can be at, and the ranks they need.
LEMMA CallNeeds ==
  ASSUME ClassShape, NEW w \in Launched, todo[w] # <<>>
  PROVE  /\ Head(todo[w]) \in ClassCalls
         /\ Head(todo[w]).what \in Worldwide => Head(todo[w]).with = Launched
         /\ Head(todo[w]).what = "nccl" => Head(todo[w]).with \subseteq Launched
<1>1. todo[w] \in Seq(ClassCalls)
  BY DEF ClassShape
<1>2. Head(todo[w]) \in ClassCalls
  BY <1>1
<1> QED BY <1>2 DEF ClassCalls

\* Mishaps are only counted up, and what is not counted leaves no flaw.
LEMMA MishapsCount ==
  ASSUME ClassShape, mishaps \in Nat, nccl \in [Launched -> BOOLEAN], NEW w \in Launched, ClassStep(w)
  PROVE  /\ mishaps' \in Nat /\ mishaps' >= mishaps
         /\ mishaps' = mishaps => flawed' = flawed
         /\ nccl' \in [Launched -> BOOLEAN] /\ \A v \in Launched : nccl[v] => nccl'[v]
         /\ (mishaps' = mishaps /\ MakeNccl(w)) => \A v \in Current(w).with \cap Launched : nccl'[v]
<1>1. CASE Attempt(w)
  <2>1. nccl' = nccl
    BY <1>1 DEF Attempt
  <2>2. ~MakeNccl(w)
    BY <1>1 DEF Attempt, MakeNccl, Work, Gathered, At
  <2> QED BY <1>1, <2>1, <2>2 DEF Attempt
<1>2. CASE MakeNccl(w)
  <2>1. PICK failing \in SUBSET Current(w).with :
          /\ nccl' = [v \in Launched |-> v \in Current(w).with \ failing \/ nccl[v]]
          /\ mishaps' = mishaps + Cardinality(failing)
    BY <1>2 DEF MakeNccl
  <2>2. failing \subseteq Launched
    <3>1. Current(w).with \subseteq Launched
      BY <1>2, CallNeeds DEF MakeNccl, Gathered, At, Current
    <3> QED BY <3>1
  <2>3. IsFiniteSet(failing)
    BY <2>2, LaunchedRanks, FS_Subset DEF ClassShape
  <2>4. Cardinality(failing) \in Nat /\ (Cardinality(failing) = 0 => failing = {})
    BY <2>3, FS_CardinalityType, FS_EmptySet
  <2>5. mishaps' \in Nat /\ mishaps' >= mishaps /\ (mishaps' = mishaps => failing = {})
    BY <2>1, <2>4
  <2>6. flawed' = flawed
    BY <1>2 DEF MakeNccl
  <2> DEFINE G == Current(w).with
  <2>7. nccl' \in [Launched -> BOOLEAN]
    BY <2>1
  <2>8. \A v \in Launched : nccl'[v] <=> (v \in G \ failing \/ nccl[v])
    BY <2>1
  <2> HIDE DEF G
  <2>9. (\A v \in Launched : nccl[v] => nccl'[v]) /\ (failing = {} => \A v \in G \cap Launched : nccl'[v])
    BY <2>8
  <2> QED BY <2>5, <2>6, <2>7, <2>9 DEF G
<1>3. ASSUME UNCHANGED <<mishaps, flawed, nccl>>, ~MakeNccl(w)
      PROVE  /\ mishaps' \in Nat /\ mishaps' >= mishaps
             /\ mishaps' = mishaps => flawed' = flawed
             /\ nccl' \in [Launched -> BOOLEAN] /\ \A v \in Launched : nccl[v] => nccl'[v]
             /\ (mishaps' = mishaps /\ MakeNccl(w)) => \A v \in Current(w).with \cap Launched : nccl'[v]
  BY <1>3
<1>4. SetUp(w) \/ UpdateModel(w) \/ Listen(w) \/ MeasureFails(w) => UNCHANGED <<mishaps, flawed, nccl>>
  BY DEF SetUp, UpdateModel, Listen, MeasureFails, Does, settings
<1>5. ImportNccl(w) \/ RequireNccl(w) \/ Compare(w) \/ Terminate(w) \/ AwaitChildren(w) \/ Quit(w)
      => UNCHANGED <<mishaps, flawed, nccl>>
  BY DEF ImportNccl, RequireNccl, Compare, Terminate, AwaitChildren, Quit, classVars
<1>6. ChooseTransport(w) \/ ShareMatrix(w) => UNCHANGED <<mishaps, flawed, nccl>>
  BY DEF ChooseTransport, ShareMatrix
<1>7. (\E v \in Launched : Measure(w, v) \/ Transfers(w, v)) => UNCHANGED <<mishaps, flawed, nccl>>
  BY DEF Measure, Transfers, classVars
<1> QED BY <1>1, <1>2, <1>3, <1>4, <1>5, <1>6, <1>7 DEF ClassStep

LEMMA NobodyRaises ==
  ASSUME HealthInv, Healthy, mishaps' = mishaps, NEW w \in Launched, ClassStep(w)
  PROVE  raised' = {}
<1>0. /\ ClassShape /\ Ordered /\ raised = {} /\ flawed = {} /\ InStep /\ Equipped
      /\ differs = "nothing" /\ VocabularyAccepted /\ VocabulariesAgree
      /\ (noNccl = {} \/ (plan.comm = "auto" /\ plan.replicas = 1))
  BY DEF HealthInv, Healthy, NcclIsUniform
<1>1. SUFFICES ASSUME raised' # raised PROVE FALSE
  BY <1>0
<1>2. todo \in [Launched -> Seq(ClassCalls)] /\ DOMAIN todo = Launched
  BY <1>0 DEF ClassShape
<1>3. CASE RequireNccl(w)
  <2>1. w \in noNccl /\ todo[w] # <<>> /\ Head(todo[w]).what = "require_nccl"
    BY <1>1, <1>3 DEF RequireNccl, Work, At, Current, Leave
  <2>2. Never(todo[w], "require_nccl")
    BY <1>0, <2>1 DEF Equipped
  <2> QED BY <1>2, <2>1, <2>2, HeadFacts
<1>4. CASE ChooseTransport(w)
  <2>1. PICK v \in Launched : plan.comm = "nccl" /\ ~nccl[v] /\ ~(\A u \in Launched : nccl[u])
    BY <1>1, <1>4 DEF ChooseTransport, NcclOk, Leave
  <2>2. todo[w] # <<>> /\ Head(todo[w]).what = "consensus" /\ Head(todo[w]).with = Launched
    <3>1. "consensus" \in Worldwide
      BY DEF Worldwide
    <3>2. todo[w] # <<>> /\ Head(todo[w]).what = "consensus"
      BY <1>4 DEF ChooseTransport, Gathered, At, Current
    <3> QED BY <1>0, <3>1, <3>2, CallNeeds
  <2>3. \E x \in Launched : ~nccl[x] /\ todo[x] # <<>> /\ Head(todo[x]).what = "consensus"
    BY <1>4, <2>1, <2>2 DEF ChooseTransport, Gathered, Current
  <2>4. PICK x \in Launched : ~nccl[x] /\ todo[x] # <<>> /\ Head(todo[x]).what = "consensus"
    BY <2>3
  <2>5. NeverAfter(todo[x], "consensus", "nccl") /\ ~Never(todo[x], "nccl") /\ todo[x] \in Seq(ClassCalls)
    BY <1>0, <1>2, <2>1, <2>4 DEF Ordered, Equipped
  <2>6. Never(Tail(todo[x]), "nccl")
    BY <2>4, <2>5, HeadFacts
  <2> DEFINE p == todo[x]
  <2>7. p \in Seq(ClassCalls) /\ p # <<>> /\ Head(p).what # "nccl" /\ Never(Tail(p), "nccl") /\ ~Never(p, "nccl")
    BY <2>4, <2>5, <2>6
  <2> HIDE DEF p
  <2>8. PICK i \in 1 .. Len(p) : p[i].what = "nccl"
    BY <2>7 DEF Never
  <2>9. i # 1 /\ i - 1 \in 1 .. Len(Tail(p)) /\ Tail(p)[i - 1] = p[i]
    BY <2>7, <2>8
  <2> QED BY <2>7, <2>8, <2>9 DEF Never
<1>5. CASE Compare(w)
  BY <1>0, <1>1, <1>5 DEF Compare, Disagreement, Leave
<1>6. CASE Terminate(w)
  BY <1>0, <1>6 DEF Terminate
<1>7. CASE AwaitChildren(w)
  BY <1>0, <1>1, <1>7 DEF AwaitChildren, AnyFailed, Leave
<1>8. CASE Quit(w)
  <2>1. /\ At(w, "meet") \/ At(w, "send") \/ At(w, "recv")
        /\ Gone # {}
    BY <1>8 DEF Quit, Desert
  <2>2. todo[w] # <<>> /\ Head(todo[w]).do # "local"
    BY <2>1 DEF At
  <2>3. \A q \in Launched : todo[q] # <<>>
    BY <1>0, <2>2, NobodyGone
  <2> QED BY <1>2, <2>1, <2>3 DEF Gone, Peers
<1>9. SetUp(w) \/ UpdateModel(w) \/ Listen(w) \/ MeasureFails(w) \/ Attempt(w) => raised' = raised
  BY DEF SetUp, UpdateModel, Listen, MeasureFails, Attempt, Does, Leave
<1>10. ImportNccl(w) \/ MakeNccl(w) \/ ShareMatrix(w) => raised' = raised
  BY DEF ImportNccl, MakeNccl, ShareMatrix, Leave
<1>11. (\E v \in Launched : Measure(w, v) \/ Transfers(w, v)) => raised' = raised
  BY DEF Measure, Transfers, Pass, Post, Take, Leave
<1> QED BY <1>1, <1>3, <1>4, <1>5, <1>6, <1>7, <1>8, <1>9, <1>10, <1>11 DEF ClassStep

LEMMA StaysInStep ==
  ASSUME ClassShape, InStep, NEW W, Advances(W), raised' = {}, W \cap Worldwide # {} => Jointly
  PROVE  \A v, w \in Launched : Meetings(todo'[v]) = Meetings(todo'[w])
<1>1. \A r \in Launched : todo[r] \in Seq(ClassCalls) /\ todo'[r] \in Seq(ClassCalls) /\ GoesOn(r, W)
  BY DEF ClassShape, Advances
<1>2. CASE W \cap Worldwide = {}
  <2>1. ASSUME NEW r \in Launched PROVE Meetings(todo'[r]) = Meetings(todo[r])
    <3>1. PICK k \in Nat :
            /\ Drops(todo[r], todo'[r], k)
            /\ \A i \in 1 .. k : todo[r][i].what \in W \/ todo[r][i].do \in {"send", "recv"}
      BY <1>1 DEF GoesOn
    <3>2. ASSUME NEW i \in 1 .. k PROVE todo[r][i].what \notin Worldwide
      <4>1. i \in 1 .. Len(todo[r])
        BY <1>1, <3>1 DEF Drops
      <4>2. todo[r][i] \in ClassCalls
        BY <1>1, <4>1
      <4> QED BY <1>2, <3>1, <4>2 DEF ClassCalls
    <3> QED BY <1>1, <3>1, <3>2, MeetingsDropped
  <2> QED BY <2>1 DEF InStep
<1>3. CASE Jointly
  <2>1. ASSUME NEW r \in Launched PROVE Meetings(todo'[r]) = Meetings(todo[r]) - 1
    <3>1. todo[r] # <<>> /\ Head(todo[r]).what \in Worldwide /\ todo'[r] = Tail(todo[r])
      BY <1>3 DEF Jointly
    <3>2. Meetings(todo[r]) = 1 + Meetings(Tail(todo[r]))
      BY <1>1, <3>1, MeetingPopped
    <3>3. Meetings(todo'[r]) \in Nat
      BY <1>1, MeetingsFinite
    <3> QED BY <3>1, <3>2, <3>3
  <2> QED BY <2>1 DEF InStep
<1> QED BY <1>2, <1>3

LEMMA StaysEquipped ==
  ASSUME HealthInv, Healthy, mishaps' = mishaps, NEW w \in Launched, ClassStep(w),
         NEW W, Advances(W), Licensed(W, w), raised' = {}, NEW v \in Launched
  PROVE  /\ plan.replicas = 1 => Never(todo'[v], "require_nccl")
         /\ plan.comm = "nccl" => nccl'[v] \/ ~Never(todo'[v], "nccl")
<1>0. /\ ClassShape /\ Ordered /\ InStep /\ Equipped
      /\ (noNccl = {} \/ (plan.comm = "auto" /\ plan.replicas = 1))
      /\ mishaps \in Nat /\ nccl \in [Launched -> BOOLEAN]
  BY DEF HealthInv, Healthy, NcclIsUniform
<1>1. plan.replicas = 1 => Never(todo'[v], "require_nccl")
  BY <1>0, AdvanceKeepsOrder DEF Equipped
<1>2. ASSUME plan.comm = "nccl", ~nccl'[v] PROVE ~Never(todo'[v], "nccl")
  <2>1. noNccl = {} /\ ~Never(todo[v], "nccl")
    BY <1>0, <1>2, MishapsCount DEF Equipped
  <2>2. CASE MakeNccl(w)
    <3>1. v \notin Current(w).with
      BY <1>0, <1>2, <2>2, MishapsCount
    <3>2. todo'[v] = todo[v]
      BY <1>0, <2>2, <3>1 DEF MakeNccl, Leave, Popped, Peers, ClassShape
    <3> QED BY <2>1, <3>2
  <2>3. CASE "nccl" \notin W
    <3> DEFINE p == todo[v]
               q == todo'[v]
    <3>1. p \in Seq(ClassCalls) /\ q \in Seq(ClassCalls) /\ GoesOn(v, W)
      BY <1>0 DEF ClassShape, Advances
    <3>2. PICK k \in Nat :
            /\ Drops(p, q, k)
            /\ \A i \in 1 .. k : p[i].what \in W \/ p[i].do \in {"send", "recv"}
      BY <3>1 DEF GoesOn
    <3>3. PICK i \in 1 .. Len(p) : p[i].what = "nccl"
      BY <2>1 DEF Never
    <3> HIDE DEF p, q
    <3>4. p[i] \in ClassCalls
      BY <3>1, <3>3
    <3>5. p[i].do \notin {"send", "recv"}
      BY <3>3, <3>4 DEF ClassCalls
    <3>6. i \notin 1 .. k
      BY <2>3, <3>2, <3>3, <3>5
    <3>7. k \in Nat /\ Len(p) \in Nat /\ Len(q) = Len(p) - k /\ \A j \in 1 .. Len(q) : q[j] = p[k + j]
      BY <3>1, <3>2 DEF Drops
    <3>8. i - k \in 1 .. Len(q) /\ k + (i - k) = i
      BY <3>3, <3>6, <3>7
    <3>9. q[i - k].what = "nccl"
      BY <3>3, <3>7, <3>8
    <3> QED BY <3>8, <3>9 DEF Never, q
  <2> QED BY <2>1, <2>2, <2>3 DEF Licensed
<1> QED BY <1>1, <1>2

LEMMA HealthKept ==
  ASSUME HealthInv, NEW w \in Launched, ClassStep(w)
  PROVE  HealthInv'
<1>0. ClassShape /\ Ordered /\ mishaps \in Nat /\ nccl \in [Launched -> BOOLEAN]
  BY DEF HealthInv
<1>1. /\ plan' = plan /\ differs' = differs /\ noNccl' = noNccl
      /\ Launched' = Launched /\ ClassCalls' = ClassCalls
  BY ClassChanges DEF settings, Launched, ClassCalls
<1>2. PICK W : Advances(W) /\ Licensed(W, w)
  BY <1>0, StepAdvances
<1>3. ClassShape'
  BY <1>0, <1>1, <1>2, AdvanceKeepsOrder DEF ClassShape, Advances
<1>4. Ordered'
  BY <1>0, <1>1, <1>2, OrderKept
<1>5. mishaps' \in Nat /\ nccl' \in [Launched' -> BOOLEAN]
  BY <1>0, <1>1, MishapsCount
<1>6. ASSUME Healthy' PROVE raised' = {} /\ flawed' = {} /\ InStep' /\ Equipped'
  <2>1. mishaps' = 0
    BY <1>6 DEF Healthy
  <2>2. mishaps' >= mishaps
    BY <1>0, MishapsCount
  <2>3. mishaps = 0
    BY <1>0, <2>1, <2>2
  <2>4. Healthy /\ mishaps' = mishaps
    BY <1>1, <1>6, <2>1, <2>3, SameDisagreement DEF Healthy, NcclIsUniform
  <2>5. raised' = {}
    BY <2>4, NobodyRaises
  <2>6. flawed' = {} /\ InStep
    BY <1>0, <2>4, MishapsCount DEF HealthInv
  <2>7. InStep'
    BY <1>0, <1>1, <1>2, <2>5, <2>6, StaysInStep DEF InStep, Licensed
  <2>8. Equipped'
    BY <1>1, <1>2, <2>4, <2>5, StaysEquipped DEF Equipped
  <2> QED BY <2>5, <2>6, <2>7, <2>8
<1> QED BY <1>3, <1>4, <1>5, <1>6 DEF HealthInv

\* When rank 0 exits with success, every rank it started has; and without an
\* error, a disagreement or an NCCL that some ranks have and others lack, no rank
\* raises, whatever the plan, the number of ranks and the order of their calls
\* (main, wait_local_ranks, measure_comm_matrix, distributed_train_foo_iter).
THEOREM OutcomesStayTrue == ClassSpec => []OutcomesAreTrue
<1>1. ClassInit => HealthInv
  <2> SUFFICES ASSUME ClassInit PROVE HealthInv
    OBVIOUS
  <2>1. ClassShape
    BY ClassInitInv DEF ClassInv
  <2>2. plan \in Plans /\ todo = [w \in Launched |-> ClassProgram(w)] /\ nccl = [w \in Launched |-> FALSE] /\ mishaps = 0
        /\ flawed = {} /\ raised = {}
    BY DEF ClassInit, NewChannels
  <2>3. Ordered
    BY <2>2, ProgramsAlike DEF Ordered
  <2>4. ASSUME Healthy PROVE InStep /\ Equipped
    <3>1. plan.stages > 2 => plan.loader >= plan.perEpoch
      BY <2>4 DEF Healthy
    <3>2. \A v, w \in Launched : BeginsAlike(todo[w], todo[v])
      BY <2>2, <3>1, ProgramsAlike
    <3> QED BY <3>2 DEF BeginsAlike, MeetAlike, InStep, Equipped
  <2> QED BY <2>1, <2>2, <2>3, <2>4 DEF HealthInv
<1>2. HealthInv /\ [ClassNext]_<<classVars, channelVars>> => HealthInv'
  <2> SUFFICES ASSUME HealthInv, [ClassNext]_<<classVars, channelVars>> PROVE HealthInv'
    OBVIOUS
  <2>1. ASSUME NEW w \in Launched, ClassStep(w) PROVE HealthInv'
    BY <2>1, HealthKept
  <2>2. ASSUME NEW w \in Launched, Error(w) PROVE HealthInv'
    <3>0. ClassShape /\ Ordered /\ mishaps \in Nat /\ nccl \in [Launched -> BOOLEAN]
      BY DEF HealthInv
    <3>1. Raise({w}) /\ plan' = plan /\ nccl' = nccl /\ mishaps' = mishaps + 1 /\ Launched' = Launched /\ ClassCalls' = ClassCalls
      BY <2>2 DEF Error, settings, Launched, ClassCalls
    <3>2. Advances({})
      BY <3>0, <3>1, RaiseAdvances
    <3>3. ClassShape' /\ Ordered'
      BY <3>0, <3>1, <3>2, AdvanceKeepsOrder, OrderKept DEF ClassShape, Advances
    <3>4. mishaps' \in Nat /\ mishaps' # 0
      BY <3>0, <3>1
    <3>5. ~Healthy'
      BY <3>4 DEF Healthy
    <3> QED BY <3>0, <3>1, <3>3, <3>4, <3>5 DEF HealthInv
  <2>3. CASE UNCHANGED <<classVars, channelVars>>
    <3>1. /\ UNCHANGED <<plan, differs, noNccl, nccl, flawed, mishaps, todo, raised>>
          /\ Launched' = Launched /\ ClassCalls' = ClassCalls
      BY <2>3 DEF classVars, channelVars, settings, Launched, ClassCalls
    <3>2. ClassShape' = ClassShape /\ Ordered' = Ordered /\ InStep' = InStep /\ Equipped' = Equipped
      BY <3>1 DEF ClassShape, Ordered, InStep, Equipped, Paired, NeverAfter, Followed, Never, Meetings, WorldCalls
    <3>3. Healthy' <=> Healthy
      BY <3>1, SameDisagreement DEF Healthy, NcclIsUniform
    <3> QED BY <3>1, <3>2, <3>3 DEF HealthInv
  <2> QED BY <2>1, <2>2, <2>3 DEF ClassNext
<1>3. HealthInv /\ SuccessIsOfAll => OutcomesAreTrue
  BY DEF HealthInv, Healthy, OutcomesAreTrue
<1>4. ClassSpec => []HealthInv
  BY <1>1, <1>2, PTL DEF ClassSpec
<1>5. ClassSpec => []SuccessIsOfAll
  BY SuccessNeedsAll
<1> QED BY <1>3, <1>4, <1>5, PTL

------------------------------------------------------------------------------
(* The task runners' calls and programs.                                    *)

\* The comparisons, which the whole world makes.
Compared == {"settings", "layout", "lengths", "signature"}
TaskKinds ==
  Compared \cup
  {"device", "join", "groups", "data", "data_errors", "counts", "run_id", "hash", "identities", "directory", "collect",
   "wall", "batches", "gather", "score", "scores", "load_checkpoint", "save", "barrier", "load", "header", "values",
   "count", "tokens", "mask", "loss", "backward", "activation", "gradient", "report", "logits", "gradients", "norm",
   "update"}

TaskCalls ==
  {c \in [do : {"meet", "send", "recv", "local"}, what : TaskKinds, with : SUBSET Int, slot : Int] :
     /\ c.what \in Compared => c.do = "meet" /\ c.with = World
     /\ c.what \in {"update", "load_checkpoint"} => c.do = "local"}
\* Calls that do not load a checkpoint, and those that do not update either.
RunCalls == {c \in TaskCalls : c.what # "load_checkpoint"}
EarlyCalls == {c \in TaskCalls : c.what \notin {"load_checkpoint", "update"}}

LEMMA WorldRanks ==
  ASSUME job \in Jobs
  PROVE  /\ World \subseteq Nat /\ 0 \in World
         /\ \A w \in World : Pipeline(w) \subseteq Int /\ Replicas(w) \subseteq Int
<1>1. job.stages \in Nat /\ job.replicas \in Nat /\ job.stages > 0 /\ job.replicas > 0
  BY TaskAssumption
<1> DEFINE s == job.stages
           r == job.replicas
           n == s * r
<1>2. n \in Nat /\ n > 0
  <2> HIDE DEF s, r
  <2> SUFFICES ASSUME s \in Nat, r \in Nat, s > 0, r > 0 PROVE s * r \in Nat /\ s * r > 0
    BY <1>1 DEF s, r, n
  <2> QED OBVIOUS
<1>3. World = 0 .. n - 1
  BY DEF World
<1> HIDE DEF n
<1>4. World \subseteq Nat /\ 0 \in World
  BY <1>2, <1>3
<1>5. \A w \in World : Pipeline(w) \subseteq World /\ Replicas(w) \subseteq World
  BY DEF Pipeline, Replicas
<1>6. World \subseteq Int
  BY <1>4
<1> QED BY <1>4, <1>5, <1>6

LEMMA TaskCallSets ==
  /\ EarlyCalls \subseteq RunCalls /\ RunCalls \subseteq TaskCalls
  /\ \A p \in Seq(EarlyCalls) : p \in Seq(RunCalls) /\ Never(p, "update") /\ Never(p, "load_checkpoint")
  /\ \A p \in Seq(RunCalls) : p \in Seq(TaskCalls) /\ Never(p, "load_checkpoint")
<1>1. EarlyCalls \subseteq RunCalls /\ RunCalls \subseteq TaskCalls
  BY DEF EarlyCalls, RunCalls
<1>2. ASSUME NEW p \in Seq(EarlyCalls) PROVE Never(p, "update") /\ Never(p, "load_checkpoint")
  <2>1. \A i \in 1 .. Len(p) : p[i] \in EarlyCalls
    OBVIOUS
  <2> QED BY <2>1 DEF EarlyCalls, Never
<1>3. ASSUME NEW p \in Seq(RunCalls) PROVE Never(p, "load_checkpoint")
  <2>1. \A i \in 1 .. Len(p) : p[i] \in RunCalls
    OBVIOUS
  <2> QED BY <2>1 DEF RunCalls, Never
<1>4. \A p \in Seq(EarlyCalls) : p \in Seq(RunCalls)
  BY <1>1
<1>5. \A p \in Seq(RunCalls) : p \in Seq(TaskCalls)
  BY <1>1
<1> QED BY <1>1, <1>2, <1>3, <1>4, <1>5

LEMMA WhenCalls ==
  ASSUME NEW S, NEW p \in Seq(S), NEW condition
  PROVE  When(condition, p) \in Seq(S)
BY DEF When

LEMMA EarlyCall ==
  ASSUME job \in Jobs, NEW what \in TaskKinds \ {"load_checkpoint", "update"}, NEW i \in Int, NEW w \in World
  PROVE  /\ All(what) \in Seq(EarlyCalls)
         /\ what \notin Compared =>
              /\ <<Alone(what, i)>> \in Seq(EarlyCalls)
              /\ Pipe(w, what) \in Seq(EarlyCalls) /\ Data(w, what) \in Seq(EarlyCalls)
              /\ \A q \in Int : <<SendTo(q, what, i)>> \in Seq(EarlyCalls) /\ <<RecvFrom(q, what, i)>> \in Seq(EarlyCalls)
<1>0. World \subseteq Int /\ Pipeline(w) \subseteq Int /\ Replicas(w) \subseteq Int /\ 0 \in Int
  BY WorldRanks
<1>1. All(what) \in Seq(EarlyCalls)
  <2>1. Together(what, World) \in EarlyCalls
    BY <1>0 DEF Together, Call, EarlyCalls, TaskCalls
  <2> QED BY <2>1, SingleCall DEF All
<1>2. ASSUME what \notin Compared PROVE <<Alone(what, i)>> \in Seq(EarlyCalls)
  <2>1. Alone(what, i) \in EarlyCalls
    BY <1>2 DEF Alone, Call, EarlyCalls, TaskCalls
  <2> QED BY <2>1, SingleCall
<1>3. ASSUME what \notin Compared PROVE Pipe(w, what) \in Seq(EarlyCalls) /\ Data(w, what) \in Seq(EarlyCalls)
  <2>1. Together(what, Pipeline(w)) \in EarlyCalls /\ Together(what, Replicas(w)) \in EarlyCalls
    BY <1>0, <1>3 DEF Together, Call, EarlyCalls, TaskCalls
  <2>2. <<Together(what, Pipeline(w))>> \in Seq(EarlyCalls) /\ <<Together(what, Replicas(w))>> \in Seq(EarlyCalls)
    BY <2>1, SingleCall
  <2> QED BY <2>2 DEF Pipe, Data
<1>4. ASSUME what \notin Compared, NEW q \in Int
      PROVE  <<SendTo(q, what, i)>> \in Seq(EarlyCalls) /\ <<RecvFrom(q, what, i)>> \in Seq(EarlyCalls)
  <2>1. SendTo(q, what, i) \in EarlyCalls /\ RecvFrom(q, what, i) \in EarlyCalls
    BY <1>4 DEF SendTo, RecvFrom, Call, EarlyCalls, TaskCalls
  <2> QED BY <2>1, SingleCall
<1> QED BY <1>1, <1>2, <1>3, <1>4

LEMMA MicroCalls ==
  ASSUME job \in Jobs, NEW w \in World, NEW i \in Int
  PROVE  Forward(w, i) \in Seq(EarlyCalls) /\ Backward(w, i) \in Seq(EarlyCalls)
<1>1. w - 1 \in Int /\ w + 1 \in Int
  BY WorldRanks
<1>2. \A x \in {"activation", "gradient", "loss", "backward"} :
        x \in TaskKinds \ {"load_checkpoint", "update"} /\ x \notin Compared
  BY DEF TaskKinds, Compared
<1> DEFINE a == <<RecvFrom(w - 1, "activation", i)>>
           b == <<SendTo(w + 1, "activation", i)>>
           c == <<RecvFrom(w + 1, "gradient", i)>>
           d == <<SendTo(w - 1, "gradient", i)>>
           e == <<Alone("loss", i)>>
           f == <<Alone("backward", i)>>
<1>3. a \in Seq(EarlyCalls) /\ b \in Seq(EarlyCalls) /\ c \in Seq(EarlyCalls) /\ d \in Seq(EarlyCalls)
  BY <1>1, <1>2, EarlyCall
<1>4. e \in Seq(EarlyCalls) /\ f \in Seq(EarlyCalls)
  BY <1>2, EarlyCall
<1>5. /\ Forward(w, i) = When(~First(w), a) \o IF Final(w) THEN e ELSE b
      /\ Backward(w, i) = When(~Final(w), c) \o f \o When(~First(w), d)
  BY DEF Forward, Backward
<1> HIDE DEF a, b, c, d, e, f
<1>6. When(~First(w), a) \in Seq(EarlyCalls) /\ When(~Final(w), c) \in Seq(EarlyCalls) /\ When(~First(w), d) \in Seq(EarlyCalls)
  BY <1>3, WhenCalls
<1> QED BY <1>3, <1>4, <1>5, <1>6

LEMMA BatchCalls ==
  ASSUME job \in Jobs, NEW w \in World, NEW training \in BOOLEAN
  PROVE  Batch(w, training) \in Seq(EarlyCalls)
<1> DEFINE E == EarlyCalls
           K == {"header", "values", "count", "loss", "report", "logits", "tokens", "mask", "load"}
<1>1. \A x \in K : Pipe(w, x) \in Seq(E) /\ Data(w, x) \in Seq(E) /\ <<Alone(x, 0)>> \in Seq(E)
  <2> TAKE x \in K
  <2>1. x \in TaskKinds \ {"load_checkpoint", "update"} /\ x \notin Compared /\ 0 \in Int
    BY DEF TaskKinds, Compared
  <2> QED BY <2>1, EarlyCall
<1>2. ASSUME NEW n \in Nat
      PROVE  /\ FlattenSeq([i \in 1 .. n |-> Forward(w, i)]) \in Seq(E)
             /\ FlattenSeq([k \in 1 .. n |-> Backward(w, DrainOrder(w, n)[k])]) \in Seq(E)
             /\ FlattenSeq([i \in 1 .. n |-> Forward(w, i) \o When(training, Backward(w, i))]) \in Seq(E)
  <2>1. \A i \in 1 .. n : Forward(w, i) \in Seq(E) /\ Backward(w, i) \in Seq(E)
    BY MicroCalls
  <2>2. \A k \in 1 .. n : DrainOrder(w, n)[k] \in Int
    BY DEF DrainOrder
  <2>3. \A k \in 1 .. n : Backward(w, DrainOrder(w, n)[k]) \in Seq(E)
    BY <2>2, MicroCalls
  <2>4. \A i \in 1 .. n : Forward(w, i) \o When(training, Backward(w, i)) \in Seq(E)
    <3> TAKE i \in 1 .. n
    <3>1. When(training, Backward(w, i)) \in Seq(E)
      BY <2>1, WhenCalls
    <3> QED BY <2>1, <3>1
  <2> DEFINE f == [i \in 1 .. n |-> Forward(w, i)]
             g == [k \in 1 .. n |-> Backward(w, DrainOrder(w, n)[k])]
             h == [i \in 1 .. n |-> Forward(w, i) \o When(training, Backward(w, i))]
  <2>5. f \in Seq(Seq(E)) /\ g \in Seq(Seq(E)) /\ h \in Seq(Seq(E))
    BY <2>1, <2>3, <2>4
  <2> HIDE DEF f, g, h
  <2>6. FlattenSeq(f) \in Seq(E) /\ FlattenSeq(g) \in Seq(E) /\ FlattenSeq(h) \in Seq(E)
    BY <2>5, FlattenIsSeq
  <2> QED BY <2>6 DEF f, g, h
<1>3. ASSUME NEW n \in Nat PROVE QABatch(w, n, training) \in Seq(E)
  <2> DEFINE a == Pipe(w, "header")
             b == Pipe(w, "values")
             c == When(training, Data(w, "count"))
             d == FlattenSeq([i \in 1 .. n |-> Forward(w, i)])
             e == When(training, FlattenSeq([k \in 1 .. n |-> Backward(w, DrainOrder(w, n)[k])]))
             f == When(Final(w) /\ training, Data(w, "loss"))
             g == Pipe(w, "report")
             h == When(~training, Pipe(w, "logits"))
  <2>1. a \in Seq(E) /\ b \in Seq(E) /\ d \in Seq(E) /\ g \in Seq(E)
    BY <1>1, <1>2
  <2>2. c \in Seq(E) /\ e \in Seq(E) /\ f \in Seq(E) /\ h \in Seq(E)
    BY <1>1, <1>2, WhenCalls
  <2>3. QABatch(w, n, training) = a \o b \o c \o d \o e \o f \o g \o h
    BY DEF QABatch
  <2> HIDE DEF E, a, b, c, d, e, f, g, h
  <2>4. a \o b \o c \o d \in Seq(E)
    BY <2>1, <2>2
  <2>5. a \o b \o c \o d \o e \o f \in Seq(E)
    BY <2>2, <2>4
  <2> QED BY <2>1, <2>2, <2>3, <2>5
<1>4. ASSUME NEW n \in Nat PROVE MT5Batch(w, n, training) \in Seq(E)
  <2> DEFINE a == Pipe(w, "header")
             b == <<Alone("tokens", 0)>>
             c == Data(w, "count")
             d == Pipe(w, "mask")
             e == FlattenSeq([i \in 1 .. n |-> Forward(w, i) \o When(training, Backward(w, i))])
             f == Pipe(w, "report")
             g == Data(w, "loss")
  <2>1. a \in Seq(E) /\ b \in Seq(E) /\ c \in Seq(E) /\ d \in Seq(E) /\ e \in Seq(E) /\ f \in Seq(E) /\ g \in Seq(E)
    BY <1>1, <1>2
  <2>2. MT5Batch(w, n, training) = a \o b \o c \o d \o e \o f \o g
    BY DEF MT5Batch
  <2> HIDE DEF E, a, b, c, d, e, f, g
  <2>3. a \o b \o c \o d \in Seq(E)
    BY <2>1
  <2> QED BY <2>1, <2>2, <2>3
<1>5. job.micros \in Nat /\ 1 \in Nat
  BY TaskAssumption
<1> DEFINE l == <<Alone("load", 0)>>
           m == IF job.task = "qa" THEN QABatch(w, IF training THEN job.micros ELSE 1, training)
                ELSE MT5Batch(w, job.micros, training)
<1>6. l \in Seq(E) /\ m \in Seq(E)
  BY <1>1, <1>3, <1>4, <1>5
<1>7. Batch(w, training) = l \o m
  BY DEF Batch
<1> HIDE DEF E, l, m
<1> QED BY <1>6, <1>7 DEF E

LEMMA TrainingStepCalls ==
  ASSUME job \in Jobs, NEW w \in World
  PROVE  TrainingStep(w) \in Seq(RunCalls)
<1> DEFINE R == RunCalls
           a == Batch(w, TRUE)
           b == Data(w, "gradients")
           c == Pipe(w, "norm")
           d == <<Alone("update", 0)>>
           e == When(job.task = "qa", All("collect") \o All("collect"))
<1>1. \A x \in {"gradients", "norm", "collect"} : x \in TaskKinds \ {"load_checkpoint", "update"} /\ x \notin Compared
  BY DEF TaskKinds, Compared
<1>2. b \in Seq(EarlyCalls) /\ c \in Seq(EarlyCalls) /\ All("collect") \in Seq(EarlyCalls)
  <2>1. 0 \in Int
    OBVIOUS
  <2> QED BY <1>1, <2>1, EarlyCall
<1>3. e \in Seq(EarlyCalls)
  <2> DEFINE x == All("collect")
  <2>1. x \in Seq(EarlyCalls)
    BY <1>2
  <2> HIDE DEF x
  <2>2. x \o x \in Seq(EarlyCalls)
    BY <2>1
  <2>3. e = When(job.task = "qa", x \o x)
    BY DEF x
  <2> QED BY <2>2, <2>3, WhenCalls
<1>4. d \in Seq(R)
  <2>1. Alone("update", 0) \in R
    BY DEF Alone, Call, RunCalls, TaskCalls, TaskKinds, Compared
  <2> QED BY <2>1, SingleCall
<1>5. a \in Seq(EarlyCalls)
  BY BatchCalls
<1>6. TrainingStep(w) = a \o b \o c \o d \o e
  BY DEF TrainingStep
<1> HIDE DEF R, a, b, c, d, e
<1>7. a \in Seq(R) /\ b \in Seq(R) /\ c \in Seq(R) /\ e \in Seq(R)
  BY <1>2, <1>3, <1>5, TaskCallSets DEF R
<1>8. a \o b \o c \o d \o e \in Seq(R)
  BY <1>4, <1>7
<1> QED BY <1>6, <1>8 DEF R

LEMMA BatchesAreNat ==
  ASSUME job \in Jobs, NEW w \in World
  PROVE  Batches(w) \in Nat
<1>1. job.validation \in Nat
  BY TaskAssumption
<1>2. IsFiniteSet(0 .. job.validation - 1)
  BY <1>1, FS_Interval
<1>3. IsFiniteSet(Share(w))
  <2>1. Share(w) \subseteq 0 .. job.validation - 1
    BY DEF Share
  <2> QED BY <1>2, <2>1, FS_Subset
<1> QED BY <1>1, <1>3, FS_CardinalityType DEF Batches

\* The second part of a program: training and validation.
LEMMA RunsCalls ==
  ASSUME job \in Jobs, NEW w \in World, NEW steps \in Nat
  PROVE  /\ FlattenSeq(Times(steps, TrainingStep(w))) \in Seq(RunCalls)
         /\ FlattenSeq(Times(Batches(w), Batch(w, FALSE))) \in Seq(EarlyCalls)
BY TrainingStepCalls, BatchCalls, BatchesAreNat, TimesIsSeq

\* A comparison after calls that do not update seals the program.
LEMMA ComparisonSeals ==
  ASSUME NEW p \in Seq(TaskCalls), Never(p, "update"), NEW what \in Compared, job \in Jobs
  PROVE  p \o All(what) \in Seq(TaskCalls) /\ Sealed(p \o All(what), what, "update")
<1> DEFINE c == Together(what, World)
<1>1. c.what = what /\ what # "update" /\ All(what) = <<c>>
  BY DEF Together, Call, Compared, All
<1>2. c \in TaskCalls
  <2>1. World \subseteq Int
    BY WorldRanks
  <2> QED BY <2>1 DEF Together, Call, TaskCalls, TaskKinds, Compared
<1> HIDE DEF c
<1>3. p \o <<c>> \in Seq(TaskCalls)
  BY <1>2
<1> QED BY <1>1, <1>2, <1>3, SealingCall

LEMMA SealedRest ==
  ASSUME NEW p \in Seq(TaskCalls), NEW q \in Seq(TaskCalls), NEW g, Sealed(p, g, "update")
  PROVE  p \o q \in Seq(TaskCalls) /\ Sealed(p \o q, g, "update")
<1>1. p \o q \in Seq(TaskCalls)
  OBVIOUS
<1> QED BY <1>1, ConcatSealed

LEMMA QAProgramOrder ==
  ASSUME job \in Jobs, NEW w \in World, NEW steps \in Nat
  PROVE  /\ QAProgram(w, steps) \in Seq(RunCalls)
         /\ Guarded(QAProgram(w, steps), "settings", "update") /\ Guarded(QAProgram(w, steps), "lengths", "update")
<1> DEFINE E == EarlyCalls
           T == TaskCalls
           a0 == <<Alone("device", 0)>>
           a1 == All("join")
           a2 == All("groups")
           a3 == All("settings")
           a4 == When(First(w), <<Alone("data", 0)>>)
           a5 == All("data_errors")
           a6 == Pipe(w, "counts")
           a7 == All("lengths")
           a8 == All("run_id")
           a9 == Pipe(w, "hash")
           a10 == All("identities")
           a11 == <<Alone("directory", 0)>>
           a12 == All("collect")
           b == FlattenSeq(Times(steps, TrainingStep(w)))
           c0 == All("wall")
           c1 == Pipe(w, "batches")
           c2 == FlattenSeq(Times(Batches(w), Batch(w, FALSE)))
           c3 == All("gather")
           c4 == When(w = 0, <<Alone("score", 0)>>)
           c5 == All("scores")
           p == a0 \o a1 \o a2
           q == p \o a3 \o a4 \o a5 \o a6
           r == q \o a7 \o a8 \o a9 \o a10 \o a11 \o a12
           s == r \o b \o c0 \o c1 \o c2 \o c3 \o c4 \o c5
<1>1. QAProgram(w, steps) = s
  BY DEF QAProgram
<1>2. \A x \in {"device", "join", "groups", "settings", "data", "data_errors", "counts", "lengths", "run_id", "hash", "identities",
                "directory", "collect", "wall", "batches", "gather", "score", "scores"} :
        /\ x \in TaskKinds \ {"load_checkpoint", "update"} /\ 0 \in Int
        /\ x \notin {"settings", "lengths"} => x \notin Compared
  BY DEF TaskKinds, Compared
<1>3. /\ a0 \in Seq(E) /\ <<Alone("data", 0)>> \in Seq(E) /\ a11 \in Seq(E) /\ <<Alone("score", 0)>> \in Seq(E)
      /\ a6 \in Seq(E) /\ a9 \in Seq(E) /\ c1 \in Seq(E)
  BY <1>2, EarlyCall
<1>4. /\ a1 \in Seq(E) /\ a2 \in Seq(E) /\ a3 \in Seq(E) /\ a5 \in Seq(E) /\ a7 \in Seq(E) /\ a8 \in Seq(E)
      /\ a10 \in Seq(E) /\ a12 \in Seq(E) /\ c0 \in Seq(E) /\ c3 \in Seq(E) /\ c5 \in Seq(E)
  BY <1>2, EarlyCall
<1>5. a4 \in Seq(E) /\ c4 \in Seq(E)
  BY <1>3, WhenCalls
<1>6. b \in Seq(RunCalls) /\ c2 \in Seq(E)
  BY RunsCalls
<1>7. "settings" \in Compared /\ "lengths" \in Compared
  BY DEF Compared
<1>8. \A x \in Seq(E) : x \in Seq(RunCalls) /\ x \in Seq(T) /\ Never(x, "update")
  BY TaskCallSets
<1>9. b \in Seq(T)
  BY <1>6, TaskCallSets
<1> HIDE DEF a0, a1, a2, a3, a4, a5, a6, a7, a8, a9, a10, a11, a12, b, c0, c1, c2, c3, c4, c5
<1>10. p \in Seq(E)
  <2> HIDE DEF E
  <2> QED BY <1>3, <1>4
<1>11. q \in Seq(E)
  <2> HIDE DEF E, p
  <2>1. p \o a3 \o a4 \in Seq(E)
    BY <1>4, <1>5, <1>10
  <2> QED BY <1>3, <1>4, <2>1
<1>12. r \in Seq(E)
  <2> HIDE DEF E, q
  <2>1. q \o a7 \o a8 \o a9 \in Seq(E)
    BY <1>3, <1>4, <1>11
  <2> QED BY <1>3, <1>4, <2>1
<1>13. s \in Seq(RunCalls)
  <2> DEFINE R == RunCalls
  <2>1. /\ r \in Seq(R) /\ b \in Seq(R) /\ c0 \in Seq(R) /\ c1 \in Seq(R) /\ c2 \in Seq(R) /\ c3 \in Seq(R)
        /\ c4 \in Seq(R) /\ c5 \in Seq(R)
    BY <1>3, <1>4, <1>5, <1>6, <1>8, <1>12
  <2> HIDE DEF R, r
  <2>2. r \o b \o c0 \o c1 \in Seq(R)
    BY <2>1
  <2>3. r \o b \o c0 \o c1 \o c2 \o c3 \o c4 \o c5 \in Seq(R)
    BY <2>1, <2>2
  <2> QED BY <2>3 DEF R
\* What comes after the comparison does not matter.
<1>14. ASSUME NEW g \in {"settings", "lengths"}, Sealed(r, g, "update") PROVE Guarded(s, g, "update")
  <2> DEFINE Q == Seq(T)
             S(x) == Sealed(x, g, "update")
  <2>1. \A x, y \in Q : S(x) => S(x \o y) /\ x \o y \in Q
    BY SealedRest
  <2>2. r \in Q /\ b \in Q /\ c0 \in Q /\ c1 \in Q /\ c2 \in Q /\ c3 \in Q /\ c4 \in Q /\ c5 \in Q /\ S(r)
    BY <1>3, <1>4, <1>5, <1>6, <1>8, <1>9, <1>12, <1>14
  <2> HIDE DEF Q, S, r
  <2>3. S(r \o b \o c0 \o c1) /\ r \o b \o c0 \o c1 \in Q
    BY <2>1, <2>2
  <2>4. S(r \o b \o c0 \o c1 \o c2 \o c3 \o c4 \o c5)
    BY <2>1, <2>2, <2>3
  <2> QED BY <2>4 DEF S, Sealed
<1>15. Sealed(r, "lengths", "update")
  <2> DEFINE Q == Seq(T)
             S(x) == Sealed(x, "lengths", "update")
  <2>1. \A x, y \in Q : S(x) => S(x \o y) /\ x \o y \in Q
    BY SealedRest
  <2>2. q \in Q /\ Never(q, "update")
    BY <1>8, <1>11
  <2> HIDE DEF q
  <2>3. S(q \o a7) /\ q \o a7 \in Q
    BY <1>7, <2>2, ComparisonSeals DEF a7
  <2>4. a8 \in Q /\ a9 \in Q /\ a10 \in Q /\ a11 \in Q /\ a12 \in Q
    BY <1>3, <1>4, <1>8
  <2> HIDE DEF Q, S
  <2>5. S(r)
    BY <2>1, <2>3, <2>4
  <2> QED BY <2>5 DEF S
<1>16. Sealed(r, "settings", "update")
  <2> DEFINE Q == Seq(T)
             S(x) == Sealed(x, "settings", "update")
  <2>1. \A x, y \in Q : S(x) => S(x \o y) /\ x \o y \in Q
    BY SealedRest
  <2>2. p \in Q /\ Never(p, "update")
    BY <1>8, <1>10
  <2> HIDE DEF p
  <2>3. S(p \o a3) /\ p \o a3 \in Q
    BY <1>7, <2>2, ComparisonSeals DEF a3
  <2>4. a4 \in Q /\ a5 \in Q /\ a6 \in Q /\ a7 \in Q /\ a8 \in Q /\ a9 \in Q /\ a10 \in Q /\ a11 \in Q /\ a12 \in Q
    BY <1>3, <1>4, <1>5, <1>8
  <2> HIDE DEF Q, S
  <2>5. S(q) /\ q \in Q
    BY <2>1, <2>3, <2>4
  <2> HIDE DEF q
  <2>6. S(r)
    BY <2>1, <2>4, <2>5
  <2> QED BY <2>6 DEF S
<1> HIDE DEF r, s
<1> QED BY <1>1, <1>13, <1>14, <1>15, <1>16

LEMMA MT5ProgramOrder ==
  ASSUME job \in Jobs, NEW w \in World, NEW resume \in BOOLEAN, NEW steps \in Nat
  PROVE  /\ MT5Program(w, resume, steps) \in Seq(TaskCalls)
         /\ Guarded(MT5Program(w, resume, steps), "layout", "update")
         /\ Guarded(MT5Program(w, resume, steps), "signature", "update")
         /\ NeverAfter(MT5Program(w, resume, steps), "signature", "load_checkpoint")
         /\ ~resume => Never(MT5Program(w, resume, steps), "load_checkpoint")
<1> DEFINE E == EarlyCalls
           T == TaskCalls
           a0 == <<Alone("device", 0)>>
           a1 == All("join")
           a2 == All("layout")
           a3 == All("groups")
           a4 == When(First(w), <<Alone("data", 0)>>)
           a5 == When(resume, <<Alone("load_checkpoint", 0)>>)
           a6 == All("signature")
           b0 == All("run_id")
           b1 == FlattenSeq(Times(steps, TrainingStep(w)))
           b2 == Pipe(w, "batches")
           b3 == FlattenSeq(Times(Batches(w), Batch(w, FALSE)))
           b4 == <<Alone("save", 0)>>
           b5 == All("barrier")
           p == a0 \o a1
           q == p \o a2
           r == q \o a3 \o a4 \o a5
           s == r \o a6 \o b0 \o b1 \o b2 \o b3 \o b4 \o b5
<1>1. MT5Program(w, resume, steps) = s
  BY DEF MT5Program
<1>2. \A x \in {"device", "join", "layout", "groups", "data", "signature", "run_id", "batches", "save", "barrier"} :
        /\ x \in TaskKinds \ {"load_checkpoint", "update"} /\ 0 \in Int
        /\ x \notin {"layout", "signature"} => x \notin Compared
  BY DEF TaskKinds, Compared
<1>3. a0 \in Seq(E) /\ <<Alone("data", 0)>> \in Seq(E) /\ b2 \in Seq(E) /\ b4 \in Seq(E)
  BY <1>2, EarlyCall
<1>4. a1 \in Seq(E) /\ a2 \in Seq(E) /\ a3 \in Seq(E) /\ a6 \in Seq(E) /\ b0 \in Seq(E) /\ b5 \in Seq(E)
  BY <1>2, EarlyCall
<1>5. a4 \in Seq(E)
  BY <1>3, WhenCalls
<1>6. b1 \in Seq(RunCalls) /\ b3 \in Seq(E)
  BY RunsCalls
<1>7. a5 \in Seq(T) /\ Never(a5, "update") /\ Never(a5, "signature") /\ (~resume => Never(a5, "load_checkpoint"))
  <2>1. Alone("load_checkpoint", 0) \in T
    BY DEF Alone, Call, TaskCalls, TaskKinds, Compared
  <2>2. <<Alone("load_checkpoint", 0)>> \in Seq(T)
    BY <2>1, SingleCall
  <2>3. Never(<<Alone("load_checkpoint", 0)>>, "update") /\ Never(<<Alone("load_checkpoint", 0)>>, "signature")
    BY DEF Never, Alone, Call
  <2> DEFINE x == <<Alone("load_checkpoint", 0)>>
  <2>4. x \in Seq(T) /\ Never(x, "update") /\ Never(x, "signature")
    BY <2>2, <2>3
  <2> HIDE DEF x
  <2>5. When(resume, x) = IF resume THEN x ELSE <<>>
    BY DEF When
  <2>6. When(resume, x) \in Seq(T)
    BY <2>4, WhenCalls
  <2>7. CASE resume
    <3>1. a5 = x
      BY <2>5, <2>7 DEF x
    <3> QED BY <2>4, <2>7, <3>1
  <2>8. CASE ~resume
    <3>1. a5 = <<>>
      BY <2>5, <2>8 DEF x
    <3> QED BY <2>6, <2>8, <3>1, EmptyProgram DEF x
  <2> QED BY <2>7, <2>8
<1>8. \A x \in Seq(E) : x \in Seq(RunCalls) /\ x \in Seq(T) /\ Never(x, "update") /\ Never(x, "load_checkpoint")
  BY TaskCallSets
<1>9. b1 \in Seq(T) /\ Never(b1, "load_checkpoint")
  BY <1>6, TaskCallSets
<1>10. "layout" \in Compared /\ "signature" \in Compared /\ Never(a0, "signature") /\ Never(a1, "signature")
       /\ Never(a2, "signature") /\ Never(a3, "signature") /\ Never(a4, "signature")
  BY DEF Compared, Never, Alone, All, Together, Call, When
<1> HIDE DEF a0, a1, a2, a3, a4, a5, a6, b0, b1, b2, b3, b4, b5
<1> DEFINE Q == Seq(T)
<1>11. /\ a0 \in Q /\ a1 \in Q /\ a2 \in Q /\ a3 \in Q /\ a4 \in Q /\ a5 \in Q /\ a6 \in Q
       /\ b0 \in Q /\ b1 \in Q /\ b2 \in Q /\ b3 \in Q /\ b4 \in Q /\ b5 \in Q
  BY <1>3, <1>4, <1>5, <1>6, <1>7, <1>8, <1>9
<1>12. \A x, y \in Q : x \o y \in Q
  OBVIOUS
<1>13. \A x, y \in Q : \A u : Never(x, u) /\ Never(y, u) => Never(x \o y, u)
  BY ConcatNever
<1>14. p \in Q /\ Never(p, "update") /\ Never(p, "signature") /\ Never(p, "load_checkpoint")
  <2>1. Never(a0, "update") /\ Never(a1, "update") /\ Never(a0, "load_checkpoint") /\ Never(a1, "load_checkpoint")
    BY <1>3, <1>4, <1>8
  <2> HIDE DEF Q
  <2> QED BY <1>10, <1>11, <1>12, <1>13, <2>1
<1>15. q \in Q /\ Sealed(q, "layout", "update") /\ Never(q, "update") /\ Never(q, "signature") /\ Never(q, "load_checkpoint")
  <2>1. Never(a2, "update") /\ Never(a2, "load_checkpoint")
    BY <1>4, <1>8
  <2> HIDE DEF p
  <2>2. q \in Q /\ Sealed(q, "layout", "update")
    BY <1>10, <1>14, ComparisonSeals DEF a2
  <2> QED BY <1>10, <1>11, <1>13, <1>14, <2>1, <2>2
<1>16. r \in Q /\ Never(r, "update") /\ Never(r, "signature") /\ (~resume => Never(r, "load_checkpoint"))
  <2>1. Never(a3, "update") /\ Never(a4, "update") /\ Never(a3, "load_checkpoint") /\ Never(a4, "load_checkpoint")
    BY <1>4, <1>5, <1>8
  <2> HIDE DEF Q, q
  <2>2. q \o a3 \o a4 \in Q /\ q \o a3 \in Q
    BY <1>11, <1>12, <1>15
  <2>3. \A u \in {"update", "signature", "load_checkpoint"} : Never(q \o a3 \o a4, u)
    <3> TAKE u \in {"update", "signature", "load_checkpoint"}
    <3>1. Never(q, u) /\ Never(a3, u) /\ Never(a4, u)
      BY <1>10, <1>15, <2>1
    <3>2. Never(q \o a3, u)
      BY <1>11, <1>13, <1>15, <3>1
    <3> QED BY <1>11, <1>13, <2>2, <3>1, <3>2
  <2> DEFINE t == q \o a3 \o a4
  <2>4. t \in Q /\ Never(t, "update") /\ Never(t, "signature") /\ Never(t, "load_checkpoint") /\ r = t \o a5
    BY <2>2, <2>3
  <2> HIDE DEF t
  <2>5. r \in Q
    BY <1>11, <1>12, <2>4
  <2> QED BY <1>7, <1>11, <1>13, <2>4, <2>5
<1>17. \A g : \A x, y \in Q : Sealed(x, g, "update") => Sealed(x \o y, g, "update")
  BY SealedRest
<1>18. Guarded(s, "signature", "update")
  <2> DEFINE S(x) == Sealed(x, "signature", "update")
  <2> HIDE DEF r
  <2>1. r \o a6 \in Q /\ S(r \o a6)
    BY <1>10, <1>16, ComparisonSeals DEF a6
  <2>2. \A x, y \in Q : S(x) => S(x \o y)
    BY <1>17
  <2> HIDE DEF Q, S
  <2>3. S(r \o a6 \o b0 \o b1) /\ r \o a6 \o b0 \o b1 \in Q
    BY <1>11, <1>12, <2>1, <2>2
  <2>4. S(s)
    BY <1>11, <1>12, <2>2, <2>3
  <2> QED BY <2>4 DEF S, Sealed
<1>19. Guarded(s, "layout", "update")
  <2> DEFINE S(x) == Sealed(x, "layout", "update")
  <2>1. \A x, y \in Q : S(x) => S(x \o y)
    BY <1>17
  <2>2. S(q)
    BY <1>15
  <2> HIDE DEF Q, S, q
  <2>3. S(r)
    BY <1>11, <1>12, <1>15, <2>1, <2>2
  <2> HIDE DEF r
  <2>4. S(r \o a6 \o b0 \o b1) /\ r \o a6 \o b0 \o b1 \in Q
    BY <1>11, <1>12, <1>16, <2>1, <2>3
  <2>5. S(s)
    BY <1>11, <1>12, <2>1, <2>4
  <2> QED BY <2>5 DEF S, Sealed
<1>20. /\ Never(a6, "load_checkpoint") /\ Never(b0, "load_checkpoint") /\ Never(b2, "load_checkpoint")
       /\ Never(b3, "load_checkpoint") /\ Never(b4, "load_checkpoint") /\ Never(b5, "load_checkpoint")
  BY <1>3, <1>4, <1>6, <1>8
<1>21. ~resume => Never(s, "load_checkpoint")
  <2> DEFINE N(x) == Never(x, "load_checkpoint")
  <2>1. \A x, y \in Q : N(x) /\ N(y) => N(x \o y)
    BY <1>13
  <2>2. N(a6) /\ N(b0) /\ N(b1) /\ N(b2) /\ N(b3) /\ N(b4) /\ N(b5) /\ (~resume => N(r))
    BY <1>9, <1>16, <1>20
  <2> HIDE DEF Q, N, r
  <2>3. r \o a6 \o b0 \o b1 \in Q /\ (~resume => N(r \o a6 \o b0 \o b1))
    BY <1>11, <1>12, <1>16, <2>1, <2>2
  <2>4. ~resume => N(s)
    BY <1>11, <1>12, <2>1, <2>2, <2>3
  <2> QED BY <2>4 DEF N
<1>22. NeverAfter(s, "signature", "load_checkpoint")
  <2> DEFINE A(x) == NeverAfter(x, "signature", "load_checkpoint")
             N(x) == Never(x, "load_checkpoint")
  <2>1. \A x, y \in Q : A(x) /\ N(y) => A(x \o y)
    BY ConcatNeverAfter
  <2>2. N(a6) /\ N(b0) /\ N(b1) /\ N(b2) /\ N(b3) /\ N(b4) /\ N(b5)
    BY <1>9, <1>20
  <2> HIDE DEF r
  <2>3. A(r)
    BY <1>16, NeverNeverAfter
  <2> HIDE DEF Q, A, N
  <2>4. r \o a6 \o b0 \o b1 \in Q /\ A(r \o a6 \o b0 \o b1)
    BY <1>11, <1>12, <1>16, <2>1, <2>2, <2>3
  <2>5. A(s)
    BY <1>11, <1>12, <2>1, <2>2, <2>4
  <2> QED BY <2>5 DEF A
<1>23. s \in Q
  <2> HIDE DEF Q, r
  <2>1. r \o a6 \o b0 \o b1 \in Q
    BY <1>11, <1>12, <1>16
  <2> QED BY <1>11, <1>12, <2>1
<1> HIDE DEF r, s
<1> QED BY <1>1, <1>18, <1>19, <1>21, <1>22, <1>23

------------------------------------------------------------------------------
(* Steps of the task runners.                                               *)

TaskShape == job \in Jobs /\ todo \in [World -> Seq(TaskCalls)]

TaskTypes ==
  /\ DOMAIN mem = World /\ DOMAIN saved = World
  /\ \A w \in World :
       /\ {"start", "step"} \subseteq DOMAIN mem[w]
       /\ mem[w].start.step \in Nat /\ saved[w].step \in Nat
  /\ launch.settings \in {"same", "model", "dataset"} /\ launch.steps \in Nat

\* All ranks leave the comparison of the checkpoints.
SignedOff ==
  /\ mem' = mem
  /\ \A r \in World : todo[r] # <<>> /\ Head(todo[r]).what = "signature" /\ todo'[r] = Tail(todo[r])

\* Going on, with no comparison passed that has to raise.
Proceeds(W) ==
  /\ todo' \in [World -> Seq(TaskCalls)] /\ \A r \in World : GoesOn(r, W)
  /\ \A x \in W \cap Compared : ~Refused(x)
  /\ "signature" \in W => SignedOff

LEMMA PopProceeds ==
  ASSUME TaskShape, NEW G, NEW W, todo' = Popped(G), \A x \in W \cap Compared : ~Refused(x),
         "signature" \in W => SignedOff,
         \A r \in G \cap World :
           todo[r] # <<>> /\ (Head(todo[r]).what \in W \/ Head(todo[r]).do \in {"send", "recv"})
  PROVE  Proceeds(W)
BY PoppedGoesOn DEF TaskShape, Proceeds

LEMMA RaiseProceeds ==
  ASSUME TaskShape, NEW G, Raise(G)
  PROVE  Proceeds({})
<1>1. todo' \in [World -> Seq(TaskCalls)] /\ \A r \in World : GoesOn(r, {})
  BY RaisedGoesOn DEF TaskShape
<1> QED BY <1>1 DEF Proceeds

LEMMA WorkProceeds ==
  ASSUME TaskShape, NEW w \in World, NEW what, what \notin Compared, Work(w, what), Leave({w})
  PROVE  Proceeds({what})
<1>1. \A r \in {w} \cap World : todo[r] # <<>> /\ Head(todo[r]).what = what
  BY DEF Work, At, Current
<1>2. todo' = Popped({w}) /\ (\A x \in {what} \cap Compared : ~Refused(x)) /\ "signature" \notin {what}
  BY DEF Leave, Compared
<1> QED BY <1>1, <1>2, PopProceeds

LEMMA JointProceeds ==
  ASSUME TaskShape, NEW w \in World, Gathered(w), Leave(Members(w)),
         Current(w).what \in Compared => ~Refused(Current(w).what) /\ UNCHANGED mem
  PROVE  Proceeds({Current(w).what})
<1> DEFINE G == Members(w)
           what == Current(w).what
<1>1. \A r \in G \cap World : todo[r] # <<>> /\ Head(todo[r]).what = what
  BY DEF Gathered, Current, Members
<1>2. todo' = Popped(G) /\ \A x \in {what} \cap Compared : ~Refused(x)
  BY DEF Leave
<1>3. ASSUME what = "signature" PROVE SignedOff
  <2>1. Current(w) \in TaskCalls
    BY TailDrops DEF TaskShape, Gathered, At, Current
  <2>2. G = World /\ mem' = mem
    BY <1>3, <2>1 DEF TaskCalls, Compared, Members
  <2>3. todo' = [r \in World |-> Tail(todo[r])]
    BY <1>2, <2>2 DEF Popped, Peers, TaskShape
  <2> QED BY <1>1, <1>3, <2>2, <2>3 DEF SignedOff
<1> HIDE DEF G, what
<1>4. Proceeds({what})
  BY <1>1, <1>2, <1>3, PopProceeds
<1> QED BY <1>4 DEF what

\* A step pops calls, or raises; it keeps what was loaded and the count of
\* steps, but for the update and the load of a checkpoint.
MemSame(v) ==
  /\ mem'[v].start = mem[v].start /\ mem'[v].step = mem[v].step
  /\ {"start", "step"} \subseteq DOMAIN mem'[v]
MemKept == DOMAIN mem' = World /\ \A v \in World : MemSame(v)

LEMMA IdleKeepsMem ==
  ASSUME TaskTypes, UNCHANGED mem
  PROVE  MemKept
BY DEF TaskTypes, MemKept, MemSame

LEMMA ReceivedKeepsMem ==
  ASSUME TaskTypes, NEW v \in World, NEW data, Received(v, data)
  PROVE  MemKept
<1>1. CASE mem' = [mem EXCEPT ![v].act[Current(v).slot] = data]
  BY <1>1 DEF TaskTypes, MemKept, MemSame
<1>2. CASE mem' = [mem EXCEPT ![v].out[Current(v).slot] = data]
  BY <1>2 DEF TaskTypes, MemKept, MemSame
<1> QED BY <1>1, <1>2 DEF Received

LEMMA TransferStep ==
  ASSUME TaskShape, TaskTypes, NEW w \in World, NEW v \in World,
         Exchange(w, v) \/ Sending(w, v) \/ Receiving(w, v)
  PROVE  Proceeds({}) /\ MemKept /\ UNCHANGED <<job, launch, saved>>
<1>1. CASE Exchange(w, v)
  <2>1. Pass(w, v) /\ Received(v, Payload(w)) /\ UNCHANGED <<job, launch, saved>>
    BY <1>1 DEF Exchange
  <2>2. \A r \in {w, v} \cap World : todo[r] # <<>> /\ Head(todo[r]).do \in {"send", "recv"}
    BY <2>1 DEF Pass, At
  <2>3. todo' = Popped({w, v})
    BY <2>1 DEF Pass, Leave
  <2> QED BY <2>1, <2>2, <2>3, PopProceeds, ReceivedKeepsMem
<1>2. CASE Sending(w, v)
  <2>1. Post(w, v, Payload(w)) /\ UNCHANGED <<job, launch, saved, mem>>
    BY <1>2 DEF Sending, taskVars
  <2>2. todo' = Popped({w}) /\ \A r \in {w} \cap World : todo[r] # <<>> /\ Head(todo[r]).do \in {"send", "recv"}
    BY <2>1 DEF Post, At
  <2> QED BY <2>1, <2>2, PopProceeds, IdleKeepsMem
<1>3. CASE Receiving(w, v)
  <2>1. Take(w, v) /\ Received(w, Head(wire[v][w])) /\ UNCHANGED <<job, launch, saved>>
    BY <1>3 DEF Receiving
  <2>2. todo' = Popped({w}) /\ \A r \in {w} \cap World : todo[r] # <<>> /\ Head(todo[r]).do \in {"send", "recv"}
    BY <2>1 DEF Take, Arrives, At
  <2> QED BY <2>1, <2>2, PopProceeds, ReceivedKeepsMem
<1> QED BY <1>1, <1>2, <1>3

\* Work of a rank's own, but for the update and the load of a checkpoint.
OwnWork(w) ==
  \/ LoadBatch(w) \/ AddLoss(w) \/ ComputeGradient(w) \/ CheckTokens(w) \/ SaveCheckpoint(w) \/ Prepare(w)
  \/ CaughtFailure(w) \/ Failure(w) \/ GiveUp(w)

LEMMA OwnWorkStep ==
  ASSUME TaskShape, TaskTypes, NEW w \in World, OwnWork(w)
  PROVE  (\E W : Proceeds(W) /\ "load_checkpoint" \notin W) /\ MemKept /\ UNCHANGED <<job, launch>> /\ (saved' = saved \/ SaveCheckpoint(w))
<1>1. \A what \in {"load", "loss", "backward", "tokens", "save", "device", "data", "directory", "score"} :
        what \notin Compared /\ what # "load_checkpoint"
  BY DEF Compared
<1>2. ASSUME NEW what \in {"load", "loss", "backward", "tokens", "save", "device", "data", "directory", "score"},
             Work(w, what), Leave({w})
      PROVE  Proceeds({what}) /\ "load_checkpoint" \notin {what}
  BY <1>1, <1>2, WorkProceeds
<1>3. CASE LoadBatch(w)
  <2>1. MemKept
    BY <1>3 DEF LoadBatch, TaskTypes, MemKept, MemSame
  <2> QED BY <1>2, <1>3, <2>1 DEF LoadBatch, Own
<1>4. CASE AddLoss(w)
  <2>1. MemKept
    BY <1>4 DEF AddLoss, TaskTypes, MemKept, MemSame
  <2> QED BY <1>2, <1>4, <2>1 DEF AddLoss, Own
<1>5. CASE ComputeGradient(w)
  <2>1. PICK i, g : mem' = [mem EXCEPT ![w].grad = Added(@, g), ![w].out[i] = g]
    BY <1>5 DEF ComputeGradient
  <2>2. MemKept
    BY <2>1 DEF TaskTypes, MemKept, MemSame
  <2> QED BY <1>2, <1>5, <2>2 DEF ComputeGradient, Own
<1>6. CASE CheckTokens(w)
  <2>1. Work(w, "tokens") /\ UNCHANGED <<job, launch, mem, saved>> /\ (Raise({w}) \/ Leave({w}))
    BY <1>6 DEF CheckTokens, taskVars
  <2> QED BY <1>2, <2>1, RaiseProceeds, IdleKeepsMem
<1>7. CASE SaveCheckpoint(w)
  BY <1>2, <1>7, IdleKeepsMem DEF SaveCheckpoint, Own
<1>8. CASE Prepare(w)
  <2>1. PICK what \in {"device", "data", "directory", "score"} : Own(w, what)
    BY <1>8 DEF Prepare
  <2>2. UNCHANGED <<mem, saved>>
    BY <1>8 DEF Prepare
  <2> QED BY <1>2, <2>1, <2>2, IdleKeepsMem DEF Own
<1>9. CASE CaughtFailure(w)
  <2>1. PICK what \in {"data", "directory", "score"} : Work(w, what)
    BY <1>9 DEF CaughtFailure
  <2>2. Leave({w}) /\ mem' = [mem EXCEPT ![w].error = TRUE] /\ UNCHANGED <<job, launch, saved>>
    BY <1>9 DEF CaughtFailure
  <2>3. MemKept
    BY <2>2 DEF TaskTypes, MemKept, MemSame
  <2> QED BY <1>2, <2>1, <2>2, <2>3
<1>10. CASE Failure(w)
  BY <1>10, RaiseProceeds, IdleKeepsMem DEF Failure
<1>11. CASE GiveUp(w)
  BY <1>11, RaiseProceeds, IdleKeepsMem DEF GiveUp, Desert, taskVars
<1> QED BY <1>3, <1>4, <1>5, <1>6, <1>7, <1>8, <1>9, <1>10, <1>11 DEF OwnWork

\* Collectives that compute something.
JointWork(w) ==
  \/ ShareCount(w) \/ ReduceGradients(w) \/ ReduceNorm(w) \/ ReduceLoss(w) \/ ReportLoss(w)
  \/ TakeLogits(w) \/ GatherAnswers(w) \/ TakeRunId(w)

LEMMA JointWorkStep ==
  ASSUME TaskShape, TaskTypes, NEW w \in World, JointWork(w)
  PROVE  (\E W : Proceeds(W) /\ "load_checkpoint" \notin W) /\ MemKept /\ UNCHANGED <<job, launch, saved>>
<1>1. ASSUME NEW what \in Effective, Joint(w, what), JointDone(w)
      PROVE  (\E W : Proceeds(W) /\ "load_checkpoint" \notin W) /\ UNCHANGED <<job, launch, saved>>
  <2>1. /\ Gathered(w) /\ Leave(Members(w)) /\ UNCHANGED <<job, launch, saved>>
        /\ Current(w).what \notin Compared /\ "load_checkpoint" \notin {Current(w).what}
    BY <1>1 DEF Joint, JointDone, Effective, Compared
  <2>2. Proceeds({Current(w).what})
    BY <2>1, JointProceeds
  <2> QED BY <2>1, <2>2
<1>2. {"count", "gradients", "norm", "loss", "report", "logits", "gather", "run_id"} = Effective
  BY DEF Effective
<1>3. CASE ShareCount(w)
  <2>1. MemKept
    BY <1>3 DEF ShareCount, Each, TaskTypes, MemKept, MemSame
  <2> QED BY <1>1, <1>2, <1>3, <2>1 DEF ShareCount
<1>4. CASE ReduceGradients(w)
  <2>1. MemKept
    BY <1>4 DEF ReduceGradients, Each, TaskTypes, MemKept, MemSame
  <2> QED BY <1>1, <1>2, <1>4, <2>1 DEF ReduceGradients
<1>5. CASE ReduceNorm(w)
  <2>1. MemKept
    BY <1>5 DEF ReduceNorm, Each, TaskTypes, MemKept, MemSame
  <2> QED BY <1>1, <1>2, <1>5, <2>1 DEF ReduceNorm
<1>6. CASE ReduceLoss(w)
  <2>1. MemKept
    BY <1>6 DEF ReduceLoss, Each, TaskTypes, MemKept, MemSame
  <2> QED BY <1>1, <1>2, <1>6, <2>1 DEF ReduceLoss
<1>7. CASE ReportLoss(w)
  <2>1. MemKept
    BY <1>7 DEF ReportLoss, Each, TaskTypes, MemKept, MemSame
  <2> QED BY <1>1, <1>2, <1>7, <2>1 DEF ReportLoss
<1>8. CASE TakeLogits(w)
  <2>1. MemKept
    BY <1>8 DEF TakeLogits, Each, TaskTypes, MemKept, MemSame
  <2> QED BY <1>1, <1>2, <1>8, <2>1 DEF TakeLogits
<1>9. CASE GatherAnswers(w)
  <2>1. MemKept
    BY <1>9 DEF GatherAnswers, Each, TaskTypes, MemKept, MemSame
  <2> QED BY <1>1, <1>2, <1>9, <2>1 DEF GatherAnswers
<1>10. CASE TakeRunId(w)
  <2>1. MemKept
    BY <1>10 DEF TakeRunId, Each, TaskTypes, MemKept, MemSame
  <2> QED BY <1>1, <1>2, <1>10, <2>1 DEF TakeRunId
<1> QED BY <1>3, <1>4, <1>5, <1>6, <1>7, <1>8, <1>9, <1>10 DEF JointWork

LEMMA AgreeStep ==
  ASSUME TaskShape, TaskTypes, NEW w \in World, Agree(w)
  PROVE  (\E W : Proceeds(W) /\ "load_checkpoint" \notin W) /\ MemKept /\ UNCHANGED <<job, launch, saved>>
<1>1. Gathered(w) /\ UNCHANGED <<job, launch, saved, mem>>
  BY DEF Agree, taskVars
<1>2. CASE Refused(Current(w).what)
  BY <1>1, <1>2, RaiseProceeds, IdleKeepsMem DEF Agree
<1>3. CASE ~Refused(Current(w).what)
  <2>1. "load_checkpoint" \notin {Current(w).what}
    <3>1. Current(w) \in TaskCalls /\ Current(w).do = "meet"
      BY <1>1, TailDrops DEF TaskShape, Gathered, At, Current
    <3> QED BY <3>1 DEF TaskCalls
  <2>2. Proceeds({Current(w).what})
    BY <1>1, <1>3, JointProceeds DEF Agree
  <2> QED BY <1>1, <2>1, <2>2, IdleKeepsMem
<1> QED BY <1>2, <1>3


------------------------------------------------------------------------------
(* All train as one: the inductive invariant.                               *)

\* What the ranks were told has to be refused, by this comparison.
Doubt == launch.settings = "model" \/ (job.task = "qa" /\ launch.settings = "dataset")
Comparison ==
  IF launch.settings = "model" THEN IF job.task = "qa" THEN "settings" ELSE "layout" ELSE "lengths"

\* Nobody is past a comparison, and nobody has updated.
Quiet(w) == mem[w].step = mem[w].start.step
Before(what) == \A w \in World : Quiet(w) /\ Guarded(todo[w], what, "update")

\* All have the same start, and will keep it.
SameStart ==
  /\ \A u, v \in World : mem[u].start = mem[v].start
  /\ \A w \in World : Never(todo[w], "load_checkpoint")

TaskInv ==
  /\ TaskShape /\ TaskTypes
  /\ Doubt => Before(Comparison)
  /\ Before("signature") \/ SameStart
  /\ \A w \in World : NeverAfter(todo[w], "signature", "load_checkpoint")

\* What a step may do to a rank's state.
AtCall(v, what) == todo[v] # <<>> /\ Head(todo[v]).what = what
MemMoves(v) ==
  \/ mem'[v].start = mem[v].start /\ (mem'[v].step = mem[v].step \/ AtCall(v, "update"))
  \/ AtCall(v, "load_checkpoint") /\ Quiet(v)'

LEMMA ProceedsKeeps ==
  ASSUME TaskShape, NEW W, Proceeds(W), NEW r \in World
  PROVE  /\ \A u : Never(todo[r], u) => Never(todo'[r], u)
         /\ \A g, u : NeverAfter(todo[r], g, u) => NeverAfter(todo'[r], g, u)
         /\ \A g \in Compared \ W : \A u : Guarded(todo[r], g, u) => Guarded(todo'[r], g, u)
<1>1. todo[r] \in Seq(TaskCalls) /\ todo'[r] \in Seq(TaskCalls) /\ GoesOn(r, W)
  BY DEF TaskShape, Proceeds
<1>2. \A g \in Compared : \A c \in TaskCalls : c.what = g => c.do \notin {"send", "recv"}
  BY DEF TaskCalls
<1> QED BY <1>1, <1>2, OnwardKeeps

LEMMA MovesKeepInv ==
  ASSUME TaskInv, NEW W, Proceeds(W), UNCHANGED <<job, launch>>, TaskTypes', \A v \in World : MemMoves(v)
  PROVE  TaskInv'
<1>0. /\ job' = job /\ launch' = launch /\ World' = World /\ TaskCalls' = TaskCalls /\ TaskShape /\ TaskTypes
      /\ \A r \in World : todo[r] \in Seq(TaskCalls)
  BY DEF World, TaskCalls, TaskInv, TaskShape
<1>1. TaskShape'
  BY <1>0 DEF TaskShape, Proceeds
<1>2. \A w \in World : NeverAfter(todo'[w], "signature", "load_checkpoint")
  BY <1>0, ProceedsKeeps DEF TaskInv
<1>3. ASSUME NEW what \in Compared \ W, Before(what) PROVE Before(what)'
  <2> SUFFICES ASSUME NEW r \in World PROVE Quiet(r)' /\ Guarded(todo'[r], what, "update")
    BY <1>0 DEF Before
  <2>1. Quiet(r) /\ Guarded(todo[r], what, "update")
    BY <1>3 DEF Before
  <2>2. Guarded(todo'[r], what, "update")
    BY <1>0, <2>1, ProceedsKeeps
  <2>3. ~AtCall(r, "update")
    <3> SUFFICES ASSUME todo[r] # <<>> PROVE Head(todo[r]).what # "update"
      BY DEF AtCall
    <3>1. todo[r] \in Seq(TaskCalls)
      BY <1>0
    <3> QED BY <2>1, <3>1, HeadFacts
  <2>4. Quiet(r)'
    BY <2>1, <2>3 DEF MemMoves, Quiet
  <2> QED BY <2>2, <2>4
<1>4. Doubt' => Before(Comparison)'
  <2> SUFFICES ASSUME Doubt PROVE Before(Comparison)'
    BY <1>0 DEF Doubt
  <2>1. Before(Comparison) /\ Comparison' = Comparison
    BY <1>0 DEF TaskInv, Comparison
  <2>2. Comparison \in Compared
    BY DEF Compared, Comparison
  <2>3. Refused(Comparison)
    BY DEF Refused, Doubt, Comparison
  <2>4. Comparison \notin W
    BY <2>2, <2>3 DEF Proceeds
  <2> DEFINE c == Comparison
  <2>5. c \in Compared \ W /\ Before(c)
    BY <2>1, <2>2, <2>4
  <2>6. Before(c)'
    <3>1. c' = c
      BY <2>1
    <3> HIDE DEF c
    <3>2. \A r \in World : Quiet(r)' /\ Guarded(todo'[r], c, "update")
      <4> TAKE r \in World
      <4>1. Quiet(r) /\ Guarded(todo[r], c, "update") /\ todo[r] \in Seq(TaskCalls)
        BY <1>0, <2>5 DEF Before
      <4>2. Guarded(todo'[r], c, "update")
        BY <1>0, <2>5, <4>1, ProceedsKeeps
      <4>3. ~AtCall(r, "update")
        BY <4>1, HeadFacts DEF AtCall
      <4> QED BY <4>1, <4>2, <4>3 DEF MemMoves, Quiet
    <3> QED BY <1>0, <3>1, <3>2 DEF Before
  <2> QED BY <2>1, <2>6
<1>5. (Before("signature") \/ SameStart)'
  <2>0. "signature" \in Compared
    BY DEF Compared
  <2>1. CASE SameStart
    <3>1. \A w \in World : ~AtCall(w, "load_checkpoint")
      <4> SUFFICES ASSUME NEW w \in World, todo[w] # <<>> PROVE Head(todo[w]).what # "load_checkpoint"
        BY DEF AtCall
      <4>1. todo[w] \in Seq(TaskCalls) /\ Never(todo[w], "load_checkpoint")
        BY <1>0, <2>1 DEF SameStart
      <4> QED BY <4>1, HeadFacts
    <3>2. \A w \in World : mem'[w].start = mem[w].start
      BY <3>1 DEF MemMoves
    <3>3. \A w \in World : Never(todo'[w], "load_checkpoint")
      BY <1>0, <2>1, ProceedsKeeps DEF SameStart
    <3>4. SameStart'
      BY <1>0, <2>1, <3>2, <3>3 DEF SameStart
    <3> QED BY <3>4
  <2>2. CASE Before("signature") /\ "signature" \notin W
    BY <1>3, <2>0, <2>2
  <2>3. CASE "signature" \in W
    <3>1. SignedOff /\ ~Refused("signature")
      BY <2>0, <2>3 DEF Proceeds
    <3>2. \A u, v \in World : mem[u].start = mem[v].start
      BY <3>1 DEF Refused, Signed
    <3>3. ASSUME NEW r \in World PROVE Never(todo'[r], "load_checkpoint")
      <4>1. todo[r] \in Seq(TaskCalls) /\ NeverAfter(todo[r], "signature", "load_checkpoint")
        BY <1>0 DEF TaskInv
      <4>2. todo[r] # <<>> /\ Head(todo[r]).what = "signature" /\ todo'[r] = Tail(todo[r])
        BY <3>1 DEF SignedOff
      <4>3. Never(Tail(todo[r]), "load_checkpoint")
        BY <4>1, <4>2, HeadFacts
      <4> QED BY <4>2, <4>3
    <3>4. mem' = mem
      BY <3>1 DEF SignedOff
    <3>5. SameStart'
      BY <1>0, <3>2, <3>3, <3>4 DEF SameStart
    <3> QED BY <3>5
  <2> QED BY <2>1, <2>2, <2>3 DEF TaskInv
<1> QED BY <1>0, <1>1, <1>2, <1>4, <1>5 DEF TaskInv


LEMMA KeptMoves ==
  ASSUME TaskTypes, MemKept, UNCHANGED <<job, launch>>, NEW w \in World, saved' = saved \/ SaveCheckpoint(w)
  PROVE  TaskTypes' /\ \A v \in World : MemMoves(v)
<1>1. World' = World /\ launch' = launch
  BY DEF World
<1>2. DOMAIN saved' = World /\ \A v \in World : saved'[v].step \in Nat
  BY DEF TaskTypes, SaveCheckpoint
<1>3. \A v \in World : {"start", "step"} \subseteq DOMAIN mem'[v] /\ mem'[v].start.step \in Nat
  BY DEF TaskTypes, MemKept, MemSame
<1>4. TaskTypes'
  BY <1>1, <1>2, <1>3 DEF TaskTypes, MemKept
<1>5. \A v \in World : MemMoves(v)
  BY DEF MemKept, MemSame, MemMoves
<1> QED BY <1>4, <1>5

LEMMA TaskStepInv ==
  ASSUME TaskInv, NEW w \in World, TaskStep(w) \/ CaughtFailure(w) \/ Failure(w)
  PROVE  TaskInv'
<1>1. TaskShape /\ TaskTypes
  BY DEF TaskInv
<1>2. CASE \E v \in World : Exchange(w, v) \/ Sending(w, v) \/ Receiving(w, v)
  <2>1. Proceeds({}) /\ MemKept /\ UNCHANGED <<job, launch, saved>>
    BY <1>1, <1>2, TransferStep
  <2> QED BY <1>1, <2>1, KeptMoves, MovesKeepInv
<1>3. CASE OwnWork(w)
  <2>1. (\E W : Proceeds(W)) /\ MemKept /\ UNCHANGED <<job, launch>> /\ (saved' = saved \/ SaveCheckpoint(w))
    BY <1>1, <1>3, OwnWorkStep
  <2> QED BY <1>1, <2>1, KeptMoves, MovesKeepInv
<1>4. CASE JointWork(w)
  <2>1. (\E W : Proceeds(W)) /\ MemKept /\ UNCHANGED <<job, launch, saved>>
    BY <1>1, <1>4, JointWorkStep
  <2> QED BY <1>1, <2>1, KeptMoves, MovesKeepInv
<1>5. CASE Agree(w)
  <2>1. (\E W : Proceeds(W)) /\ MemKept /\ UNCHANGED <<job, launch, saved>>
    BY <1>1, <1>5, AgreeStep
  <2> QED BY <1>1, <2>1, KeptMoves, MovesKeepInv
<1>6. CASE Update(w)
  <2>1. /\ Work(w, "update") /\ Leave({w}) /\ UNCHANGED <<job, launch, saved>>
        /\ mem' = [mem EXCEPT ![w].step = @ + 1]
    BY <1>6 DEF Update, Own
  <2>2. Proceeds({"update"})
    <3>1. "update" \notin Compared
      BY DEF Compared
    <3> QED BY <1>1, <2>1, <3>1, WorkProceeds
  <2>3. AtCall(w, "update")
    BY <2>1 DEF Work, At, Current, AtCall
  <2>4. \A v \in World : mem'[v].start = mem[v].start /\ (v # w => mem'[v].step = mem[v].step)
                         /\ {"start", "step"} \subseteq DOMAIN mem'[v]
    BY <1>1, <2>1 DEF TaskTypes
  <2>5. TaskTypes'
    <3>1. World' = World /\ DOMAIN mem' = World
      BY <1>1, <2>1 DEF TaskTypes, World
    <3> QED BY <1>1, <2>1, <2>4, <3>1 DEF TaskTypes
  <2>6. \A v \in World : MemMoves(v)
    BY <2>3, <2>4 DEF MemMoves
  <2> QED BY <2>1, <2>2, <2>5, <2>6, MovesKeepInv
<1>7. CASE LoadCheckpoint(w)
  <2>1. Work(w, "load_checkpoint") /\ UNCHANGED <<job, launch, saved>>
    BY <1>7 DEF LoadCheckpoint
  <2>2. CASE Raise({w}) /\ UNCHANGED mem
    BY <1>1, <2>1, <2>2, RaiseProceeds, IdleKeepsMem, KeptMoves, MovesKeepInv
  <2>3. CASE Leave({w}) /\ mem' = [mem EXCEPT ![w].start = saved[w], ![w].step = saved[w].step]
    <3>1. Proceeds({"load_checkpoint"})
      <4>1. "load_checkpoint" \notin Compared
        BY DEF Compared
      <4> QED BY <1>1, <2>1, <2>3, <4>1, WorkProceeds
    <3>2. AtCall(w, "load_checkpoint")
      BY <2>1 DEF Work, At, Current, AtCall
    <3>3. \A v \in World :
            /\ {"start", "step"} \subseteq DOMAIN mem'[v]
            /\ IF v = w THEN mem'[v].start = saved[w] /\ mem'[v].step = saved[w].step
               ELSE mem'[v].start = mem[v].start /\ mem'[v].step = mem[v].step
      BY <1>1, <2>3 DEF TaskTypes
    <3>4. TaskTypes'
      <4>1. World' = World /\ DOMAIN mem' = World
        BY <1>1, <2>1, <2>3 DEF TaskTypes, World
      <4> QED BY <1>1, <2>1, <3>3, <4>1 DEF TaskTypes
    <3>5. \A v \in World : MemMoves(v)
      BY <3>2, <3>3 DEF MemMoves, Quiet
    <3> QED BY <2>1, <3>1, <3>4, <3>5, MovesKeepInv
  <2> QED BY <1>7, <2>2, <2>3 DEF LoadCheckpoint
<1> QED BY <1>2, <1>3, <1>4, <1>5, <1>6, <1>7 DEF TaskStep, OwnWork, JointWork

LEMMA GreatestIsNat ==
  ASSUME NEW a \in Int
  PROVE  Max({0, a}) \in Nat
BY DEF Max

\* What a launched program guarantees.
LEMMA ProgramOrder ==
  ASSUME job \in Jobs, NEW w \in World, NEW s, s.steps \in Nat, s.resume \in BOOLEAN, saved[w].step \in Nat
  PROVE  /\ ProgramOf(w, s) \in Seq(TaskCalls)
         /\ NeverAfter(ProgramOf(w, s), "signature", "load_checkpoint")
         /\ job.task = "qa" =>
              /\ Guarded(ProgramOf(w, s), "settings", "update") /\ Guarded(ProgramOf(w, s), "lengths", "update")
              /\ Never(ProgramOf(w, s), "load_checkpoint")
         /\ job.task = "mt5" =>
              Guarded(ProgramOf(w, s), "layout", "update") /\ Guarded(ProgramOf(w, s), "signature", "update")
<1>1. job.task \in {"qa", "mt5"}
  BY TaskAssumption
<1>2. CASE job.task = "qa"
  <2> DEFINE p == QAProgram(w, s.steps)
  <2>1. p \in Seq(RunCalls) /\ Guarded(p, "settings", "update") /\ Guarded(p, "lengths", "update")
    BY QAProgramOrder
  <2>2. ProgramOf(w, s) = p
    BY <1>2 DEF ProgramOf
  <2> HIDE DEF p
  <2>3. p \in Seq(TaskCalls) /\ Never(p, "load_checkpoint")
    BY <2>1, TaskCallSets
  <2>4. NeverAfter(p, "signature", "load_checkpoint")
    BY <2>3 DEF Never, NeverAfter
  <2> QED BY <1>2, <2>1, <2>2, <2>3, <2>4
<1>3. CASE job.task = "mt5"
  <2> DEFINE n == IF s.resume THEN Max({0, s.steps - saved[w].step}) ELSE s.steps
             p == MT5Program(w, s.resume, n)
  <2>1. s.steps - saved[w].step \in Int
    OBVIOUS
  <2>2. n \in Nat
    BY <2>1, GreatestIsNat
  <2>3. ProgramOf(w, s) = p
    BY <1>3 DEF ProgramOf
  <2> HIDE DEF n
  <2>4. /\ p \in Seq(TaskCalls) /\ Guarded(p, "layout", "update") /\ Guarded(p, "signature", "update")
        /\ NeverAfter(p, "signature", "load_checkpoint")
    BY <2>2, MT5ProgramOrder
  <2> HIDE DEF p
  <2> QED BY <1>3, <2>3, <2>4
<1> QED BY <1>1, <1>2, <1>3

LEMMA FreshState ==
  ASSUME NEW w
  PROVE  /\ Fresh(w, Nothing).start = Nothing /\ Fresh(w, Nothing).step = 0 /\ Nothing.step = 0
         /\ {"start", "step"} \subseteq DOMAIN Fresh(w, Nothing)
BY DEF Fresh, Nothing

LEMMA TaskInitInv ==
  TaskInit => TaskInv
<1> SUFFICES ASSUME TaskInit PROVE TaskInv
  OBVIOUS
<1>1. /\ job \in Jobs /\ saved = [w \in World |-> Nothing]
      /\ mem = [w \in World |-> Fresh(w, Nothing)] /\ todo = [w \in World |-> ProgramOf(w, launch)]
  BY DEF TaskInit
<1>2. job.steps \in Nat /\ job.task \in {"qa", "mt5"}
  BY <1>1, TaskAssumption
<1>3. launch.settings \in {"same", "model", "dataset"} /\ launch.steps \in Nat /\ launch.resume \in BOOLEAN
  BY <1>2 DEF TaskInit, FirstLaunch
<1>4. TaskTypes
  BY <1>1, <1>3, FreshState DEF TaskTypes
<1>5. \A w \in World : Quiet(w) /\ mem[w].start = Nothing
  BY <1>1, FreshState DEF Quiet
<1>6. \A w \in World :
        /\ todo[w] \in Seq(TaskCalls) /\ NeverAfter(todo[w], "signature", "load_checkpoint")
        /\ job.task = "qa" =>
             /\ Guarded(todo[w], "settings", "update") /\ Guarded(todo[w], "lengths", "update")
             /\ Never(todo[w], "load_checkpoint")
        /\ job.task = "mt5" =>
             Guarded(todo[w], "layout", "update") /\ Guarded(todo[w], "signature", "update")
  <2> TAKE w \in World
  <2>1. todo[w] = ProgramOf(w, launch) /\ saved[w].step \in Nat
    BY <1>1, <1>4 DEF TaskTypes
  <2> QED BY <1>1, <1>3, <2>1, ProgramOrder
<1>7. TaskShape
  BY <1>1, <1>6 DEF TaskShape
<1>8. Doubt => Before(Comparison)
  BY <1>2, <1>3, <1>5, <1>6 DEF Doubt, Comparison, Before
<1>9. Before("signature") \/ SameStart
  BY <1>2, <1>5, <1>6 DEF Before, SameStart
<1> QED BY <1>4, <1>6, <1>7, <1>8, <1>9 DEF TaskInv

LEMMA LaunchAgainInv ==
  ASSUME TaskInv, NEW resume \in BOOLEAN, NEW more \in {0, 1}, LaunchAgain(resume, more)
  PROVE  TaskInv'
<1>1. TaskShape /\ TaskTypes /\ job' = job /\ saved' = saved /\ job.task = "mt5" /\ World' = World /\ TaskCalls' = TaskCalls
  BY DEF TaskInv, LaunchAgain, World, TaskCalls
<1>2. /\ launch' = [number |-> launch.number + 1, settings |-> "same", resume |-> resume, steps |-> launch.steps + more]
      /\ mem' = [w \in World |-> Fresh(w, Nothing)] /\ todo' = [w \in World |-> ProgramOf(w, launch')]
  BY DEF LaunchAgain
<1>3. launch'.settings = "same" /\ launch'.steps \in Nat /\ launch'.resume \in BOOLEAN
  BY <1>1, <1>2 DEF TaskTypes
<1>4. TaskTypes'
  BY <1>1, <1>2, <1>3, FreshState DEF TaskTypes
<1>5. \A w \in World : Quiet(w)'
  BY <1>2, FreshState DEF Quiet
<1>6. \A w \in World :
        /\ todo'[w] \in Seq(TaskCalls) /\ NeverAfter(todo'[w], "signature", "load_checkpoint")
        /\ Guarded(todo'[w], "signature", "update")
  <2> TAKE w \in World
  <2>1. todo'[w] = ProgramOf(w, launch') /\ saved[w].step \in Nat /\ job \in Jobs
    BY <1>1, <1>2 DEF TaskTypes, TaskShape
  <2> QED BY <1>1, <1>3, <2>1, ProgramOrder
<1>7. TaskShape'
  BY <1>1, <1>2, <1>6 DEF TaskShape
<1>8. Before("signature")'
  BY <1>1, <1>5, <1>6 DEF Before
<1>9. ~Doubt'
  BY <1>3 DEF Doubt
<1> QED BY <1>1, <1>4, <1>6, <1>7, <1>8, <1>9 DEF TaskInv

LEMMA TaskTrainsAsOne ==
  TaskInv => TrainsAsOne
<1> SUFFICES ASSUME TaskInv, NEW w \in World, Trained(w) \/ mem[w].step > mem[w].start.step
             PROVE  /\ launch.settings # "model"
                    /\ job.task = "qa" => launch.settings = "same"
                    /\ \A u, v \in World : mem[u].start = mem[v].start
  BY DEF TrainsAsOne
<1>1. TaskShape /\ TaskTypes
  BY DEF TaskInv
<1>2. ASSUME NEW what, Guarded(todo[w], what, "update"), Quiet(w) PROVE FALSE
  <2>1. mem[w].start.step \in Nat
    BY <1>1 DEF TaskTypes
  <2>2. ~(mem[w].step > mem[w].start.step)
    BY <1>2, <2>1 DEF Quiet
  <2>3. todo[w] # <<>> /\ Head(todo[w]).what = "update"
    BY <2>2 DEF Trained, Current, Alone, Call
  <2>4. todo[w] \in Seq(TaskCalls)
    BY <1>1 DEF TaskShape
  <2> QED BY <1>2, <2>3, <2>4, HeadFacts
<1>3. ~Doubt
  BY <1>2 DEF TaskInv, Before
<1>4. SameStart
  BY <1>2 DEF TaskInv, Before
<1> QED BY <1>1, <1>3, <1>4 DEF Doubt, SameStart, TaskTypes

LEMMA TaskInvKeeps ==
  TaskInv /\ [TaskNext]_<<taskVars, channelVars>> => TaskInv'
<1> SUFFICES ASSUME TaskInv, [TaskNext]_<<taskVars, channelVars>> PROVE TaskInv'
  OBVIOUS
<1>1. ASSUME NEW w \in World, TaskStep(w) \/ CaughtFailure(w) \/ Failure(w) PROVE TaskInv'
  BY <1>1, TaskStepInv
<1>2. ASSUME NEW resume \in BOOLEAN, NEW more \in {0, 1}, LaunchAgain(resume, more) PROVE TaskInv'
  BY <1>2, LaunchAgainInv
<1>3. CASE UNCHANGED <<taskVars, channelVars>>
  <2>1. UNCHANGED <<job, launch, saved, mem, todo>> /\ TaskShape /\ TaskTypes
    BY <1>3 DEF taskVars, channelVars, TaskInv
  <2>2. World' = World /\ TaskCalls' = TaskCalls
    BY <2>1 DEF World, TaskCalls
  <2>3. TaskShape' /\ TaskTypes'
    BY <2>1, <2>2 DEF TaskShape, TaskTypes
  <2>4. (Doubt => Before(Comparison))'
    BY <2>1, <2>2 DEF TaskInv, Doubt, Before, Comparison, Quiet
  <2>5. (Before("signature") \/ SameStart)'
    BY <2>1, <2>2 DEF TaskInv, Before, SameStart, Quiet
  <2> QED BY <2>1, <2>2, <2>3, <2>4, <2>5 DEF TaskInv
<1> QED BY <1>1, <1>2, <1>3 DEF TaskNext

\* Nobody updates a model of the question-answering or the translation task
\* before all ranks have agreed on their settings (and, for the first, on their
\* data), and all train from the same start: the same run and step, or none (the
\* gathered comparisons of the two runners, which stand before their loops).
THEOREM RanksTrainAsOne == TaskSpec => []TrainsAsOne
<1> QED BY TaskInitInv, TaskInvKeeps, TaskTrainsAsOne, PTL DEF TaskSpec

------------------------------------------------------------------------------
(* The ranks of the world: stage and replica are coordinates.               *)

LEMMA Dividing ==
  ASSUME NEW n \in Nat, NEW d \in Nat, d > 0
  PROVE  /\ n \div d \in Nat /\ n % d \in 0 .. d - 1 /\ n = d * (n \div d) + (n % d)
<1> DEFINE q == n \div d
           b == n % d
<1>1. q \in Nat /\ b \in 0 .. d - 1 /\ n = q * d + b
  OBVIOUS
<1> HIDE DEF q, b
<1>2. q * d = d * q
  BY <1>1
<1> QED BY <1>1, <1>2 DEF q, b

LEMMA Factors ==
  ASSUME NEW d \in Nat, d > 0, NEW a \in Int, NEW b \in Int, a < b
  PROVE  d * a \in Int /\ d * b \in Int /\ d * a + d <= d * b
<1>1. d * a \in Int /\ d * b \in Int /\ d * (a + 1) <= d * b /\ d * (a + 1) = d * a + d
  BY SMT
<1> QED BY <1>1

LEMMA DividedBack ==
  ASSUME NEW d \in Nat, d > 0, NEW a \in Nat, NEW k \in 0 .. d - 1
  PROVE  (d * a + k) \div d = a /\ (d * a + k) % d = k
<1> DEFINE n == d * a + k
           q == n \div d
           r == n % d
<1>1. d * a \in Nat /\ n \in Nat
  BY SMT
<1>2. q \in Nat /\ r \in 0 .. d - 1 /\ n = d * q + r
  BY <1>1, Dividing
<1>3. d * q \in Nat
  BY <1>2, SMT
<1>4. n = d * a + k
  OBVIOUS
<1> HIDE DEF n, q, r
<1>5. ~(q < a)
  <2> SUFFICES ASSUME q < a PROVE FALSE
    OBVIOUS
  <2>1. d * q + d <= d * a
    BY <1>2, Factors
  <2> DEFINE x == d * q
             y == d * a
  <2>2. x \in Nat /\ y \in Nat /\ x + d <= y /\ x + r = y + k
    BY <1>1, <1>2, <1>3, <1>4, <2>1
  <2> HIDE DEF x, y
  <2> QED BY <1>2, <2>2
<1>6. ~(a < q)
  <2> SUFFICES ASSUME a < q PROVE FALSE
    OBVIOUS
  <2>1. d * a + d <= d * q
    BY <1>2, Factors
  <2> DEFINE x == d * q
             y == d * a
  <2>2. x \in Nat /\ y \in Nat /\ y + d <= x /\ x + r = y + k
    BY <1>1, <1>2, <1>3, <1>4, <2>1
  <2> HIDE DEF x, y
  <2> QED BY <1>2, <2>2
<1>7. q = a
  BY <1>2, <1>5, <1>6
<1>8. r = k
  <2> DEFINE x == d * a
  <2>1. x \in Nat /\ x + k = x + r
    BY <1>1, <1>2, <1>4, <1>7
  <2> HIDE DEF x
  <2> QED BY <1>2, <2>1
<1> QED BY <1>7, <1>8 DEF n, q, r

\* The rank of a stage and a replica.
RankOf(d, k) == job.stages * d + k
Sizes == job.stages \in Nat /\ job.replicas \in Nat /\ job.micros \in Nat /\ job.stages > 0 /\ job.replicas > 0 /\ job.micros > 0

LEMMA JobSizes ==
  ASSUME job \in Jobs
  PROVE  Sizes /\ job.task \in {"qa", "mt5"} /\ job.validation \in Nat /\ job.steps \in Nat
BY TaskAssumption DEF Sizes

LEMMA RankCoordinates ==
  ASSUME job \in Jobs
  PROVE  /\ \A w \in World : /\ w \in Nat /\ Stage(w) \in 0 .. job.stages - 1 /\ Replica(w) \in 0 .. job.replicas - 1
                             /\ w = RankOf(Replica(w), Stage(w))
         /\ \A d \in 0 .. job.replicas - 1 : \A k \in 0 .. job.stages - 1 :
              RankOf(d, k) \in World /\ Stage(RankOf(d, k)) = k /\ Replica(RankOf(d, k)) = d
<1> DEFINE s == job.stages
           r == job.replicas
           n == s * r
<1>1. s \in Nat /\ r \in Nat /\ s > 0 /\ r > 0 /\ World = 0 .. n - 1
  BY JobSizes DEF Sizes, World
<1>2. n \in Nat
  <2> HIDE DEF s, r
  <2> QED BY <1>1, SMT DEF n
<1>3. ASSUME NEW w \in World
      PROVE  /\ w \in Nat /\ Stage(w) \in 0 .. s - 1 /\ Replica(w) \in 0 .. r - 1
             /\ w = RankOf(Replica(w), Stage(w))
  <2> DEFINE q == w \div s
  <2>1. w \in Nat /\ w < n
    <3> HIDE DEF n
    <3> QED BY <1>1, <1>2
  <2>2. q \in Nat /\ w % s \in 0 .. s - 1 /\ w = s * q + (w % s)
    <3> HIDE DEF s
    <3> QED BY <1>1, <2>1, Dividing
  <2>3. ~(q > r - 1)
    <3> SUFFICES ASSUME q > r - 1 PROVE FALSE
      OBVIOUS
    <3>1. r = q \/ r < q
      <4> HIDE DEF q, r
      <4> QED BY <1>1, <2>2
    <3>2. s * r <= s * q /\ s * q \in Int /\ s * r \in Int
      <4> HIDE DEF s, r, q
      <4>1. CASE r = q
        BY <1>1, <4>1, SMT
      <4>2. CASE r < q
        <5>1. s * r \in Int /\ s * q \in Int /\ s * r + s <= s * q
          BY <1>1, <2>2, <4>2, Factors
        <5> QED BY <1>1, <5>1
      <4> QED BY <3>1, <4>1, <4>2
    <3> DEFINE x == s * q
               y == s * r
               z == w % s
    <3>3. x \in Int /\ y \in Int /\ y <= x /\ w < y /\ w = x + z /\ z \in 0 .. s - 1
      <4>1. n = y
        OBVIOUS
      <4>2. x \in Int /\ y \in Int /\ y <= x
        BY <3>2
      <4>3. w = x + z /\ z \in 0 .. s - 1
        BY <2>2
      <4> HIDE DEF x, y, z, n
      <4> QED BY <2>1, <4>1, <4>2, <4>3
    <3> HIDE DEF x, y, z, s
    <3> QED BY <1>1, <2>1, <3>3
  <2>4. Stage(w) = w % s /\ Replica(w) = q
    BY DEF Stage, Replica
  <2>5. RankOf(Replica(w), Stage(w)) = s * q + (w % s)
    <3>1. RankOf(Replica(w), Stage(w)) = s * Replica(w) + Stage(w)
      BY DEF RankOf
    <3> HIDE DEF s, q
    <3> QED BY <2>4, <3>1
  <2>6. q \in 0 .. r - 1
    <3> HIDE DEF q, r
    <3> QED BY <1>1, <2>2, <2>3
  <2> HIDE DEF q, s, r, n
  <2> QED BY <2>1, <2>2, <2>4, <2>5, <2>6
<1>4. ASSUME NEW d \in 0 .. r - 1, NEW k \in 0 .. s - 1
      PROVE  RankOf(d, k) \in World /\ Stage(RankOf(d, k)) = k /\ Replica(RankOf(d, k)) = d
  <2> DEFINE x == s * d
  <2>1. d \in Nat /\ d < r
    BY <1>1
  <2>2. (s * d + k) \div s = d /\ (s * d + k) % s = k
    <3> HIDE DEF s
    <3> QED BY <1>1, <2>1, DividedBack
  <2>3. x \in Nat /\ x + s <= n
    <3>1. s * d + s <= s * r /\ s * d \in Int
      <4> HIDE DEF s, r
      <4> QED BY <1>1, <2>1, Factors
    <3>2. s * d \in Nat
      <4> HIDE DEF s
      <4> QED BY <1>1, <2>1, SMT
    <3> QED BY <3>1, <3>2
  <2>4. x + k \in 0 .. n - 1
    <3> HIDE DEF x, n
    <3> QED BY <1>1, <1>2, <2>3
  <2>5. RankOf(d, k) = x + k /\ RankOf(d, k) = s * d + k
    BY DEF RankOf
  <2> QED BY <1>1, <2>2, <2>4, <2>5 DEF Stage, Replica
<1> QED BY <1>3, <1>4

\* A rank's neighbours, the ends of its pipeline and its groups.
LEMMA SameRank ==
  ASSUME job \in Jobs, NEW u \in World, NEW v \in World, Stage(u) = Stage(v), Replica(u) = Replica(v)
  PROVE  u = v
BY RankCoordinates

LEMMA Neighbours ==
  ASSUME job \in Jobs, NEW w \in World
  PROVE  /\ ~First(w) => /\ w - 1 \in World /\ Stage(w - 1) = Stage(w) - 1 /\ Replica(w - 1) = Replica(w)
                         /\ Stage(w) # 0
         /\ ~Final(w) => /\ w + 1 \in World /\ Stage(w + 1) = Stage(w) + 1 /\ Replica(w + 1) = Replica(w)
                         /\ Stage(w) < job.stages - 1
         /\ Leader(w) \in World /\ Stage(Leader(w)) = 0 /\ Replica(Leader(w)) = Replica(w)
         /\ LastOf(w) \in World /\ Stage(LastOf(w)) = job.stages - 1 /\ Replica(LastOf(w)) = Replica(w)
<1> DEFINE d == Replica(w)
           k == Stage(w)
           x == job.stages * d
<1>1. /\ w \in Nat /\ k \in 0 .. job.stages - 1 /\ d \in 0 .. job.replicas - 1 /\ w = x + k
      /\ job.stages \in Nat /\ job.stages > 0 /\ job.replicas \in Nat
  BY RankCoordinates, JobSizes DEF RankOf, Sizes
<1>2. x \in Int /\ d * job.stages = x
  <2> DEFINE s == job.stages
  <2>1. s \in Nat /\ d \in Nat
    BY <1>1
  <2> HIDE DEF s, d
  <2>2. s * d \in Int /\ d * s = s * d
    BY <2>1, SMT
  <2> QED BY <2>2 DEF s
<1>3. \A j \in 0 .. job.stages - 1 : x + j \in World /\ Stage(x + j) = j /\ Replica(x + j) = d
  BY <1>1, RankCoordinates DEF RankOf
<1>4. Leader(w) = x + 0 /\ LastOf(w) = x + (job.stages - 1)
  <2>1. Leader(w) = x
    BY <1>2 DEF Leader
  <2> HIDE DEF x, d
  <2> QED BY <1>1, <1>2, <2>1 DEF LastOf
<1>5. First(w) <=> k = 0
  BY DEF First
<1>6. Final(w) <=> k = job.stages - 1
  BY DEF Final
<1>7. ~First(w) => w - 1 = x + (k - 1) /\ k - 1 \in 0 .. job.stages - 1
  <2> HIDE DEF x, k, d
  <2> QED BY <1>1, <1>2, <1>5
<1>8. ~Final(w) => w + 1 = x + (k + 1) /\ k + 1 \in 0 .. job.stages - 1 /\ k < job.stages - 1
  <2>1. k < job.stages - 1 \/ k = job.stages - 1
    BY <1>1
  <2> HIDE DEF x, k, d
  <2>2. ~Final(w) => k < job.stages - 1
    BY <1>6, <2>1
  <2>3. w + 1 = x + (k + 1) /\ (k < job.stages - 1 => k + 1 \in 0 .. job.stages - 1)
    BY <1>1, <1>2
  <2> QED BY <2>2, <2>3
<1>9. 0 \in 0 .. job.stages - 1 /\ job.stages - 1 \in 0 .. job.stages - 1
  BY <1>1
<1> HIDE DEF x
<1> QED BY <1>3, <1>4, <1>5, <1>7, <1>8, <1>9

LEMMA Groups ==
  ASSUME job \in Jobs, NEW w \in World
  PROVE  /\ w \in Pipeline(w) /\ Pipeline(w) \subseteq World /\ w \in Replicas(w) /\ Replicas(w) \subseteq World
         /\ \A v \in Pipeline(w) : Pipeline(v) = Pipeline(w) /\ Replica(v) = Replica(w)
         /\ \A v \in Replicas(w) : Replicas(v) = Replicas(w) /\ Stage(v) = Stage(w)
BY DEF Pipeline, Replicas

------------------------------------------------------------------------------
(* Schedules.  The programs of all ranks are played in moments: in each, a  *)
(* rank makes its next call or waits, and calls that need each other are    *)
(* made in the same one.  A note is what the model's mem says of the data;   *)
(* a schedule has the notes of all ranks after every moment.                *)

Slots == 1 .. job.micros
View(m) ==
  [batch |-> m.batch, act |-> m.act, out |-> m.out, grad |-> m.grad, loss |-> m.loss, count |-> m.count,
   norm |-> m.norm, answers |-> m.answers]
IsNote(n) ==
  n = [batch |-> n.batch, act |-> [i \in Slots |-> n.act[i]], out |-> [i \in Slots |-> n.out[i]], grad |-> n.grad,
       loss |-> n.loss, count |-> n.count, norm |-> n.norm, answers |-> n.answers]

\* What LoadBatch, AddLoss and ComputeGradient do to the note of a rank,
NoteHeld(w, n, i) == IF First(w) THEN <<Replica(w), n.batch, i>> ELSE n.act[i]
NoteGradient(w, n, i) == IF Final(w) \/ n.out[i] = NoteHeld(w, n, i) THEN NoteHeld(w, n, i) ELSE Spoiled
Worked(w, c, n, m) ==
  /\ c.what = "load" =>
       m = [batch |-> n.batch + 1, act |-> n.act, out |-> n.out, grad |-> {}, loss |-> {}, count |-> {Replica(w)},
            norm |-> {}, answers |-> n.answers]
  /\ c.what = "loss" => m = [n EXCEPT !.loss = Added(n.loss, NoteHeld(w, n, c.slot))]
  /\ c.what = "backward" =>
       m = [batch |-> n.batch, act |-> n.act, out |-> [n.out EXCEPT ![c.slot] = NoteGradient(w, n, c.slot)],
            grad |-> Added(n.grad, NoteGradient(w, n, c.slot)), loss |-> n.loss, count |-> n.count,
            norm |-> n.norm, answers |-> n.answers]
  /\ c.what \notin {"load", "loss", "backward"} => m = n

\* what the collectives do to that of a member,
Joined == {"count", "gradients", "norm", "loss", "report", "logits", "gather"}
Met(w, c, N, steps, m) ==
  /\ c.what = "count" => m = [N[w] EXCEPT !.count = UNION {N[u].count : u \in c.with}]
  /\ c.what = "gradients" => m = [N[w] EXCEPT !.grad = Sum([u \in c.with |-> N[u].grad])]
  /\ c.what = "norm" => m = [N[w] EXCEPT !.norm = {<<Stage(u), N[u].grad>> : u \in c.with}]
  /\ c.what = "loss" => m = [N[w] EXCEPT !.loss = Sum([u \in c.with |-> N[u].loss])]
  /\ c.what = "report" => c.with = Pipeline(w) /\ m = [N[w] EXCEPT !.loss = N[LastOf(w)].loss]
  /\ c.what = "logits" =>
       /\ c.with = Pipeline(w)
       /\ m = IF w # Leader(w) THEN N[w]
              ELSE [N[w] EXCEPT !.answers = N[w].answers \cup
                     (IF N[LastOf(w)].act[1] = <<Replica(w), N[w].batch, 1>> \/ job.stages = 1
                      THEN {Replica(w) + (N[w].batch - steps - 1) * job.replicas} ELSE {-1})]
  /\ c.what = "gather" =>
       c.with = World /\ m = IF w # 0 THEN N[w] ELSE [N[w] EXCEPT !.answers = UNION {N[u].answers : u \in World}]
  /\ c.what \notin Joined => m = N[w]

\* and what a receiver gets.
NotePayload(w, n, c) == IF c.what = "activation" THEN NoteHeld(w, n, c.slot) ELSE n.out[c.slot]
Got(n, c, data) ==
  IF c.what = "activation" THEN [n EXCEPT !.act = [n.act EXCEPT ![c.slot] = data]]
  ELSE [n EXCEPT !.out = [n.out EXCEPT ![c.slot] = data]]

\* What an update has to find.
SharedNote(n) ==
  /\ n.grad = Every(n.batch) /\ n.loss = Every(n.batch) /\ n.count = 0 .. job.replicas - 1
  /\ job.stages > 1 => n.norm = {<<s, Every(n.batch)>> : s \in 0 .. job.stages - 1}

\* In a moment rank w makes call c and comes to note m.
Makes(w, c, act, N, steps, m) ==
  \/ c.do = "local" /\ Worked(w, c, N[w], m) /\ (c = Alone("update", 0) => SharedNote(N[w]))
  \/ /\ c.do = "meet" /\ w \in c.with /\ c.with \subseteq World
     /\ \A v \in c.with : act[v] = <<c>>
     /\ Met(w, c, N, steps, m)
  \/ /\ c.do = "send" /\ m = N[w]
     /\ \E q \in World : c = SendTo(q, c.what, c.slot) /\ act[q] = <<RecvFrom(w, c.what, c.slot)>>
  \/ /\ c.do = "recv"
     /\ \E q \in World : /\ c = RecvFrom(q, c.what, c.slot) /\ act[q] = <<SendTo(w, c.what, c.slot)>>
                         /\ m = Got(N[w], c, NotePayload(q, N[q], c))
Plays(w, act, N, M, steps) ==
  \/ act[w] = <<>> /\ M[w] = N[w]
  \/ \E c \in TaskCalls : act[w] = <<c>> /\ Makes(w, c, act, N, steps, M[w])
Moment(act, N, M, steps) == \A w \in World : IsNote(M[w]) /\ act[w] \in Seq(TaskCalls) /\ Plays(w, act, N, M, steps)

\* Schedule z: after moment t rank w has still the calls z.rest[t][w] to make.
Scheduled(z, steps) ==
  /\ z.len \in Nat
  /\ \A t \in 0 .. z.len : \A w \in World : z.rest[t][w] \in Seq(TaskCalls) /\ IsNote(z.note[t][w])
  /\ \A w \in World : z.rest[z.len][w] = <<>>
  /\ \A t \in 1 .. z.len :
       /\ Moment(z.at[t], z.note[t - 1], z.note[t], steps)
       /\ \A w \in World : z.rest[t - 1][w] = z.at[t][w] \o z.rest[t][w]
Plan(z, P, N, M, steps) ==
  Scheduled(z, steps) /\ (\A w \in World : z.rest[0][w] = P[w]) /\ z.note[0] = N /\ z.note[z.len] = M

\* What is known of a rank's note as a batch goes on: the micro-batches whose
\* activation it got and whose loss it added, whose gradient it got and added,
\* whether counts, losses and gradients are those of all replicas, whether the
\* rank heard the loss, and whether the norms are in.
Expectations ==
  [batch : Int, answers : SUBSET Int, loaded : BOOLEAN, got : SUBSET Slots, fwd : SUBSET Slots, back : SUBSET Slots,
   bwd : SUBSET Slots, counted : BOOLEAN, lossAll : BOOLEAN, heard : BOOLEAN, gradAll : BOOLEAN, normed : BOOLEAN]
Item(w, b, i) == <<Replica(w), b, i>>
Items(w, b, F) == {Item(w, b, j) : j \in F}
KnownWork(w, n, e) ==
  /\ ~First(w) => \A j \in e.got : n.act[j] = Item(w, e.batch, j)
  /\ Final(w) \/ e.heard => n.loss = IF e.lossAll THEN Every(e.batch) ELSE Items(w, e.batch, e.fwd)
  /\ \A j \in e.back : n.out[j] = Item(w, e.batch, j)
  /\ n.grad = IF e.gradAll THEN Every(e.batch) ELSE Items(w, e.batch, e.bwd)
  /\ n.count = IF e.counted THEN 0 .. job.replicas - 1 ELSE {Replica(w)}
  /\ e.normed /\ job.stages > 1 => n.norm = {<<s, Every(e.batch)>> : s \in 0 .. job.stages - 1}
Known(w, n, e) == IsNote(n) /\ n.batch = e.batch /\ n.answers = e.answers /\ (e.loaded => KnownWork(w, n, e))
Fits(N, E) == \A w \in World : Known(w, N[w], E[w])

\* Programs P have a schedule, from any notes that fit E to some that fit F.
Leads(P, E, F, steps) == \A N : Fits(N, E) => \E M, z : Fits(M, F) /\ Plan(z, P, N, M, steps)

LEMMA FittingNotes ==
  ASSUME NEW N, NEW E, Fits(N, E), NEW w \in World
  PROVE  IsNote(N[w])
<1>1. Known(w, N[w], E[w])
  BY DEF Fits
<1> QED BY <1>1 DEF Known

LEMMA NothingLeads ==
  ASSUME NEW steps, NEW P, \A w \in World : P[w] = <<>>, NEW E
  PROVE  Leads(P, E, E, steps)
<1> SUFFICES ASSUME NEW N, Fits(N, E) PROVE \E z : Plan(z, P, N, N, steps)
  BY DEF Leads
<1> DEFINE z == [len |-> 0, rest |-> [t \in 0 .. 0 |-> P], note |-> [t \in 0 .. 0 |-> N], at |-> <<>>]
<1>1. z.len = 0 /\ z.rest[0] = P /\ z.note[0] = N
  OBVIOUS
<1> HIDE DEF z
<1>2. \A t \in 0 .. 0 : t = 0
  OBVIOUS
<1>3. \A w \in World : P[w] \in Seq(TaskCalls) /\ IsNote(N[w])
  <2> TAKE w \in World
  <2>1. P[w] = <<>> /\ <<>> \in Seq(TaskCalls) /\ IsNote(N[w])
    BY FittingNotes
  <2> QED BY <2>1
<1>4. Scheduled(z, steps)
  BY <1>1, <1>2, <1>3 DEF Scheduled
<1>5. Plan(z, P, N, N, steps)
  BY <1>1, <1>4 DEF Plan
<1> QED BY <1>5

\* One moment.
LEMMA MomentLeads ==
  ASSUME NEW steps, NEW act, NEW E, NEW F,
         \A N : Fits(N, E) => \E M : Fits(M, F) /\ Moment(act, N, M, steps)
  PROVE  Leads(act, E, F, steps)
<1> SUFFICES ASSUME NEW N, Fits(N, E) PROVE \E M, z : Fits(M, F) /\ Plan(z, act, N, M, steps)
  BY DEF Leads
<1>1. PICK M : Fits(M, F) /\ Moment(act, N, M, steps)
  OBVIOUS
<1> DEFINE z == [len |-> 1, rest |-> [t \in 0 .. 1 |-> IF t = 0 THEN act ELSE [w \in World |-> <<>>]],
                 note |-> [t \in 0 .. 1 |-> IF t = 0 THEN N ELSE M], at |-> [t \in 1 .. 1 |-> act]]
<1>2. /\ z.len = 1 /\ z.rest[0] = act /\ (\A w \in World : z.rest[1][w] = <<>>) /\ z.note[0] = N /\ z.note[1] = M
      /\ z.at[1] = act
  OBVIOUS
<1> HIDE DEF z
<1>3. \A t \in 0 .. 1 : t = 0 \/ t = 1
  OBVIOUS
<1>4. \A w \in World : act[w] \in Seq(TaskCalls) /\ act[w] \o <<>> = act[w] /\ IsNote(N[w]) /\ IsNote(M[w])
  <2> TAKE w \in World
  <2>1. act[w] \in Seq(TaskCalls) /\ IsNote(M[w]) /\ IsNote(N[w])
    BY <1>1, FittingNotes DEF Moment
  <2> QED BY <2>1
<1>5. Scheduled(z, steps)
  <2>1. \A t \in 0 .. 1 : \A w \in World : z.rest[t][w] \in Seq(TaskCalls) /\ IsNote(z.note[t][w])
    <3> TAKE t \in 0 .. 1
    <3> TAKE w \in World
    <3>1. CASE t = 0
      BY <1>2, <1>4, <3>1
    <3>2. CASE t = 1
      <4>1. z.rest[1][w] = <<>> /\ z.note[1][w] = M[w]
        BY <1>2
      <4> QED BY <1>4, <3>2, <4>1
    <3> QED BY <1>3, <3>1, <3>2
  <2>2. \A t \in 1 .. 1 : /\ Moment(z.at[t], z.note[t - 1], z.note[t], steps)
                          /\ \A w \in World : z.rest[t - 1][w] = z.at[t][w] \o z.rest[t][w]
    <3> TAKE t \in 1 .. 1
    <3>1. t = 1 /\ t - 1 = 0
      OBVIOUS
    <3> QED BY <1>1, <1>2, <1>4, <3>1
  <2>3. z.len \in Nat /\ 0 .. z.len = 0 .. 1 /\ 1 .. z.len = 1 .. 1 /\ \A w \in World : z.rest[z.len][w] = <<>>
    BY <1>2
  <2> QED BY <2>1, <2>2, <2>3 DEF Scheduled
<1>6. Plan(z, act, N, M, steps)
  BY <1>2, <1>5 DEF Plan
<1> QED BY <1>1, <1>6

\* A schedule after a schedule.
Joins(R, P, Q) == \A w \in World : R[w] = P[w] \o Q[w]

LEMMA PlansCompose ==
  ASSUME NEW steps, NEW P, NEW Q, NEW R, Joins(R, P, Q),
         NEW N, NEW M, NEW O, NEW y, Plan(y, P, N, M, steps), NEW x, Plan(x, Q, M, O, steps)
  PROVE  \E z : Plan(z, R, N, O, steps)
<1> DEFINE k == y.len
           n == k + x.len
           at == [t \in 1 .. n |-> IF t <= k THEN y.at[t] ELSE x.at[t - k]]
           note == [t \in 0 .. n |-> IF t <= k THEN y.note[t] ELSE x.note[t - k]]
           rest == [t \in 0 .. n |-> IF t <= k THEN [w \in World |-> y.rest[t][w] \o Q[w]] ELSE x.rest[t - k]]
           z == [len |-> n, at |-> at, rest |-> rest, note |-> note]
<1>1. Scheduled(y, steps) /\ Scheduled(x, steps)
  BY DEF Plan
<1>2. k \in Nat /\ x.len \in Nat /\ n \in Nat
  BY <1>1 DEF Scheduled
<1>3. /\ y.note[k] = M /\ x.note[0] = M /\ x.note[x.len] = O /\ y.note[0] = N
      /\ \A w \in World : y.rest[0][w] = P[w] /\ x.rest[0][w] = Q[w] /\ y.rest[k][w] = <<>> /\ x.rest[x.len][w] = <<>>
  BY <1>1 DEF Plan, Scheduled
<1>4. \A w \in World : Q[w] \in Seq(TaskCalls) /\ <<>> \o Q[w] = Q[w]
  <2> TAKE w \in World
  <2>1. x.rest[0][w] \in Seq(TaskCalls)
    BY <1>1, <1>2 DEF Scheduled
  <2>2. Q[w] \in Seq(TaskCalls)
    BY <1>3, <2>1
  <2> QED BY <2>2
<1>5. \A t \in 0 .. n : note[t] = IF t <= k THEN y.note[t] ELSE x.note[t - k]
  OBVIOUS
<1>6. \A t \in 0 .. n : \A w \in World :
        rest[t][w] = IF t <= k THEN y.rest[t][w] \o Q[w] ELSE x.rest[t - k][w]
  OBVIOUS
<1>7. \A t \in 1 .. n : at[t] = IF t <= k THEN y.at[t] ELSE x.at[t - k]
  OBVIOUS
<1>8. z.len = n /\ z.at = at /\ z.rest = rest /\ z.note = note
  OBVIOUS
<1>9. n = k + x.len
  OBVIOUS
<1> HIDE DEF z, at, rest, note, n, k
\* At moment k the second takes over.
<1>10. /\ \A t \in k .. n : note[t] = x.note[t - k]
       /\ \A t \in k .. n : \A w \in World : rest[t][w] = x.rest[t - k][w]
  <2>1. ASSUME NEW t \in k .. n PROVE note[t] = x.note[t - k] /\ \A w \in World : rest[t][w] = x.rest[t - k][w]
    <3>1. t \in 0 .. n
      BY <1>2
    <3>2. CASE t = k
      <4>1. t - k = 0 /\ t <= k
        BY <1>2, <3>2
      <4>2. note[t] = y.note[k] /\ \A w \in World : rest[t][w] = y.rest[k][w] \o Q[w]
        BY <1>5, <1>6, <3>1, <3>2, <4>1
      <4> QED BY <1>3, <1>4, <4>1, <4>2
    <3>3. CASE t # k
      <4>1. ~(t <= k)
        BY <1>2, <3>3
      <4> QED BY <1>5, <1>6, <3>1, <4>1
    <3> QED BY <3>2, <3>3
  <2> QED BY <2>1
<1>11. Scheduled(z, steps)
  <2>1. \A t \in 0 .. n : \A w \in World : rest[t][w] \in Seq(TaskCalls) /\ IsNote(note[t][w])
    <3> TAKE t \in 0 .. n
    <3> TAKE w \in World
    <3>1. CASE t <= k
      <4>1. t \in 0 .. k
        BY <1>2, <3>1
      <4>2. y.rest[t][w] \in Seq(TaskCalls) /\ IsNote(y.note[t][w])
        BY <1>1, <4>1 DEF Scheduled, k
      <4>3. rest[t][w] = y.rest[t][w] \o Q[w] /\ note[t] = y.note[t]
        BY <1>5, <1>6, <3>1
      <4>4. \A a, b \in Seq(TaskCalls) : a \o b \in Seq(TaskCalls)
        OBVIOUS
      <4> QED BY <1>4, <4>2, <4>3, <4>4
    <3>2. CASE ~(t <= k)
      <4>1. t - k \in 0 .. x.len
        BY <1>2, <1>9, <3>2
      <4>2. x.rest[t - k][w] \in Seq(TaskCalls) /\ IsNote(x.note[t - k][w])
        BY <1>1, <4>1 DEF Scheduled
      <4> QED BY <1>5, <1>6, <3>2, <4>2
    <3> QED BY <3>1, <3>2
  <2>2. \A w \in World : rest[n][w] = <<>>
    <3>1. n \in k .. n /\ n - k = x.len
      BY <1>2, <1>9
    <3> QED BY <1>3, <1>10, <3>1
  <2>3. ASSUME NEW t \in 1 .. n
        PROVE  /\ Moment(at[t], note[t - 1], note[t], steps)
               /\ \A w \in World : rest[t - 1][w] = at[t][w] \o rest[t][w]
    <3>0. t \in Nat /\ t - 1 \in 0 .. n /\ t \in 0 .. n
      BY <1>2
    <3>1. CASE t <= k
      <4>1. t \in 1 .. k /\ t - 1 <= k
        BY <1>2, <3>0, <3>1
      <4>2. /\ Moment(y.at[t], y.note[t - 1], y.note[t], steps)
            /\ \A w \in World : y.rest[t - 1][w] = y.at[t][w] \o y.rest[t][w]
        BY <1>1, <4>1 DEF Scheduled, k
      <4>3. at[t] = y.at[t] /\ note[t - 1] = y.note[t - 1] /\ note[t] = y.note[t]
        BY <1>5, <1>7, <3>0, <3>1, <4>1
      <4>4. ASSUME NEW w \in World PROVE rest[t - 1][w] = at[t][w] \o rest[t][w]
        <5> DEFINE a == y.at[t][w]
                   b == y.rest[t][w]
        <5>1. rest[t - 1][w] = y.rest[t - 1][w] \o Q[w] /\ rest[t][w] = b \o Q[w]
          BY <1>6, <3>0, <3>1, <4>1
        <5>2. a \in Seq(TaskCalls) /\ b \in Seq(TaskCalls) /\ y.rest[t - 1][w] = a \o b /\ at[t][w] = a
          <6>1. b \in Seq(TaskCalls)
            <7>1. t \in 0 .. y.len
              BY <1>2, <4>1 DEF k
            <7> QED BY <1>1, <7>1 DEF Scheduled
          <6> QED BY <4>2, <4>3, <6>1 DEF Moment
        <5> HIDE DEF a, b
        <5>3. \A c \in Seq(TaskCalls) : (a \o b) \o c = a \o (b \o c)
          BY <5>2
        <5>4. (a \o b) \o Q[w] = a \o (b \o Q[w])
          BY <1>4, <5>3
        <5> QED BY <5>1, <5>2, <5>4
      <4> QED BY <4>2, <4>3, <4>4
    <3>2. CASE ~(t <= k)
      <4>1. t \in k .. n /\ t - 1 \in k .. n /\ t - k \in 1 .. x.len /\ (t - 1) - k = (t - k) - 1
        BY <1>2, <1>9, <3>0, <3>2
      <4> DEFINE s == t - k
      <4>2. /\ Moment(x.at[s], x.note[s - 1], x.note[s], steps)
            /\ \A w \in World : x.rest[s - 1][w] = x.at[s][w] \o x.rest[s][w]
        BY <1>1, <4>1 DEF Scheduled
      <4>3. at[t] = x.at[s] /\ note[t - 1] = x.note[s - 1] /\ note[t] = x.note[s]
        BY <1>7, <1>10, <3>2, <4>1
      <4>4. \A w \in World : rest[t - 1][w] = x.rest[s - 1][w] /\ rest[t][w] = x.rest[s][w]
        BY <1>10, <4>1
      <4> QED BY <4>2, <4>3, <4>4
    <3> QED BY <3>1, <3>2
  <2> QED BY <1>2, <1>8, <2>1, <2>2, <2>3 DEF Scheduled
<1>12. Plan(z, R, N, O, steps)
  <2>1. \A w \in World : rest[0][w] = R[w]
    <3>1. 0 \in 0 .. n /\ 0 <= k
      BY <1>2
    <3> TAKE w \in World
    <3>2. rest[0][w] = y.rest[0][w] \o Q[w] /\ y.rest[0][w] = P[w] /\ R[w] = P[w] \o Q[w]
      BY <1>3, <1>6, <3>1 DEF Joins
    <3> QED BY <3>2
  <2>2. note[0] = N
    BY <1>2, <1>3, <1>5
  <2>3. note[n] = O
    <3>1. n \in k .. n /\ n - k = x.len
      BY <1>2, <1>9
    <3> QED BY <1>3, <1>10, <3>1
  <2> QED BY <1>8, <1>11, <2>1, <2>2, <2>3 DEF Plan
<1> QED BY <1>12

LEMMA LeadsOn ==
  ASSUME NEW steps, NEW P, NEW Q, NEW R, Joins(R, P, Q),
         NEW E, NEW F, NEW G, Leads(P, E, F, steps), Leads(Q, F, G, steps)
  PROVE  Leads(R, E, G, steps)
<1> SUFFICES ASSUME NEW N, Fits(N, E) PROVE \E O, z : Fits(O, G) /\ Plan(z, R, N, O, steps)
  BY DEF Leads
<1>1. PICK M, y : Fits(M, F) /\ Plan(y, P, N, M, steps)
  BY DEF Leads
<1>2. PICK O, x : Fits(O, G) /\ Plan(x, Q, M, O, steps)
  BY <1>1 DEF Leads
<1>3. \E z : Plan(z, R, N, O, steps)
  BY <1>1, <1>2, PlansCompose
<1> QED BY <1>2, <1>3

\* Knowing less at the end.
LEMMA LeadsToLess ==
  ASSUME NEW steps, NEW P, NEW E, NEW F, NEW G, Leads(P, E, F, steps),
         \A N : Fits(N, F) => Fits(N, G)
  PROVE  Leads(P, E, G, steps)
BY DEF Leads

\* The same programs.
LEMMA LeadsSame ==
  ASSUME NEW steps, NEW P, NEW Q, \A w \in World : P[w] = Q[w], NEW E, NEW F, Leads(P, E, F, steps)
  PROVE  Leads(Q, E, F, steps)
<1>1. ASSUME NEW z, NEW N, NEW M, Plan(z, P, N, M, steps) PROVE Plan(z, Q, N, M, steps)
  BY <1>1 DEF Plan
<1> QED BY <1>1 DEF Leads

\* A repetition: after k rounds the programs P[k] are done.
LEMMA LoopLeads ==
  ASSUME NEW steps, NEW n \in Nat, NEW P, NEW E, NEW B,
         \A w \in World : P[0][w] = <<>>,
         \A k \in 1 .. n : Joins(P[k], P[k - 1], B[k]),
         \A k \in 1 .. n : Leads(B[k], E[k - 1], E[k], steps)
  PROVE  Leads(P[n], E[0], E[n], steps)
<1> DEFINE Bad == {k \in 0 .. n : ~Leads(P[k], E[0], E[k], steps)}
<1>1. SUFFICES ASSUME Bad # {} PROVE FALSE
  OBVIOUS
<1>2. Bad \in SUBSET Nat
  OBVIOUS
<1>3. PICK m \in Bad : \A x \in Bad : m <= x
  BY <1>1, <1>2, LeastOfSet
<1>4. m \in 0 .. n /\ ~Leads(P[m], E[0], E[m], steps)
  OBVIOUS
<1>5. m # 0
  <2>1. Leads(P[0], E[0], E[0], steps)
    BY NothingLeads
  <2> QED BY <1>4, <2>1
<1>6. m \in 1 .. n /\ m - 1 \in 0 .. n /\ m - 1 \notin Bad
  BY <1>3, <1>4, <1>5
<1>7. Leads(P[m - 1], E[0], E[m - 1], steps)
  BY <1>6
<1>8. Leads(B[m], E[m - 1], E[m], steps) /\ Joins(P[m], P[m - 1], B[m])
  BY <1>6
<1>9. Leads(P[m], E[0], E[m], steps)
  BY <1>7, <1>8, LeadsOn
<1> QED BY <1>4, <1>9

\* Flattening one more.
LEMMA FlattenGrows ==
  ASSUME NEW S, NEW n \in Nat, NEW g, \A i \in 1 .. n + 1 : g[i] \in Seq(S)
  PROVE  /\ FlattenSeq([i \in 1 .. 0 |-> g[i]]) = <<>>
         /\ FlattenSeq([i \in 1 .. n + 1 |-> g[i]]) = FlattenSeq([i \in 1 .. n |-> g[i]]) \o g[n + 1]
<1> DEFINE s == [i \in 1 .. n |-> g[i]]
           u == [i \in 1 .. n + 1 |-> g[i]]
<1>1. s \in Seq(Seq(S)) /\ Len(s) = n /\ u \in Seq(Seq(S)) /\ Len(u) = n + 1
  OBVIOUS
<1>2. FlattenSeq([i \in 1 .. 0 |-> g[i]]) = <<>>
  <2>1. Len([i \in 1 .. 0 |-> g[i]]) = 0
    OBVIOUS
  <2> QED BY <2>1 DEF FlattenSeq
<1>3. (\A i \in 1 .. n : s[i] = g[i]) /\ \A i \in 1 .. n + 1 : u[i] = g[i]
  OBVIOUS
<1> HIDE DEF s, u
<1>4. PICK f : Flattens(f, u, n + 1) /\ FlattenSeq(u) = f[n + 1]
  <2>1. Len(u) # 0
    BY <1>1
  <2> QED BY <1>1, <2>1, FlattenUnfolds
<1>5. \A i \in 1 .. n + 1 : f[i] = IF i = 1 THEN g[i] ELSE f[i - 1] \o g[i]
  BY <1>3, <1>4 DEF Flattens
<1>6. CASE n = 0
  <2>1. FlattenSeq(s) = <<>>
    BY <1>1, <1>6 DEF FlattenSeq
  <2>2. FlattenSeq(u) = g[1] /\ g[1] \in Seq(S)
    BY <1>4, <1>5, <1>6
  <2> QED BY <1>2, <1>6, <2>1, <2>2 DEF s, u
<1>7. CASE n # 0
  <2>1. PICK h : Flattens(h, s, n) /\ FlattenSeq(s) = h[n]
    <3>1. Len(s) # 0
      BY <1>1, <1>7
    <3> QED BY <1>1, <3>1, FlattenUnfolds
  <2>2. \A i \in 1 .. n : h[i] = IF i = 1 THEN g[i] ELSE h[i - 1] \o g[i]
    BY <1>3, <2>1 DEF Flattens
  <2>3. \A i \in 1 .. n : f[i] = h[i]
    <3> DEFINE Bad == {i \in 1 .. n : f[i] # h[i]}
    <3>1. SUFFICES ASSUME Bad # {} PROVE FALSE
      OBVIOUS
    <3>2. Bad \in SUBSET Nat
      OBVIOUS
    <3>3. PICK m \in Bad : \A x \in Bad : m <= x
      BY <3>1, <3>2, LeastOfSet
    <3>4. m \in 1 .. n /\ f[m] # h[m] /\ m \in 1 .. n + 1
      OBVIOUS
    <3>5. m # 1
      BY <1>5, <2>2, <3>4
    <3>6. m - 1 \in 1 .. n /\ m - 1 \notin Bad
      BY <3>3, <3>4, <3>5
    <3>7. f[m - 1] = h[m - 1]
      BY <3>6
    <3> QED BY <1>5, <2>2, <3>4, <3>5, <3>7
  <2>4. f[n + 1] = f[n] \o g[n + 1]
    <3>1. n + 1 \in 1 .. n + 1 /\ n + 1 # 1 /\ (n + 1) - 1 = n
      BY <1>7
    <3> QED BY <1>5, <3>1
  <2>5. f[n] = h[n]
    BY <1>7, <2>3
  <2> QED BY <1>2, <1>4, <2>1, <2>4, <2>5 DEF s, u
<1> QED BY <1>6, <1>7

\* A round for each i; ranks outside V wait.
LEMMA RoundsLead ==
  ASSUME NEW steps, NEW V, NEW n \in Nat, NEW B, \A i \in 1 .. n : \A w \in World : B[i][w] \in Seq(TaskCalls),
         \A i \in 1 .. n : \A w \in World : w \notin V => B[i][w] = <<>>,
         NEW E, \A i \in 1 .. n : Leads(B[i], E[i - 1], E[i], steps),
         NEW P, \A w \in World : P[w] = IF w \in V THEN FlattenSeq([i \in 1 .. n |-> B[i][w]]) ELSE <<>>
  PROVE  Leads(P, E[0], E[n], steps)
<1> DEFINE R == [k \in 0 .. n |-> [w \in World |-> IF w \in V THEN FlattenSeq([i \in 1 .. k |-> B[i][w]]) ELSE <<>>]]
<1>1. \A k \in 0 .. n : \A w \in World : R[k][w] = IF w \in V THEN FlattenSeq([i \in 1 .. k |-> B[i][w]]) ELSE <<>>
  OBVIOUS
<1> HIDE DEF R
<1>2. ASSUME NEW w \in World PROVE R[0][w] = <<>>
  <2>1. Len([i \in 1 .. 0 |-> B[i][w]]) = 0
    OBVIOUS
  <2>2. FlattenSeq([i \in 1 .. 0 |-> B[i][w]]) = <<>>
    BY <2>1 DEF FlattenSeq
  <2>3. R[0][w] = IF w \in V THEN FlattenSeq([i \in 1 .. 0 |-> B[i][w]]) ELSE <<>>
    <3>1. 0 \in 0 .. n
      OBVIOUS
    <3> QED BY <1>1, <3>1
  <2> QED BY <2>2, <2>3
<1>3. ASSUME NEW k \in 1 .. n, NEW w \in World PROVE R[k][w] = R[k - 1][w] \o B[k][w]
  <2> DEFINE g == [i \in 1 .. n |-> B[i][w]]
             m == k - 1
  <2>1. m \in Nat /\ k = m + 1 /\ m \in 0 .. n /\ k \in 0 .. n /\ m + 1 \in 1 .. n
    OBVIOUS
  <2>2. \A i \in 1 .. m + 1 : g[i] = B[i][w] /\ g[i] \in Seq(TaskCalls)
    OBVIOUS
  <2>3. /\ [i \in 1 .. m + 1 |-> g[i]] = [i \in 1 .. k |-> B[i][w]]
        /\ [i \in 1 .. m |-> g[i]] = [i \in 1 .. m |-> B[i][w]] /\ g[m + 1] = B[k][w]
    BY <2>1, <2>2
  <2>0. w \notin V => B[k][w] = <<>>
    OBVIOUS
  <2> HIDE DEF g, m
  <2>4. FlattenSeq([i \in 1 .. m + 1 |-> g[i]]) = FlattenSeq([i \in 1 .. m |-> g[i]]) \o g[m + 1]
    BY <2>1, <2>2, FlattenGrows
  <2>5. /\ R[k][w] = IF w \in V THEN FlattenSeq([i \in 1 .. k |-> B[i][w]]) ELSE <<>>
        /\ R[m][w] = IF w \in V THEN FlattenSeq([i \in 1 .. m |-> B[i][w]]) ELSE <<>>
    BY <1>1, <2>1
  <2>6. R[k][w] = R[m][w] \o B[k][w]
    <3>1. CASE w \in V
      BY <2>3, <2>4, <2>5, <3>1
    <3>2. CASE w \notin V
      BY <2>0, <2>5, <3>2
    <3> QED BY <3>1, <3>2
  <2> QED BY <2>6 DEF m
<1>4. Leads(R[n], E[0], E[n], steps)
  <2>1. \A k \in 1 .. n : Joins(R[k], R[k - 1], B[k])
    BY <1>3 DEF Joins
  <2> QED BY <1>2, <2>1, LoopLeads
<1>5. \A w \in World : R[n][w] = P[w]
  <2>1. n \in 0 .. n
    OBVIOUS
  <2> QED BY <1>1, <2>1
<1> QED BY <1>4, <1>5, LeadsSame

\* Programs of the ranks in V, one after the other.
In(V, p) == [w \in World |-> IF w \in V THEN p[w] ELSE <<>>]

LEMMA LeadsThen ==
  ASSUME NEW steps, NEW V, NEW p, NEW q, NEW r, \A w \in V : r[w] = p[w] \o q[w],
         NEW E, NEW F, NEW G, Leads(In(V, p), E, F, steps), Leads(In(V, q), F, G, steps)
  PROVE  Leads(In(V, r), E, G, steps)
<1>1. Joins(In(V, r), In(V, p), In(V, q))
  <2> SUFFICES ASSUME NEW w \in World PROVE In(V, r)[w] = In(V, p)[w] \o In(V, q)[w]
    BY DEF Joins
  <2>1. CASE w \in V
    BY <2>1 DEF In
  <2>2. CASE w \notin V
    <3>1. In(V, r)[w] = <<>> /\ In(V, p)[w] = <<>> /\ In(V, q)[w] = <<>>
      BY <2>2 DEF In
    <3> QED BY <3>1
  <2> QED BY <2>1, <2>2
<1> QED BY <1>1, LeadsOn

------------------------------------------------------------------------------
(* Changes of a note.                                                       *)

SameNote(n, m, changed) ==
  /\ IsNote(m)
  /\ "batch" \notin changed => m.batch = n.batch
  /\ "act" \notin changed => m.act = n.act
  /\ "out" \notin changed => m.out = n.out
  /\ "grad" \notin changed => m.grad = n.grad
  /\ "loss" \notin changed => m.loss = n.loss
  /\ "count" \notin changed => m.count = n.count
  /\ "norm" \notin changed => m.norm = n.norm
  /\ "answers" \notin changed => m.answers = n.answers

LEMMA NoteIsRecord ==
  ASSUME NEW n, IsNote(n)
  PROVE  \E b, a, o, g, l, c, q, x :
           /\ n = [batch |-> b, act |-> a, out |-> o, grad |-> g, loss |-> l, count |-> c, norm |-> q, answers |-> x]
           /\ a = [i \in Slots |-> a[i]] /\ o = [i \in Slots |-> o[i]]
<1> DEFINE a == [i \in Slots |-> n.act[i]]
           o == [i \in Slots |-> n.out[i]]
<1>1. n = [batch |-> n.batch, act |-> a, out |-> o, grad |-> n.grad, loss |-> n.loss, count |-> n.count,
           norm |-> n.norm, answers |-> n.answers]
  BY DEF IsNote
<1>2. a = [i \in Slots |-> a[i]] /\ o = [i \in Slots |-> o[i]]
  OBVIOUS
<1> HIDE DEF a, o
<1> QED BY <1>1, <1>2

LEMMA RecordIsNote ==
  ASSUME NEW b, NEW a, NEW o, NEW g, NEW l, NEW c, NEW q, NEW x,
         a = [i \in Slots |-> a[i]], o = [i \in Slots |-> o[i]]
  PROVE  IsNote([batch |-> b, act |-> a, out |-> o, grad |-> g, loss |-> l, count |-> c, norm |-> q, answers |-> x])
<1> DEFINE n == [batch |-> b, act |-> a, out |-> o, grad |-> g, loss |-> l, count |-> c, norm |-> q, answers |-> x]
<1>1. /\ n.batch = b /\ n.act = a /\ n.out = o /\ n.grad = g /\ n.loss = l /\ n.count = c /\ n.norm = q
      /\ n.answers = x
  OBVIOUS
<1>2. n = [batch |-> n.batch, act |-> n.act, out |-> n.out, grad |-> n.grad, loss |-> n.loss, count |-> n.count,
           norm |-> n.norm, answers |-> n.answers]
  OBVIOUS
<1> HIDE DEF n
<1>3. n.act = [i \in Slots |-> n.act[i]] /\ n.out = [i \in Slots |-> n.out[i]]
  BY <1>1
<1>4. IsNote(n)
  BY <1>2, <1>3 DEF IsNote
<1> QED BY <1>4 DEF n

LEMMA NoteChanges ==
  ASSUME NEW n, IsNote(n)
  PROVE  /\ \A y : SameNote(n, [n EXCEPT !.grad = y], {"grad"}) /\ [n EXCEPT !.grad = y].grad = y
         /\ \A y : SameNote(n, [n EXCEPT !.loss = y], {"loss"}) /\ [n EXCEPT !.loss = y].loss = y
         /\ \A y : SameNote(n, [n EXCEPT !.count = y], {"count"}) /\ [n EXCEPT !.count = y].count = y
         /\ \A y : SameNote(n, [n EXCEPT !.norm = y], {"norm"}) /\ [n EXCEPT !.norm = y].norm = y
         /\ \A y : SameNote(n, [n EXCEPT !.answers = y], {"answers"}) /\ [n EXCEPT !.answers = y].answers = y
<1>1. PICK b, a, o, g, l, c, q, x :
        /\ n = [batch |-> b, act |-> a, out |-> o, grad |-> g, loss |-> l, count |-> c, norm |-> q, answers |-> x]
        /\ a = [i \in Slots |-> a[i]] /\ o = [i \in Slots |-> o[i]]
  BY NoteIsRecord
<1>2. ASSUME NEW y
      PROVE  SameNote(n, [n EXCEPT !.grad = y], {"grad"}) /\ [n EXCEPT !.grad = y].grad = y
  <2> DEFINE m == [batch |-> b, act |-> a, out |-> o, grad |-> y, loss |-> l, count |-> c, norm |-> q, answers |-> x]
  <2>1. [n EXCEPT !.grad = y] = m
    BY <1>1
  <2>2. IsNote(m)
    BY <1>1, RecordIsNote
  <2>3. SameNote(n, m, {"grad"}) /\ m.grad = y
    BY <1>1, <2>2 DEF SameNote
  <2> QED BY <2>1, <2>3
<1>3. ASSUME NEW y
      PROVE  SameNote(n, [n EXCEPT !.loss = y], {"loss"}) /\ [n EXCEPT !.loss = y].loss = y
  <2> DEFINE m == [batch |-> b, act |-> a, out |-> o, grad |-> g, loss |-> y, count |-> c, norm |-> q, answers |-> x]
  <2>1. [n EXCEPT !.loss = y] = m
    BY <1>1
  <2>2. IsNote(m)
    BY <1>1, RecordIsNote
  <2>3. SameNote(n, m, {"loss"}) /\ m.loss = y
    BY <1>1, <2>2 DEF SameNote
  <2> QED BY <2>1, <2>3
<1>4. ASSUME NEW y
      PROVE  SameNote(n, [n EXCEPT !.count = y], {"count"}) /\ [n EXCEPT !.count = y].count = y
  <2> DEFINE m == [batch |-> b, act |-> a, out |-> o, grad |-> g, loss |-> l, count |-> y, norm |-> q, answers |-> x]
  <2>1. [n EXCEPT !.count = y] = m
    BY <1>1
  <2>2. IsNote(m)
    BY <1>1, RecordIsNote
  <2>3. SameNote(n, m, {"count"}) /\ m.count = y
    BY <1>1, <2>2 DEF SameNote
  <2> QED BY <2>1, <2>3
<1>5. ASSUME NEW y
      PROVE  SameNote(n, [n EXCEPT !.norm = y], {"norm"}) /\ [n EXCEPT !.norm = y].norm = y
  <2> DEFINE m == [batch |-> b, act |-> a, out |-> o, grad |-> g, loss |-> l, count |-> c, norm |-> y, answers |-> x]
  <2>1. [n EXCEPT !.norm = y] = m
    BY <1>1
  <2>2. IsNote(m)
    BY <1>1, RecordIsNote
  <2>3. SameNote(n, m, {"norm"}) /\ m.norm = y
    BY <1>1, <2>2 DEF SameNote
  <2> QED BY <2>1, <2>3
<1>6. ASSUME NEW y
      PROVE  SameNote(n, [n EXCEPT !.answers = y], {"answers"}) /\ [n EXCEPT !.answers = y].answers = y
  <2> DEFINE m == [batch |-> b, act |-> a, out |-> o, grad |-> g, loss |-> l, count |-> c, norm |-> q, answers |-> y]
  <2>1. [n EXCEPT !.answers = y] = m
    BY <1>1
  <2>2. IsNote(m)
    BY <1>1, RecordIsNote
  <2>3. SameNote(n, m, {"answers"}) /\ m.answers = y
    BY <1>1, <2>2 DEF SameNote
  <2> QED BY <2>1, <2>3
<1> QED BY <1>2, <1>3, <1>4, <1>5, <1>6

\* A received tensor, a gradient, a loaded batch.
LEMMA SlotsChange ==
  ASSUME NEW a, a = [j \in Slots |-> a[j]], NEW i \in Slots, NEW y
  PROVE  /\ [a EXCEPT ![i] = y] = [j \in Slots |-> [a EXCEPT ![i] = y][j]]
         /\ \A j \in Slots : [a EXCEPT ![i] = y][j] = IF j = i THEN y ELSE a[j]
OBVIOUS

GetsAct(n, m, i, y) == m = [n EXCEPT !.act = [n.act EXCEPT ![i] = y]]
GetsOut(n, m, i, y) == m = [n EXCEPT !.out = [n.out EXCEPT ![i] = y]]

LEMMA NoteGot ==
  ASSUME NEW n, IsNote(n), NEW i \in Slots, NEW y, NEW m
  PROVE  /\ GetsAct(n, m, i, y) =>
              SameNote(n, m, {"act"}) /\ \A j \in Slots : m.act[j] = IF j = i THEN y ELSE n.act[j]
         /\ GetsOut(n, m, i, y) =>
              SameNote(n, m, {"out"}) /\ \A j \in Slots : m.out[j] = IF j = i THEN y ELSE n.out[j]
<1>1. PICK b, a, o, g, l, c, q, x :
        /\ n = [batch |-> b, act |-> a, out |-> o, grad |-> g, loss |-> l, count |-> c, norm |-> q, answers |-> x]
        /\ a = [j \in Slots |-> a[j]] /\ o = [j \in Slots |-> o[j]]
  BY NoteIsRecord
<1> DEFINE d == [a EXCEPT ![i] = y]
           p == [o EXCEPT ![i] = y]
<1>2. d = [j \in Slots |-> d[j]] /\ \A j \in Slots : d[j] = IF j = i THEN y ELSE a[j]
  BY <1>1, SlotsChange
<1>3. p = [j \in Slots |-> p[j]] /\ \A j \in Slots : p[j] = IF j = i THEN y ELSE o[j]
  BY <1>1, SlotsChange
<1>4. n.act = a /\ n.out = o
  BY <1>1
<1>5. ASSUME GetsAct(n, m, i, y)
      PROVE  SameNote(n, m, {"act"}) /\ \A j \in Slots : m.act[j] = IF j = i THEN y ELSE n.act[j]
  <2>1. m = [n EXCEPT !.act = d]
    BY <1>4, <1>5 DEF GetsAct
  <2> HIDE DEF d
  <2>2. m = [batch |-> b, act |-> d, out |-> o, grad |-> g, loss |-> l, count |-> c, norm |-> q, answers |-> x]
    BY <1>1, <2>1
  <2>3. IsNote(m)
    BY <1>1, <1>2, <2>2, RecordIsNote
  <2>4. SameNote(n, m, {"act"}) /\ m.act = d
    BY <1>1, <2>2, <2>3 DEF SameNote
  <2> QED BY <1>2, <1>4, <2>4
<1>6. ASSUME GetsOut(n, m, i, y)
      PROVE  SameNote(n, m, {"out"}) /\ \A j \in Slots : m.out[j] = IF j = i THEN y ELSE n.out[j]
  <2>1. m = [n EXCEPT !.out = p]
    BY <1>4, <1>6 DEF GetsOut
  <2> HIDE DEF p
  <2>2. m = [batch |-> b, act |-> a, out |-> p, grad |-> g, loss |-> l, count |-> c, norm |-> q, answers |-> x]
    BY <1>1, <2>1
  <2>3. IsNote(m)
    BY <1>1, <1>3, <2>2, RecordIsNote
  <2>4. SameNote(n, m, {"out"}) /\ m.out = p
    BY <1>1, <2>2, <2>3 DEF SameNote
  <2> QED BY <1>3, <1>4, <2>4
<1> QED BY <1>5, <1>6

Gains(n, m, i, y, h) ==
  m = [batch |-> n.batch, act |-> n.act, out |-> [n.out EXCEPT ![i] = y], grad |-> h,
       loss |-> n.loss, count |-> n.count, norm |-> n.norm, answers |-> n.answers]

LEMMA NoteGains ==
  ASSUME NEW n, IsNote(n), NEW i \in Slots, NEW y, NEW h, NEW m, Gains(n, m, i, y, h)
  PROVE  /\ SameNote(n, m, {"grad", "out"}) /\ m.grad = h
         /\ \A j \in Slots : m.out[j] = IF j = i THEN y ELSE n.out[j]
<1>1. PICK b, a, o, g, l, c, q, x :
        /\ n = [batch |-> b, act |-> a, out |-> o, grad |-> g, loss |-> l, count |-> c, norm |-> q, answers |-> x]
        /\ a = [j \in Slots |-> a[j]] /\ o = [j \in Slots |-> o[j]]
  BY NoteIsRecord
<1> DEFINE p == [o EXCEPT ![i] = y]
<1>2. p = [j \in Slots |-> p[j]] /\ \A j \in Slots : p[j] = IF j = i THEN y ELSE o[j]
  BY <1>1, SlotsChange
<1>3. n.out = o
  BY <1>1
<1>4. m = [batch |-> b, act |-> a, out |-> p, grad |-> h, loss |-> l, count |-> c, norm |-> q, answers |-> x]
  BY <1>1 DEF Gains
<1> HIDE DEF p
<1>5. IsNote(m)
  BY <1>1, <1>2, <1>4, RecordIsNote
<1>6. SameNote(n, m, {"grad", "out"}) /\ m.grad = h /\ m.out = p
  BY <1>1, <1>4, <1>5 DEF SameNote
<1> QED BY <1>2, <1>3, <1>6

LEMMA NoteLoads ==
  ASSUME NEW n, IsNote(n), NEW y, NEW r
  PROVE  LET m == [batch |-> y, act |-> n.act, out |-> n.out, grad |-> {}, loss |-> {}, count |-> r,
                   norm |-> {}, answers |-> n.answers]
         IN SameNote(n, m, {"batch", "grad", "loss", "norm", "count"})
            /\ m.batch = y /\ m.grad = {} /\ m.loss = {} /\ m.count = r
<1>1. PICK b, a, o, g, l, c, q, x :
        /\ n = [batch |-> b, act |-> a, out |-> o, grad |-> g, loss |-> l, count |-> c, norm |-> q, answers |-> x]
        /\ a = [j \in Slots |-> a[j]] /\ o = [j \in Slots |-> o[j]]
  BY NoteIsRecord
<1> DEFINE m == [batch |-> y, act |-> a, out |-> o, grad |-> {}, loss |-> {}, count |-> r, norm |-> {}, answers |-> x]
<1>2. [batch |-> y, act |-> n.act, out |-> n.out, grad |-> {}, loss |-> {}, count |-> r, norm |-> {},
       answers |-> n.answers] = m
  BY <1>1
<1>3. IsNote(m)
  BY <1>1, RecordIsNote
<1>4. SameNote(n, m, {"batch", "grad", "loss", "norm", "count"}) /\ m.batch = y /\ m.grad = {} /\ m.loss = {} /\ m.count = r
  BY <1>1, <1>3 DEF SameNote
<1> HIDE DEF m
<1> QED BY <1>2, <1>4

------------------------------------------------------------------------------
(* Moments of the programs.                                                 *)

\* Calls without effect on the notes.
Silent(act) ==
  \A w \in World :
    /\ act[w] \in Seq(TaskCalls)
    /\ \/ act[w] = <<>>
       \/ \E c \in TaskCalls :
            /\ act[w] = <<c>>
            /\ \/ c.do = "local" /\ c.what \notin {"load", "loss", "backward", "update"}
               \/ /\ c.do = "meet" /\ c.what \notin Joined /\ w \in c.with /\ c.with \subseteq World
                  /\ \A v \in c.with : act[v] = <<c>>

LEMMA SilentLeads ==
  ASSUME NEW steps, NEW act, Silent(act), NEW E
  PROVE  Leads(act, E, E, steps)
<1>1. ASSUME NEW N, Fits(N, E) PROVE Moment(act, N, N, steps)
  <2> SUFFICES ASSUME NEW w \in World
               PROVE  IsNote(N[w]) /\ act[w] \in Seq(TaskCalls) /\ Plays(w, act, N, N, steps)
    BY DEF Moment
  <2>1. IsNote(N[w]) /\ act[w] \in Seq(TaskCalls)
    BY <1>1, FittingNotes DEF Silent
  <2>2. CASE act[w] = <<>>
    BY <2>1, <2>2 DEF Plays
  <2>3. CASE act[w] # <<>>
    <3>1. PICK c \in TaskCalls :
            /\ act[w] = <<c>>
            /\ \/ c.do = "local" /\ c.what \notin {"load", "loss", "backward", "update"}
               \/ /\ c.do = "meet" /\ c.what \notin Joined /\ w \in c.with /\ c.with \subseteq World
                  /\ \A v \in c.with : act[v] = <<c>>
      BY <2>3 DEF Silent
    <3>2. CASE c.do = "local" /\ c.what \notin {"load", "loss", "backward", "update"}
      <4>1. Worked(w, c, N[w], N[w])
        BY <3>2 DEF Worked
      <4>2. c # Alone("update", 0)
        BY <3>2 DEF Alone, Call
      <4>3. Makes(w, c, act, N, steps, N[w])
        BY <3>2, <4>1, <4>2 DEF Makes
      <4> QED BY <2>1, <3>1, <4>3 DEF Plays
    <3>3. CASE /\ c.do = "meet" /\ c.what \notin Joined /\ w \in c.with /\ c.with \subseteq World
               /\ \A v \in c.with : act[v] = <<c>>
      <4>1. Met(w, c, N, steps, N[w])
        BY <3>3 DEF Met, Joined
      <4>2. Makes(w, c, act, N, steps, N[w])
        BY <3>3, <4>1 DEF Makes
      <4> QED BY <2>1, <3>1, <4>2 DEF Plays
    <3> QED BY <3>1, <3>2, <3>3
  <2> QED BY <2>1, <2>2, <2>3
<1>2. \A N : Fits(N, E) => \E M : Fits(M, E) /\ Moment(act, N, M, steps)
  BY <1>1
<1> QED BY <1>2, MomentLeads

\* Calls of a group.  V is a set of whole pipelines: in validation some may
\* have more batches than others.
Closed(V) == V \subseteq World /\ \A w \in V : Pipeline(w) \subseteq V
CallKinds == TaskKinds \ {"load_checkpoint", "update"}
InGroup(c, what, group, act) ==
  /\ c \in TaskCalls /\ c.do = "meet" /\ c.what = what /\ c.with = group /\ group \subseteq World
  /\ \A v \in group : act[v] = <<c>>

LEMMA AllGroup ==
  ASSUME job \in Jobs, NEW what \in CallKinds, NEW act, \A v \in World : act[v] = All(what)
  PROVE  \E c : InGroup(c, what, World, act)
<1> DEFINE c == Together(what, World)
<1>1. c.do = "meet" /\ c.what = what /\ c.with = World
  BY DEF Together, Call
<1>2. All(what) = <<c>>
  BY DEF All
<1>3. c \in TaskCalls
  <2>1. 0 \in World /\ 0 \in Int
    BY WorldRanks
  <2>2. All(what) \in Seq(EarlyCalls)
    BY <2>1, EarlyCall DEF CallKinds
  <2> QED BY <1>2, <2>2, CallOfSingle, TaskCallSets
<1> HIDE DEF c
<1>4. InGroup(c, what, World, act)
  BY <1>1, <1>2, <1>3 DEF InGroup
<1> QED BY <1>4

LEMMA PipeGroup ==
  ASSUME job \in Jobs, NEW V, Closed(V), NEW what \in CallKinds \ Compared, NEW act, \A v \in V : act[v] = Pipe(v, what),
         NEW w \in V, ~(job.task = "mt5" /\ job.stages = 1)
  PROVE  \E c : InGroup(c, what, Pipeline(w), act)
<1> DEFINE c == Together(what, Pipeline(w))
<1>1. c.do = "meet" /\ c.what = what /\ c.with = Pipeline(w)
  BY DEF Together, Call
<1>2. w \in World /\ Pipeline(w) \subseteq V /\ \A v \in Pipeline(w) : Pipeline(v) = Pipeline(w)
  BY Groups DEF Closed
<1>3. \A v \in Pipeline(w) : Pipe(v, what) = <<c>>
  BY <1>2 DEF Pipe
<1>4. c \in TaskCalls
  <2>1. 0 \in Int
    OBVIOUS
  <2>2. Pipe(w, what) \in Seq(EarlyCalls)
    BY <1>2, <2>1, EarlyCall DEF CallKinds
  <2>3. Pipe(w, what) = <<c>>
    BY <1>2, <1>3, Groups
  <2> QED BY <2>2, <2>3, CallOfSingle, TaskCallSets
<1> HIDE DEF c
<1>5. InGroup(c, what, Pipeline(w), act)
  BY <1>1, <1>2, <1>3, <1>4 DEF InGroup, Closed
<1> QED BY <1>5

LEMMA DataGroup ==
  ASSUME job \in Jobs, NEW w \in World, NEW what \in CallKinds \ Compared,
         NEW act, \A v \in Replicas(w) : act[v] = Data(v, what), job.replicas # 1
  PROVE  \E c : InGroup(c, what, Replicas(w), act)
<1> DEFINE c == Together(what, Replicas(w))
<1>1. c.do = "meet" /\ c.what = what /\ c.with = Replicas(w)
  BY DEF Together, Call
<1>2. w \in Replicas(w) /\ Replicas(w) \subseteq World /\ \A v \in Replicas(w) : Replicas(v) = Replicas(w)
  BY Groups
<1>3. \A v \in Replicas(w) : Data(v, what) = <<c>>
  BY <1>2 DEF Data
<1>4. c \in TaskCalls
  <2>1. 0 \in Int
    OBVIOUS
  <2>2. Data(w, what) \in Seq(EarlyCalls)
    BY <2>1, EarlyCall DEF CallKinds
  <2>3. Data(w, what) = <<c>>
    BY <1>2, <1>3
  <2> QED BY <2>2, <2>3, CallOfSingle, TaskCallSets
<1> HIDE DEF c
<1>5. InGroup(c, what, Replicas(w), act)
  BY <1>1, <1>2, <1>3, <1>4 DEF InGroup
<1> QED BY <1>5

\* A member of a group does what the group does.
LEMMA MemberPlays ==
  ASSUME NEW steps, NEW c, NEW what, NEW group, NEW act, InGroup(c, what, group, act), NEW w \in group, NEW N, NEW M,
         Met(w, c, N, steps, M[w])
  PROVE  act[w] \in Seq(TaskCalls) /\ Plays(w, act, N, M, steps)
<1>1. /\ c \in TaskCalls /\ c.do = "meet" /\ c.with = group /\ group \subseteq World /\ act[w] = <<c>>
      /\ \A v \in group : act[v] = <<c>>
  BY DEF InGroup
<1>2. Makes(w, c, act, N, steps, M[w])
  BY <1>1 DEF Makes
<1>3. <<c>> \in Seq(TaskCalls)
  BY <1>1
<1> QED BY <1>1, <1>2, <1>3 DEF Plays

LEMMA IdlePlays ==
  ASSUME NEW steps, NEW act, NEW w, act[w] = <<>>, NEW N, NEW M, M[w] = N[w]
  PROVE  act[w] \in Seq(TaskCalls) /\ Plays(w, act, N, M, steps)
<1>1. <<>> \in Seq(TaskCalls)
  OBVIOUS
<1> QED BY <1>1 DEF Plays

LEMMA AllSilent ==
  ASSUME job \in Jobs, NEW what \in CallKinds \ Joined, NEW act, \A v \in World : act[v] = All(what)
  PROVE  Silent(act)
<1>1. PICK c : InGroup(c, what, World, act)
  BY AllGroup
<1>2. c \in TaskCalls /\ c.do = "meet" /\ c.what = what /\ c.with = World /\ (\A v \in World : act[v] = <<c>>)
  BY <1>1 DEF InGroup
<1>3. <<c>> \in Seq(TaskCalls)
  BY <1>2
<1> QED BY <1>2, <1>3 DEF Silent

LEMMA PipeSilent ==
  ASSUME job \in Jobs, NEW V, Closed(V), NEW what \in CallKinds \ (Compared \cup Joined),
         NEW act, \A v \in World : act[v] = IF v \in V THEN Pipe(v, what) ELSE <<>>
  PROVE  Silent(act)
<1> SUFFICES ASSUME NEW w \in World
             PROVE  /\ act[w] \in Seq(TaskCalls)
                    /\ \/ act[w] = <<>>
                       \/ \E c \in TaskCalls :
                            /\ act[w] = <<c>>
                            /\ c.do = "meet" /\ c.what \notin Joined /\ w \in c.with /\ c.with \subseteq World
                            /\ \A v \in c.with : act[v] = <<c>>
  BY DEF Silent
<1>0. <<>> \in Seq(TaskCalls)
  OBVIOUS
<1>1. CASE w \notin V \/ (job.task = "mt5" /\ job.stages = 1)
  <2>1. act[w] = <<>>
    BY <1>1 DEF Pipe
  <2> QED BY <1>0, <2>1
<1>2. CASE w \in V /\ ~(job.task = "mt5" /\ job.stages = 1)
  <2>1. \A v \in V : act[v] = Pipe(v, what)
    BY DEF Closed
  <2>2. PICK c : InGroup(c, what, Pipeline(w), act)
    BY <1>2, <2>1, PipeGroup
  <2>3. /\ c \in TaskCalls /\ c.do = "meet" /\ c.what = what /\ c.with = Pipeline(w) /\ Pipeline(w) \subseteq World
        /\ (\A v \in Pipeline(w) : act[v] = <<c>>) /\ w \in Pipeline(w)
    BY <2>2, Groups DEF InGroup
  <2>4. <<c>> \in Seq(TaskCalls)
    BY <2>3
  <2> QED BY <2>3, <2>4
<1> QED BY <1>1, <1>2

LEMMA AloneSilent ==
  ASSUME job \in Jobs, NEW what \in TaskKinds \ ({"load", "loss", "backward", "update"} \cup Compared),
         NEW act, \A v \in World : act[v] = <<>> \/ act[v] = <<Alone(what, 0)>>
  PROVE  Silent(act)
<1> DEFINE c == Alone(what, 0)
<1>1. c.do = "local" /\ c.what = what /\ c \in TaskCalls
  BY DEF Alone, Call, TaskCalls
<1>2. <<c>> \in Seq(TaskCalls) /\ <<>> \in Seq(TaskCalls)
  BY <1>1
<1> HIDE DEF c
<1>3. \A v \in World : act[v] = <<>> \/ act[v] = <<c>>
  BY DEF c
<1> QED BY <1>1, <1>2, <1>3 DEF Silent

\* In this moment all ranks go on to notes that fit F.
Turns(act, N, M, F, steps) ==
  \A w \in World : act[w] \in Seq(TaskCalls) /\ Plays(w, act, N, M, steps) /\ Known(w, M[w], F[w])

LEMMA TurnsLead ==
  ASSUME NEW steps, NEW act, NEW E, NEW F, \A N : Fits(N, E) => \E M : Turns(act, N, M, F, steps)
  PROVE  Leads(act, E, F, steps)
<1>1. ASSUME NEW N, NEW M, Turns(act, N, M, F, steps) PROVE Fits(M, F) /\ Moment(act, N, M, steps)
  <2> SUFFICES ASSUME NEW w \in World
               PROVE  /\ Known(w, M[w], F[w]) /\ IsNote(M[w]) /\ act[w] \in Seq(TaskCalls)
                      /\ Plays(w, act, N, M, steps)
    BY DEF Fits, Moment
  <2>1. act[w] \in Seq(TaskCalls) /\ Plays(w, act, N, M, steps) /\ Known(w, M[w], F[w])
    BY <1>1 DEF Turns
  <2> QED BY <2>1 DEF Known
<1>2. \A N : Fits(N, E) => \E M : Fits(M, F) /\ Moment(act, N, M, steps)
  BY <1>1
<1> QED BY <1>2, MomentLeads

\* A rank's own work.
LEMMA WorkPlays ==
  ASSUME NEW steps, NEW act, NEW w, NEW c \in TaskCalls, act[w] = <<c>>, c.do = "local", c # Alone("update", 0),
         NEW N, NEW M, Worked(w, c, N[w], M[w])
  PROVE  act[w] \in Seq(TaskCalls) /\ Plays(w, act, N, M, steps)
<1>1. <<c>> \in Seq(TaskCalls)
  OBVIOUS
<1>2. Makes(w, c, act, N, steps, M[w])
  BY DEF Makes
<1> QED BY <1>1, <1>2 DEF Plays

LEMMA AloneCall ==
  ASSUME job \in Jobs, NEW what \in TaskKinds \ Compared, NEW i \in Int
  PROVE  Alone(what, i) \in TaskCalls /\ Alone(what, i).do = "local" /\ Alone(what, i).what = what /\ Alone(what, i).slot = i
BY DEF Alone, Call, TaskCalls

Loaded(b, x) ==
  [batch |-> b, answers |-> x, loaded |-> TRUE, got |-> {}, fwd |-> {}, back |-> {}, bwd |-> {}, counted |-> FALSE,
   lossAll |-> FALSE, heard |-> FALSE, gradAll |-> FALSE, normed |-> FALSE]

LEMMA LoadLeads ==
  ASSUME job \in Jobs, NEW steps, NEW V, Closed(V), NEW E,
         NEW act, \A w \in World : act[w] = IF w \in V THEN <<Alone("load", 0)>> ELSE <<>>,
         NEW F, \A w \in World : F[w] = IF w \in V THEN Loaded(E[w].batch + 1, E[w].answers) ELSE E[w]
  PROVE  Leads(act, E, F, steps)
<1> SUFFICES ASSUME NEW N, Fits(N, E) PROVE \E M : Turns(act, N, M, F, steps)
  BY TurnsLead
<1> DEFINE New(n, w) == [batch |-> n.batch + 1, act |-> n.act, out |-> n.out, grad |-> {}, loss |-> {},
                         count |-> {Replica(w)}, norm |-> {}, answers |-> n.answers]
           M == [w \in World |-> IF w \in V THEN New(N[w], w) ELSE N[w]]
<1>1. ASSUME NEW w \in World
      PROVE  act[w] \in Seq(TaskCalls) /\ Plays(w, act, N, M, steps) /\ Known(w, M[w], F[w])
  <2>0. Known(w, N[w], E[w])
    BY DEF Fits
  <2>1. CASE w \notin V
    <3>1. M[w] = N[w] /\ F[w] = E[w] /\ act[w] = <<>>
      BY <2>1
    <3> HIDE DEF M
    <3> QED BY <2>0, <3>1, IdlePlays
  <2>2. CASE w \in V
    <3> DEFINE c == Alone("load", 0)
    <3>1. c \in TaskCalls /\ c.do = "local" /\ c.what = "load"
      BY AloneCall DEF TaskKinds, Compared
    <3>2. c # Alone("update", 0)
      BY DEF Alone, Call
    <3>3. M[w] = New(N[w], w) /\ act[w] = <<c>> /\ F[w] = Loaded(E[w].batch + 1, E[w].answers)
      BY <2>2
    <3>4. IsNote(N[w]) /\ N[w].batch = E[w].batch /\ N[w].answers = E[w].answers
      BY <2>0 DEF Known
    <3> DEFINE m == New(N[w], w)
    <3>5. IsNote(m) /\ m.batch = N[w].batch + 1 /\ m.grad = {} /\ m.loss = {} /\ m.count = {Replica(w)} /\ m.answers = N[w].answers
      BY <3>4, NoteLoads DEF SameNote
    <3>6. Worked(w, c, N[w], M[w])
      BY <3>1, <3>3 DEF Worked
    <3> HIDE DEF M, c, m
    <3>7. act[w] \in Seq(TaskCalls) /\ Plays(w, act, N, M, steps)
      <4>1. c \in TaskCalls /\ act[w] = <<c>>
        BY <3>1, <3>3
      <4> QED BY <3>1, <3>2, <3>6, <4>1, WorkPlays
    <3>8. Items(w, E[w].batch + 1, {}) = {}
      BY DEF Items
    <3> DEFINE f == Loaded(E[w].batch + 1, E[w].answers)
    <3>9. /\ f.batch = E[w].batch + 1 /\ f.answers = E[w].answers /\ f.got = {} /\ f.fwd = {} /\ f.back = {} /\ f.bwd = {}
          /\ ~f.counted /\ ~f.lossAll /\ ~f.gradAll /\ ~f.normed
      BY DEF Loaded
    <3> HIDE DEF f
    <3>10. KnownWork(w, m, f)
      BY <3>5, <3>8, <3>9 DEF KnownWork
    <3>11. Known(w, m, f)
      BY <3>4, <3>5, <3>9, <3>10 DEF Known
    <3>12. M[w] = m /\ F[w] = f
      BY <3>3 DEF m, f
    <3> QED BY <3>7, <3>11, <3>12
  <2> QED BY <2>1, <2>2
<1>2. Turns(act, N, M, F, steps)
  <2> HIDE DEF M
  <2> QED BY <1>1 DEF Turns
<1> QED BY <1>2

\* The ranks of all replicas, and the sums over them.
LEMMA ReplicasCover ==
  ASSUME job \in Jobs, NEW w \in World
  PROVE  /\ {Replica(u) : u \in Replicas(w)} = 0 .. job.replicas - 1
         /\ \A u, v \in Replicas(w) : Replica(u) = Replica(v) => u = v
<1>1. \A u \in Replicas(w) : u \in World /\ Stage(u) = Stage(w)
  BY DEF Replicas
<1>2. ASSUME NEW d \in 0 .. job.replicas - 1 PROVE \E u \in Replicas(w) : Replica(u) = d
  <2> DEFINE u == RankOf(d, Stage(w))
  <2>1. Stage(w) \in 0 .. job.stages - 1
    BY RankCoordinates
  <2>2. u \in World /\ Stage(u) = Stage(w) /\ Replica(u) = d
    BY <2>1, RankCoordinates
  <2> HIDE DEF u
  <2> QED BY <2>2 DEF Replicas
<1>3. \A u \in Replicas(w) : Replica(u) \in 0 .. job.replicas - 1
  BY <1>1, RankCoordinates
<1>4. \A u, v \in Replicas(w) : Replica(u) = Replica(v) => u = v
  BY <1>1, SameRank
<1> QED BY <1>2, <1>3, <1>4

LEMMA PipelineCover ==
  ASSUME job \in Jobs, NEW w \in World
  PROVE  {Stage(u) : u \in Pipeline(w)} = 0 .. job.stages - 1
<1>1. \A u \in Pipeline(w) : u \in World /\ Stage(u) \in 0 .. job.stages - 1
  BY RankCoordinates DEF Pipeline
<1>2. ASSUME NEW k \in 0 .. job.stages - 1 PROVE \E u \in Pipeline(w) : Stage(u) = k
  <2> DEFINE u == RankOf(Replica(w), k)
  <2>1. Replica(w) \in 0 .. job.replicas - 1
    BY RankCoordinates
  <2>2. u \in World /\ Stage(u) = k /\ Replica(u) = Replica(w)
    BY <2>1, RankCoordinates
  <2> HIDE DEF u
  <2> QED BY <2>2 DEF Pipeline
<1> QED BY <1>1, <1>2

LEMMA OneReplica ==
  ASSUME job \in Jobs, job.replicas = 1, NEW w \in World, NEW b
  PROVE  Replica(w) = 0 /\ Items(w, b, Slots) = Every(b) /\ {Replica(w)} = 0 .. job.replicas - 1
<1>1. Replica(w) \in 0 .. 0
  BY RankCoordinates
<1>2. Replica(w) = 0 /\ 0 .. job.replicas - 1 = {0}
  BY <1>1
<1>3. Items(w, b, Slots) = Every(b)
  BY <1>2 DEF Items, Item, Every, Slots
<1> QED BY <1>2, <1>3

LEMMA SumIsEvery ==
  ASSUME job \in Jobs, NEW w \in World, NEW b, NEW terms, terms = [u \in Replicas(w) |-> Items(u, b, Slots)]
  PROVE  Sum(terms) = Every(b)
<1>1. DOMAIN terms = Replicas(w) /\ \A u \in Replicas(w) : terms[u] = Items(u, b, Slots)
  OBVIOUS
<1>2. \A u, v \in Replicas(w) : u # v => terms[u] \cap terms[v] = {}
  <2> TAKE u, v \in Replicas(w)
  <2>1. u # v => Replica(u) # Replica(v)
    BY ReplicasCover
  <2> QED BY <1>1, <2>1 DEF Items, Item
<1>3. UNION {terms[u] : u \in Replicas(w)} = Every(b)
  <2>1. ASSUME NEW x \in Every(b) PROVE \E u \in Replicas(w) : x \in terms[u]
    <3>1. PICK d \in 0 .. job.replicas - 1, i \in Slots : x = <<d, b, i>>
      BY DEF Every, Slots
    <3>2. PICK u \in Replicas(w) : Replica(u) = d
      BY ReplicasCover
    <3> QED BY <1>1, <3>1, <3>2 DEF Items, Item
  <2>2. ASSUME NEW u \in Replicas(w), NEW x \in terms[u] PROVE x \in Every(b)
    <3>1. PICK i \in Slots : x = <<Replica(u), b, i>>
      BY <1>1 DEF Items, Item
    <3>2. Replica(u) \in 0 .. job.replicas - 1
      BY ReplicasCover
    <3> QED BY <3>1, <3>2 DEF Every, Slots
  <2> QED BY <2>1, <2>2
<1> QED BY <1>1, <1>2, <1>3 DEF Sum

SameExpectation(e, f, changed) ==
  /\ f \in Expectations
  /\ "batch" \notin changed => f.batch = e.batch
  /\ "answers" \notin changed => f.answers = e.answers
  /\ "loaded" \notin changed => f.loaded = e.loaded
  /\ "got" \notin changed => f.got = e.got
  /\ "fwd" \notin changed => f.fwd = e.fwd
  /\ "back" \notin changed => f.back = e.back
  /\ "bwd" \notin changed => f.bwd = e.bwd
  /\ "counted" \notin changed => f.counted = e.counted
  /\ "lossAll" \notin changed => f.lossAll = e.lossAll
  /\ "heard" \notin changed => f.heard = e.heard
  /\ "gradAll" \notin changed => f.gradAll = e.gradAll
  /\ "normed" \notin changed => f.normed = e.normed

LEMMA ExpectationChanges ==
  ASSUME NEW e \in Expectations
  PROVE  /\ SameExpectation(e, [e EXCEPT !.counted = TRUE], {"counted"}) /\ [e EXCEPT !.counted = TRUE].counted
         /\ SameExpectation(e, [e EXCEPT !.lossAll = TRUE], {"lossAll"}) /\ [e EXCEPT !.lossAll = TRUE].lossAll
         /\ SameExpectation(e, [e EXCEPT !.heard = TRUE], {"heard"}) /\ [e EXCEPT !.heard = TRUE].heard
         /\ SameExpectation(e, [e EXCEPT !.gradAll = TRUE], {"gradAll"}) /\ [e EXCEPT !.gradAll = TRUE].gradAll
         /\ SameExpectation(e, [e EXCEPT !.normed = TRUE], {"normed"}) /\ [e EXCEPT !.normed = TRUE].normed
         /\ \A y \in SUBSET Int : SameExpectation(e, [e EXCEPT !.answers = y], {"answers"}) /\ [e EXCEPT !.answers = y].answers = y
<1>1. SameExpectation(e, [e EXCEPT !.counted = TRUE], {"counted"}) /\ [e EXCEPT !.counted = TRUE].counted
  BY DEF SameExpectation, Expectations
<1>2. SameExpectation(e, [e EXCEPT !.lossAll = TRUE], {"lossAll"}) /\ [e EXCEPT !.lossAll = TRUE].lossAll
  BY DEF SameExpectation, Expectations
<1>3. SameExpectation(e, [e EXCEPT !.heard = TRUE], {"heard"}) /\ [e EXCEPT !.heard = TRUE].heard
  BY DEF SameExpectation, Expectations
<1>4. SameExpectation(e, [e EXCEPT !.gradAll = TRUE], {"gradAll"}) /\ [e EXCEPT !.gradAll = TRUE].gradAll
  BY DEF SameExpectation, Expectations
<1>5. SameExpectation(e, [e EXCEPT !.normed = TRUE], {"normed"}) /\ [e EXCEPT !.normed = TRUE].normed
  BY DEF SameExpectation, Expectations
<1>6. \A y \in SUBSET Int : SameExpectation(e, [e EXCEPT !.answers = y], {"answers"}) /\ [e EXCEPT !.answers = y].answers = y
  BY DEF SameExpectation, Expectations
<1> QED BY <1>1, <1>2, <1>3, <1>4, <1>5, <1>6

LEMMA CountLeads ==
  ASSUME job \in Jobs, NEW steps, NEW E, \A w \in World : E[w] \in Expectations /\ E[w].loaded /\ ~E[w].counted,
         NEW act, \A w \in World : act[w] = Data(w, "count"),
         NEW F, \A w \in World : F[w] = [E[w] EXCEPT !.counted = TRUE]
  PROVE  Leads(act, E, F, steps)
<1> SUFFICES ASSUME NEW N, Fits(N, E) PROVE \E M : Turns(act, N, M, F, steps)
  BY TurnsLead
<1> DEFINE New(w) == UNION {N[u].count : u \in Replicas(w)}
           M == [w \in World |-> IF job.replicas = 1 THEN N[w] ELSE [N[w] EXCEPT !.count = New(w)]]
<1>0. \A w \in World : M[w] = IF job.replicas = 1 THEN N[w] ELSE [N[w] EXCEPT !.count = New(w)]
  OBVIOUS
<1> HIDE DEF M
<1>1. ASSUME NEW w \in World
      PROVE  act[w] \in Seq(TaskCalls) /\ Plays(w, act, N, M, steps) /\ Known(w, M[w], F[w])
  <2>1. /\ Known(w, N[w], E[w]) /\ E[w].loaded /\ ~E[w].counted /\ E[w] \in Expectations
        /\ F[w] = [E[w] EXCEPT !.counted = TRUE]
    BY DEF Fits
  <2>2. SameExpectation(E[w], F[w], {"counted"}) /\ F[w].counted
    BY <2>1, ExpectationChanges
  <2>3. KnownWork(w, N[w], E[w]) /\ IsNote(N[w]) /\ N[w].batch = E[w].batch /\ N[w].answers = E[w].answers
    BY <2>1 DEF Known
  <2>4. CASE job.replicas = 1
    <3>1. M[w] = N[w] /\ act[w] = <<>>
      BY <1>0, <2>4 DEF Data
    <3>2. {Replica(w)} = 0 .. job.replicas - 1
      BY <2>4, OneReplica
    <3>3. KnownWork(w, N[w], F[w])
      BY <2>1, <2>2, <2>3, <3>2 DEF KnownWork, SameExpectation
    <3>4. Known(w, N[w], F[w])
      BY <2>2, <2>3, <3>3 DEF Known, SameExpectation
    <3> QED BY <3>1, <3>4, IdlePlays
  <2>5. CASE job.replicas # 1
    <3>1. M[w] = [N[w] EXCEPT !.count = New(w)]
      BY <1>0, <2>5
    <3>2. SameNote(N[w], M[w], {"count"}) /\ M[w].count = New(w)
      <4> HIDE DEF New
      <4> QED BY <2>3, <3>1, NoteChanges
    <3>3. New(w) = 0 .. job.replicas - 1
      <4>1. ASSUME NEW u \in Replicas(w) PROVE N[u].count = {Replica(u)}
        <5>1. u \in World
          BY DEF Replicas
        <5>2. Known(u, N[u], E[u]) /\ E[u].loaded /\ ~E[u].counted
          BY <5>1 DEF Fits
        <5> QED BY <5>2 DEF Known, KnownWork
      <4>2. New(w) = {Replica(u) : u \in Replicas(w)}
        BY <4>1
      <4> QED BY <4>2, ReplicasCover
    <3>4. "count" \in CallKinds \ Compared
      BY DEF CallKinds, TaskKinds, Compared
    <3>5. \A v \in Replicas(w) : act[v] = Data(v, "count")
      BY DEF Replicas
    <3>6. PICK c : InGroup(c, "count", Replicas(w), act)
      BY <2>5, <3>4, <3>5, DataGroup
    <3>7. Met(w, c, N, steps, M[w])
      BY <3>1, <3>6 DEF Met, InGroup, Joined
    <3>8. act[w] \in Seq(TaskCalls) /\ Plays(w, act, N, M, steps)
      <4>1. w \in Replicas(w)
        BY Groups
      <4> HIDE DEF New
      <4> QED BY <3>6, <3>7, <4>1, MemberPlays
    <3>9. KnownWork(w, M[w], F[w])
      <4> HIDE DEF New
      <4> QED BY <2>1, <2>2, <2>3, <3>2, <3>3 DEF KnownWork, SameExpectation, SameNote
    <3>10. Known(w, M[w], F[w])
      BY <2>2, <2>3, <3>2, <3>9 DEF Known, SameExpectation, SameNote
    <3> QED BY <3>8, <3>10
  <2> QED BY <2>4, <2>5
<1>2. Turns(act, N, M, F, steps)
  BY <1>1 DEF Turns
<1> QED BY <1>2

\* All work on batch b, all gradients (losses) are added, and no sum is there.
GradientsReady(E, b) ==
  \A w \in World : E[w] \in Expectations /\ E[w].loaded /\ E[w].batch = b /\ ~E[w].gradAll /\ E[w].bwd = Slots
LossesReady(E, b) ==
  \A w \in World : E[w] \in Expectations /\ E[w].loaded /\ E[w].batch = b /\ ~E[w].lossAll /\ E[w].fwd = Slots

LEMMA GradientsLead ==
  ASSUME job \in Jobs, NEW steps, NEW b, NEW E, GradientsReady(E, b),
         NEW act, \A w \in World : act[w] = Data(w, "gradients"),
         NEW F, \A w \in World : F[w] = [E[w] EXCEPT !.gradAll = TRUE]
  PROVE  Leads(act, E, F, steps)
<1> USE DEF GradientsReady
<1> SUFFICES ASSUME NEW N, Fits(N, E) PROVE \E M : Turns(act, N, M, F, steps)
  BY TurnsLead
<1> DEFINE New(w) == Sum([u \in Replicas(w) |-> N[u].grad])
           M == [w \in World |-> IF job.replicas = 1 THEN N[w] ELSE [N[w] EXCEPT !.grad = New(w)]]
<1>0. \A w \in World : M[w] = IF job.replicas = 1 THEN N[w] ELSE [N[w] EXCEPT !.grad = New(w)]
  OBVIOUS
<1> HIDE DEF M
<1>1. ASSUME NEW w \in World
      PROVE  act[w] \in Seq(TaskCalls) /\ Plays(w, act, N, M, steps) /\ Known(w, M[w], F[w])
  <2>1. /\ Known(w, N[w], E[w]) /\ E[w].loaded /\ ~E[w].gradAll /\ E[w] \in Expectations
        /\ F[w] = [E[w] EXCEPT !.gradAll = TRUE] /\ E[w].bwd = Slots /\ E[w].batch = b
    BY DEF Fits
  <2>2. SameExpectation(E[w], F[w], {"gradAll"}) /\ F[w].gradAll
    BY <2>1, ExpectationChanges
  <2>3. KnownWork(w, N[w], E[w]) /\ IsNote(N[w]) /\ N[w].batch = E[w].batch /\ N[w].answers = E[w].answers
    BY <2>1 DEF Known
  <2>4. CASE job.replicas = 1
    <3>1. M[w] = N[w] /\ act[w] = <<>>
      BY <1>0, <2>4 DEF Data
    <3>2. Items(w, b, Slots) = Every(b)
      BY <2>4, OneReplica
    <3>3. KnownWork(w, N[w], F[w])
      BY <2>1, <2>2, <2>3, <3>2 DEF KnownWork, SameExpectation
    <3>4. Known(w, N[w], F[w])
      BY <2>2, <2>3, <3>3 DEF Known, SameExpectation
    <3> QED BY <3>1, <3>4, IdlePlays
  <2>5. CASE job.replicas # 1
    <3>1. M[w] = [N[w] EXCEPT !.grad = New(w)]
      BY <1>0, <2>5
    <3>2. SameNote(N[w], M[w], {"grad"}) /\ M[w].grad = New(w)
      <4> HIDE DEF New
      <4> QED BY <2>3, <3>1, NoteChanges
    <3>3. New(w) = Every(b)
      <4>1. ASSUME NEW u \in Replicas(w) PROVE N[u].grad = Items(u, b, Slots)
        <5>1. u \in World
          BY DEF Replicas
        <5>2. Known(u, N[u], E[u]) /\ E[u].loaded /\ ~E[u].gradAll /\ E[u].bwd = Slots /\ E[u].batch = b
          BY <5>1 DEF Fits
        <5> QED BY <5>2 DEF Known, KnownWork
      <4>2. [u \in Replicas(w) |-> N[u].grad] = [u \in Replicas(w) |-> Items(u, b, Slots)]
        BY <4>1
      <4> QED BY <4>2, SumIsEvery
    <3>4. "gradients" \in CallKinds \ Compared
      BY DEF CallKinds, TaskKinds, Compared
    <3>5. \A v \in Replicas(w) : act[v] = Data(v, "gradients")
      BY DEF Replicas
    <3>6. PICK c : InGroup(c, "gradients", Replicas(w), act)
      BY <2>5, <3>4, <3>5, DataGroup
    <3>7. Met(w, c, N, steps, M[w])
      BY <3>1, <3>6 DEF Met, InGroup, Joined
    <3>8. act[w] \in Seq(TaskCalls) /\ Plays(w, act, N, M, steps)
      <4>1. w \in Replicas(w)
        BY Groups
      <4> HIDE DEF New
      <4> QED BY <3>6, <3>7, <4>1, MemberPlays
    <3>9. KnownWork(w, M[w], F[w])
      <4> HIDE DEF New
      <4> QED BY <2>1, <2>2, <2>3, <3>2, <3>3 DEF KnownWork, SameExpectation, SameNote
    <3>10. Known(w, M[w], F[w])
      BY <2>2, <2>3, <3>2, <3>9 DEF Known, SameExpectation, SameNote
    <3> QED BY <3>8, <3>10
  <2> QED BY <2>4, <2>5
<1>2. Turns(act, N, M, F, steps)
  BY <1>1 DEF Turns
<1> QED BY <1>2

\* G: the ranks that know the loss of their replica.
LEMMA LossesLead ==
  ASSUME job \in Jobs, NEW steps, NEW b, NEW E, LossesReady(E, b),
         NEW G, G \subseteq World, \A w \in G : Replicas(w) \subseteq G,
         \A w \in World : w \in G <=> (Final(w) \/ E[w].heard),
         NEW act, \A w \in World : act[w] = IF w \in G THEN Data(w, "loss") ELSE <<>>,
         NEW F, \A w \in World : F[w] = [E[w] EXCEPT !.lossAll = TRUE]
  PROVE  Leads(act, E, F, steps)
<1> USE DEF LossesReady
<1> SUFFICES ASSUME NEW N, Fits(N, E) PROVE \E M : Turns(act, N, M, F, steps)
  BY TurnsLead
<1> DEFINE New(w) == Sum([u \in Replicas(w) |-> N[u].loss])
           M == [w \in World |-> IF job.replicas = 1 \/ w \notin G THEN N[w] ELSE [N[w] EXCEPT !.loss = New(w)]]
<1>0. \A w \in World : M[w] = IF job.replicas = 1 \/ w \notin G THEN N[w] ELSE [N[w] EXCEPT !.loss = New(w)]
  OBVIOUS
<1> HIDE DEF M
<1>1. ASSUME NEW w \in World
      PROVE  act[w] \in Seq(TaskCalls) /\ Plays(w, act, N, M, steps) /\ Known(w, M[w], F[w])
  <2>1. /\ Known(w, N[w], E[w]) /\ E[w].loaded /\ ~E[w].lossAll /\ E[w] \in Expectations
        /\ F[w] = [E[w] EXCEPT !.lossAll = TRUE] /\ E[w].fwd = Slots /\ E[w].batch = b
        /\ (w \in G <=> (Final(w) \/ E[w].heard))
    BY DEF Fits
  <2>2. SameExpectation(E[w], F[w], {"lossAll"}) /\ F[w].lossAll
    BY <2>1, ExpectationChanges
  <2>3. KnownWork(w, N[w], E[w]) /\ IsNote(N[w]) /\ N[w].batch = E[w].batch /\ N[w].answers = E[w].answers
    BY <2>1 DEF Known
  <2>4. CASE job.replicas = 1 \/ w \notin G
    <3>1. M[w] = N[w] /\ act[w] = <<>>
      BY <1>0, <2>4 DEF Data
    <3>2. job.replicas = 1 => Items(w, b, Slots) = Every(b)
      BY OneReplica
    <3>3. KnownWork(w, N[w], F[w])
      BY <2>1, <2>2, <2>3, <2>4, <3>2 DEF KnownWork, SameExpectation
    <3>4. Known(w, N[w], F[w])
      BY <2>2, <2>3, <3>3 DEF Known, SameExpectation
    <3> QED BY <3>1, <3>4, IdlePlays
  <2>5. CASE ~(job.replicas = 1 \/ w \notin G)
    <3>1. M[w] = [N[w] EXCEPT !.loss = New(w)]
      BY <1>0, <2>5
    <3>2. SameNote(N[w], M[w], {"loss"}) /\ M[w].loss = New(w)
      <4> HIDE DEF New
      <4> QED BY <2>3, <3>1, NoteChanges
    <3>3. New(w) = Every(b)
      <4>1. ASSUME NEW u \in Replicas(w) PROVE N[u].loss = Items(u, b, Slots)
        <5>1. u \in World /\ u \in G
          BY <2>5 DEF Replicas
        <5>2. /\ Known(u, N[u], E[u]) /\ E[u].loaded /\ ~E[u].lossAll /\ E[u].fwd = Slots /\ E[u].batch = b
              /\ (Final(u) \/ E[u].heard)
          BY <5>1 DEF Fits
        <5> QED BY <5>2 DEF Known, KnownWork
      <4>2. [u \in Replicas(w) |-> N[u].loss] = [u \in Replicas(w) |-> Items(u, b, Slots)]
        BY <4>1
      <4> QED BY <4>2, SumIsEvery
    <3>4. "loss" \in CallKinds \ Compared
      BY DEF CallKinds, TaskKinds, Compared
    <3>5. \A v \in Replicas(w) : act[v] = Data(v, "loss")
      BY <2>5 DEF Replicas
    <3>6. PICK c : InGroup(c, "loss", Replicas(w), act)
      BY <2>5, <3>4, <3>5, DataGroup
    <3>7. Met(w, c, N, steps, M[w])
      BY <3>1, <3>6 DEF Met, InGroup, Joined
    <3>8. act[w] \in Seq(TaskCalls) /\ Plays(w, act, N, M, steps)
      <4>1. w \in Replicas(w)
        BY Groups
      <4> HIDE DEF New
      <4> QED BY <3>6, <3>7, <4>1, MemberPlays
    <3>9. KnownWork(w, M[w], F[w])
      <4> HIDE DEF New
      <4> QED BY <2>1, <2>2, <2>3, <3>2, <3>3 DEF KnownWork, SameExpectation, SameNote
    <3>10. Known(w, M[w], F[w])
      BY <2>2, <2>3, <3>2, <3>9 DEF Known, SameExpectation, SameNote
    <3> QED BY <3>8, <3>10
  <2> QED BY <2>4, <2>5
<1>2. Turns(act, N, M, F, steps)
  BY <1>1 DEF Turns
<1> QED BY <1>2

\* The ranks of a pipeline are as far as each other.
Level(E, V) ==
  \A w \in V : \A v \in Pipeline(w) :
    E[v].batch = E[w].batch /\ E[v].fwd = E[w].fwd /\ E[v].got = E[w].got /\ E[v].lossAll = E[w].lossAll

LEMMA LastOfPipeline ==
  ASSUME job \in Jobs, NEW w \in World
  PROVE  LastOf(w) \in Pipeline(w) /\ LastOf(w) \in World /\ Final(LastOf(w)) /\ Replica(LastOf(w)) = Replica(w)
BY Neighbours DEF Pipeline, Final

LEMMA ReportLeads ==
  ASSUME job \in Jobs, NEW steps, NEW V, Closed(V), NEW E, \A w \in V : E[w] \in Expectations /\ E[w].loaded, Level(E, V),
         NEW act, \A w \in World : act[w] = IF w \in V THEN Pipe(w, "report") ELSE <<>>,
         NEW F, \A w \in World : F[w] = IF w \in V THEN [E[w] EXCEPT !.heard = TRUE] ELSE E[w]
  PROVE  Leads(act, E, F, steps)
<1> SUFFICES ASSUME NEW N, Fits(N, E) PROVE \E M : Turns(act, N, M, F, steps)
  BY TurnsLead
<1> DEFINE Alone2 == job.task = "mt5" /\ job.stages = 1
           M == [w \in World |-> IF w \notin V \/ Alone2 THEN N[w] ELSE [N[w] EXCEPT !.loss = N[LastOf(w)].loss]]
<1>0. \A w \in World : M[w] = IF w \notin V \/ Alone2 THEN N[w] ELSE [N[w] EXCEPT !.loss = N[LastOf(w)].loss]
  OBVIOUS
<1> HIDE DEF M
<1>1. ASSUME NEW w \in World
      PROVE  act[w] \in Seq(TaskCalls) /\ Plays(w, act, N, M, steps) /\ Known(w, M[w], F[w])
  <2>1. Known(w, N[w], E[w])
    BY DEF Fits
  <2>2. CASE w \notin V
    <3>1. M[w] = N[w] /\ act[w] = <<>> /\ F[w] = E[w]
      BY <1>0, <2>2
    <3> QED BY <2>1, <3>1, IdlePlays
  <2>3. CASE w \in V
    <3>1. E[w] \in Expectations /\ E[w].loaded /\ F[w] = [E[w] EXCEPT !.heard = TRUE]
      BY <2>3
    <3>2. SameExpectation(E[w], F[w], {"heard"}) /\ F[w].heard
      BY <3>1, ExpectationChanges
    <3>3. KnownWork(w, N[w], E[w]) /\ IsNote(N[w]) /\ N[w].batch = E[w].batch /\ N[w].answers = E[w].answers
      BY <2>1, <3>1 DEF Known
    <3>4. CASE Alone2
      <4>1. M[w] = N[w] /\ act[w] = <<>>
        BY <1>0, <2>3, <3>4 DEF Pipe
      <4>2. Final(w)
        <5>1. Stage(w) \in 0 .. 0
          BY <3>4, RankCoordinates
        <5> QED BY <3>4, <5>1 DEF Final
      <4>3. KnownWork(w, N[w], F[w])
        BY <3>1, <3>2, <3>3, <4>2 DEF KnownWork, SameExpectation
      <4>4. Known(w, N[w], F[w])
        BY <3>2, <3>3, <4>3 DEF Known, SameExpectation
      <4> QED BY <4>1, <4>4, IdlePlays
    <3>5. CASE ~Alone2
      <4> DEFINE l == LastOf(w)
                 y == N[l].loss
      <4>1. l \in Pipeline(w) /\ l \in World /\ Final(l) /\ Replica(l) = Replica(w) /\ l \in V
        BY <2>3, LastOfPipeline DEF Closed
      <4>2. y = IF E[w].lossAll THEN Every(E[w].batch) ELSE Items(w, E[w].batch, E[w].fwd)
        <5>1. /\ Known(l, N[l], E[l]) /\ E[l].loaded /\ E[l].batch = E[w].batch /\ E[l].fwd = E[w].fwd
              /\ E[l].lossAll = E[w].lossAll
          BY <2>3, <4>1 DEF Fits, Level
        <5>2. y = IF E[l].lossAll THEN Every(E[l].batch) ELSE Items(l, E[l].batch, E[l].fwd)
          BY <4>1, <5>1 DEF Known, KnownWork
        <5>3. Items(l, E[l].batch, E[l].fwd) = Items(w, E[l].batch, E[l].fwd)
          BY <4>1 DEF Items, Item
        <5> QED BY <5>1, <5>2, <5>3
      <4>3. M[w] = [N[w] EXCEPT !.loss = y]
        BY <1>0, <2>3, <3>5
      <4> HIDE DEF y, Alone2
      <4>4. SameNote(N[w], M[w], {"loss"}) /\ M[w].loss = y
        BY <3>3, <4>3, NoteChanges
      <4>5. "report" \in CallKinds \ Compared /\ \A v \in V : act[v] = Pipe(v, "report")
        BY DEF CallKinds, TaskKinds, Compared, Closed
      <4>6. PICK c : InGroup(c, "report", Pipeline(w), act)
        BY <2>3, <3>5, <4>5, PipeGroup DEF Alone2
      <4>7. Met(w, c, N, steps, M[w])
        BY <4>3, <4>6 DEF Met, InGroup, Joined, y
      <4>8. act[w] \in Seq(TaskCalls) /\ Plays(w, act, N, M, steps)
        <5>1. w \in Pipeline(w)
          BY Groups
        <5> QED BY <4>6, <4>7, <5>1, MemberPlays
      <4>9. KnownWork(w, M[w], F[w])
        BY <3>1, <3>2, <3>3, <4>2, <4>4 DEF KnownWork, SameExpectation, SameNote
      <4>10. Known(w, M[w], F[w])
        BY <3>2, <3>3, <4>4, <4>9 DEF Known, SameExpectation, SameNote
      <4> QED BY <4>8, <4>10
    <3> QED BY <3>4, <3>5
  <2> QED BY <2>2, <2>3
<1>2. Turns(act, N, M, F, steps)
  BY <1>1 DEF Turns
<1> QED BY <1>2

LEMMA NormLeads ==
  ASSUME job \in Jobs, NEW steps, NEW b, NEW E,
         \A w \in World : E[w] \in Expectations /\ E[w].loaded /\ E[w].batch = b /\ E[w].gradAll,
         NEW act, \A w \in World : act[w] = Pipe(w, "norm"),
         NEW F, \A w \in World : F[w] = [E[w] EXCEPT !.normed = TRUE]
  PROVE  Leads(act, E, F, steps)
<1> SUFFICES ASSUME NEW N, Fits(N, E) PROVE \E M : Turns(act, N, M, F, steps)
  BY TurnsLead
<1> DEFINE Alone2 == job.task = "mt5" /\ job.stages = 1
           New(w) == {<<Stage(u), N[u].grad>> : u \in Pipeline(w)}
           M == [w \in World |-> IF Alone2 THEN N[w] ELSE [N[w] EXCEPT !.norm = New(w)]]
<1>0. \A w \in World : M[w] = IF Alone2 THEN N[w] ELSE [N[w] EXCEPT !.norm = New(w)]
  OBVIOUS
<1> HIDE DEF M
<1>1. ASSUME NEW w \in World
      PROVE  act[w] \in Seq(TaskCalls) /\ Plays(w, act, N, M, steps) /\ Known(w, M[w], F[w])
  <2>1. /\ Known(w, N[w], E[w]) /\ E[w].loaded /\ E[w].gradAll /\ E[w] \in Expectations
        /\ F[w] = [E[w] EXCEPT !.normed = TRUE] /\ E[w].batch = b
    BY DEF Fits
  <2>2. SameExpectation(E[w], F[w], {"normed"}) /\ F[w].normed
    BY <2>1, ExpectationChanges
  <2>3. KnownWork(w, N[w], E[w]) /\ IsNote(N[w]) /\ N[w].batch = E[w].batch /\ N[w].answers = E[w].answers
    BY <2>1 DEF Known
  <2>4. CASE Alone2
    <3>1. M[w] = N[w] /\ act[w] = <<>>
      BY <1>0, <2>4 DEF Pipe
    <3>2. ~(job.stages > 1)
      BY <2>4
    <3>3. KnownWork(w, N[w], F[w])
      BY <2>1, <2>2, <2>3, <3>2 DEF KnownWork, SameExpectation
    <3>4. Known(w, N[w], F[w])
      BY <2>2, <2>3, <3>3 DEF Known, SameExpectation
    <3> QED BY <3>1, <3>4, IdlePlays
  <2>5. CASE ~Alone2
    <3>1. M[w] = [N[w] EXCEPT !.norm = New(w)]
      BY <1>0, <2>5
    <3>2. SameNote(N[w], M[w], {"norm"}) /\ M[w].norm = New(w)
      <4> HIDE DEF New
      <4> QED BY <2>3, <3>1, NoteChanges
    <3>3. New(w) = {<<s, Every(b)>> : s \in 0 .. job.stages - 1}
      <4>1. ASSUME NEW u \in Pipeline(w) PROVE N[u].grad = Every(b)
        <5>1. u \in World
          BY DEF Pipeline
        <5>2. Known(u, N[u], E[u]) /\ E[u].loaded /\ E[u].gradAll /\ E[u].batch = b
          BY <5>1 DEF Fits
        <5> QED BY <5>2 DEF Known, KnownWork
      <4>2. New(w) = {<<Stage(u), Every(b)>> : u \in Pipeline(w)}
        BY <4>1
      <4>3. {Stage(u) : u \in Pipeline(w)} = 0 .. job.stages - 1
        BY PipelineCover
      <4> HIDE DEF New
      <4> QED BY <4>2, <4>3
    <3>4. "norm" \in CallKinds \ Compared /\ Closed(World) /\ \A v \in World : act[v] = Pipe(v, "norm")
      BY DEF CallKinds, TaskKinds, Compared, Closed, Pipeline
    <3>5. PICK c : InGroup(c, "norm", Pipeline(w), act)
      BY <2>5, <3>4, PipeGroup
    <3>6. Met(w, c, N, steps, M[w])
      BY <3>1, <3>5 DEF Met, InGroup, Joined
    <3>7. act[w] \in Seq(TaskCalls) /\ Plays(w, act, N, M, steps)
      <4>1. w \in Pipeline(w)
        BY Groups
      <4> HIDE DEF New
      <4> QED BY <3>5, <3>6, <4>1, MemberPlays
    <3>8. KnownWork(w, M[w], F[w])
      <4> HIDE DEF New
      <4> QED BY <2>1, <2>2, <2>3, <3>2, <3>3 DEF KnownWork, SameExpectation, SameNote
    <3>9. Known(w, M[w], F[w])
      BY <2>2, <2>3, <3>2, <3>8 DEF Known, SameExpectation, SameNote
    <3> QED BY <3>7, <3>9
  <2> QED BY <2>4, <2>5
<1>2. Turns(act, N, M, F, steps)
  BY <1>1 DEF Turns
<1> QED BY <1>2

\* The update finds what it has to.
LEMMA UpdateLeads ==
  ASSUME job \in Jobs, NEW steps, NEW E,
         \A w \in World : E[w].loaded /\ E[w].lossAll /\ E[w].heard /\ E[w].gradAll /\ E[w].normed /\ E[w].counted,
         NEW act, \A w \in World : act[w] = <<Alone("update", 0)>>
  PROVE  Leads(act, E, E, steps)
<1> SUFFICES ASSUME NEW N, Fits(N, E) PROVE Turns(act, N, N, E, steps)
  BY TurnsLead
<1> SUFFICES ASSUME NEW w \in World
             PROVE  act[w] \in Seq(TaskCalls) /\ Plays(w, act, N, N, steps) /\ Known(w, N[w], E[w])
  BY DEF Turns
<1> DEFINE c == Alone("update", 0)
<1>1. c \in TaskCalls /\ c.do = "local" /\ c.what = "update"
  BY AloneCall DEF TaskKinds, Compared
<1>2. Known(w, N[w], E[w])
  BY DEF Fits
<1>3. SharedNote(N[w])
  BY <1>2 DEF Known, KnownWork, SharedNote
<1>4. Worked(w, c, N[w], N[w])
  BY <1>1 DEF Worked
<1>5. act[w] = <<c>>
  OBVIOUS
<1> HIDE DEF c
<1>6. Makes(w, c, act, N, steps, N[w])
  BY <1>1, <1>3, <1>4 DEF Makes
<1>7. <<c>> \in Seq(TaskCalls)
  BY <1>1
<1> QED BY <1>1, <1>2, <1>5, <1>6, <1>7 DEF Plays

\* The first stage has its feature's answer.
Answer(w, b, steps) == Replica(w) + (b - steps - 1) * job.replicas

LEMMA AnswerIsInt ==
  ASSUME job \in Jobs, NEW steps \in Int, NEW b \in Int, NEW w \in World
  PROVE  Answer(w, b, steps) \in Int
<1> DEFINE k == b - steps - 1
           r == job.replicas
<1>1. k \in Int /\ r \in Int /\ Replica(w) \in Int
  BY RankCoordinates, JobSizes DEF Sizes
<1> HIDE DEF k, r
<1>2. k * r \in Int
  BY <1>1, SMT
<1>3. Answer(w, b, steps) = Replica(w) + (k * r)
  BY DEF Answer, k, r
<1> QED BY <1>1, <1>2, <1>3

LEMMA LogitsLead ==
  ASSUME job \in Jobs, job.task = "qa", NEW steps \in Int, NEW V, Closed(V), NEW E,
         \A w \in V : E[w] \in Expectations /\ E[w].loaded /\ 1 \in E[w].got, Level(E, V),
         NEW act, \A w \in World : act[w] = IF w \in V THEN Pipe(w, "logits") ELSE <<>>,
         NEW F, \A w \in World :
           F[w] = IF w \in V /\ w = Leader(w)
                  THEN [E[w] EXCEPT !.answers = E[w].answers \cup {Answer(w, E[w].batch, steps)}] ELSE E[w]
  PROVE  Leads(act, E, F, steps)
<1> SUFFICES ASSUME NEW N, Fits(N, E) PROVE \E M : Turns(act, N, M, F, steps)
  BY TurnsLead
<1> DEFINE New(w) == N[w].answers \cup {Answer(w, E[w].batch, steps)}
           M == [w \in World |-> IF w \in V /\ w = Leader(w) THEN [N[w] EXCEPT !.answers = New(w)] ELSE N[w]]
<1>0. \A w \in World : M[w] = IF w \in V /\ w = Leader(w) THEN [N[w] EXCEPT !.answers = New(w)] ELSE N[w]
  OBVIOUS
<1> HIDE DEF M
<1>1. ASSUME NEW w \in World
      PROVE  act[w] \in Seq(TaskCalls) /\ Plays(w, act, N, M, steps) /\ Known(w, M[w], F[w])
  <2>1. Known(w, N[w], E[w])
    BY DEF Fits
  <2>2. CASE w \notin V
    <3>1. M[w] = N[w] /\ act[w] = <<>> /\ F[w] = E[w]
      BY <1>0, <2>2
    <3> QED BY <2>1, <3>1, IdlePlays
  <2>3. CASE w \in V
    <3>1. E[w] \in Expectations /\ E[w].loaded /\ ~(job.task = "mt5" /\ job.stages = 1)
      BY <2>3
    <3>2. KnownWork(w, N[w], E[w]) /\ IsNote(N[w]) /\ N[w].batch = E[w].batch /\ N[w].answers = E[w].answers
      BY <2>1, <3>1 DEF Known
    <3> DEFINE l == LastOf(w)
    <3>3. N[l].act[1] = <<Replica(w), N[w].batch, 1>> \/ job.stages = 1
      <4>1. l \in Pipeline(w) /\ l \in World /\ Final(l) /\ Replica(l) = Replica(w) /\ l \in V
        BY <2>3, LastOfPipeline DEF Closed
      <4>2. Known(l, N[l], E[l]) /\ E[l].loaded /\ E[l].batch = E[w].batch /\ 1 \in E[l].got
        BY <2>3, <4>1 DEF Fits, Level
      <4>3. CASE First(l)
        <5>1. job.stages - 1 = 0 /\ job.stages \in Nat
          BY <4>1, <4>3, JobSizes DEF First, Final, Sizes
        <5> QED BY <5>1
      <4>4. CASE ~First(l)
        <5>1. N[l].act[1] = Item(l, E[l].batch, 1)
          BY <4>2, <4>4 DEF Known, KnownWork
        <5> QED BY <3>2, <4>1, <4>2, <5>1 DEF Item
      <4> QED BY <4>3, <4>4
    <3>4. "logits" \in CallKinds \ Compared /\ \A v \in V : act[v] = Pipe(v, "logits")
      BY DEF CallKinds, TaskKinds, Compared, Closed
    <3>5. PICK c : InGroup(c, "logits", Pipeline(w), act)
      BY <2>3, <3>1, <3>4, PipeGroup
    <3>6. Met(w, c, N, steps, M[w])
      <4>1. c.what = "logits" /\ c.with = Pipeline(w)
        BY <3>5 DEF InGroup
      <4>2. Answer(w, E[w].batch, steps) = Replica(w) + (N[w].batch - steps - 1) * job.replicas
        BY <3>2 DEF Answer
      <4>3. M[w] = IF w # Leader(w) THEN N[w]
           ELSE [N[w] EXCEPT !.answers = N[w].answers \cup
                  (IF N[LastOf(w)].act[1] = <<Replica(w), N[w].batch, 1>> \/ job.stages = 1
                   THEN {Replica(w) + (N[w].batch - steps - 1) * job.replicas} ELSE {-1})]
        <5>1. CASE w # Leader(w)
          BY <1>0, <5>1
        <5>2. CASE w = Leader(w)
          <6>1. M[w] = [N[w] EXCEPT !.answers = New(w)]
            BY <1>0, <2>3, <5>2
          <6>2. New(w) = N[w].answers \cup {Replica(w) + (N[w].batch - steps - 1) * job.replicas}
            BY <4>2
          <6> HIDE DEF New
          <6> QED BY <3>3, <5>2, <6>1, <6>2
        <5> QED BY <5>1, <5>2
      <4> QED BY <4>1, <4>3 DEF Met, Joined
    <3>7. act[w] \in Seq(TaskCalls) /\ Plays(w, act, N, M, steps)
      <4>1. w \in Pipeline(w)
        BY Groups
      <4> QED BY <3>5, <3>6, <4>1, MemberPlays
    <3>8. Known(w, M[w], F[w])
      <4>1. CASE w # Leader(w)
        <5>1. M[w] = N[w] /\ F[w] = E[w]
          BY <1>0, <4>1
        <5> QED BY <2>1, <5>1
      <4>2. CASE w = Leader(w)
        <5> DEFINE y == New(w)
        <5>1. y \in SUBSET Int
          <6>1. E[w].answers \subseteq Int /\ E[w].batch \in Int
            BY <3>1 DEF Expectations
          <6>2. Answer(w, E[w].batch, steps) \in Int
            BY <6>1, AnswerIsInt
          <6> QED BY <3>2, <6>1, <6>2
        <5>2. M[w] = [N[w] EXCEPT !.answers = y] /\ F[w] = [E[w] EXCEPT !.answers = y]
          BY <1>0, <2>3, <3>2, <4>2
        <5> HIDE DEF y
        <5>3. SameNote(N[w], M[w], {"answers"}) /\ M[w].answers = y
          BY <3>2, <5>2, NoteChanges
        <5>4. SameExpectation(E[w], F[w], {"answers"}) /\ F[w].answers = y
          <6>1. E[w] \in Expectations
            BY <3>1
          <6>2. SameExpectation(E[w], [E[w] EXCEPT !.answers = y], {"answers"}) /\ [E[w] EXCEPT !.answers = y].answers = y
            BY <5>1, <6>1, ExpectationChanges
          <6> QED BY <5>2, <6>2
        <5>5. KnownWork(w, M[w], F[w])
          BY <3>1, <3>2, <5>3, <5>4 DEF KnownWork, SameExpectation, SameNote
        <5> QED BY <3>1, <3>2, <5>3, <5>4, <5>5 DEF Known, SameExpectation, SameNote
      <4> QED BY <4>1, <4>2
    <3> QED BY <3>7, <3>8
  <2> QED BY <2>2, <2>3
<1>2. Turns(act, N, M, F, steps)
  BY <1>1 DEF Turns
<1> QED BY <1>2

\* Rank 0 has the answers of all.
LEMMA GatherLeads ==
  ASSUME job \in Jobs, NEW steps, NEW E, \A w \in World : ~E[w].loaded,
         NEW act, \A w \in World : act[w] = All("gather"),
         NEW F, \A w \in World :
           /\ ~F[w].loaded /\ F[w].batch = E[w].batch
           /\ F[w].answers = IF w = 0 THEN UNION {E[u].answers : u \in World} ELSE E[w].answers
  PROVE  Leads(act, E, F, steps)
<1> SUFFICES ASSUME NEW N, Fits(N, E) PROVE \E M : Turns(act, N, M, F, steps)
  BY TurnsLead
<1> DEFINE y == UNION {N[u].answers : u \in World}
           M == [w \in World |-> IF w = 0 THEN [N[w] EXCEPT !.answers = y] ELSE N[w]]
<1>0. \A w \in World : M[w] = IF w = 0 THEN [N[w] EXCEPT !.answers = y] ELSE N[w]
  OBVIOUS
<1>1. y = UNION {E[u].answers : u \in World}
  <2>1. \A u \in World : N[u].answers = E[u].answers
    BY DEF Fits, Known
  <2> QED BY <2>1
<1>2. y = UNION {N[u].answers : u \in World}
  OBVIOUS
<1>3. PICK c : InGroup(c, "gather", World, act)
  <2>1. "gather" \in CallKinds
    BY DEF CallKinds, TaskKinds, Compared
  <2> QED BY <2>1, AllGroup
<1> HIDE DEF M, y
<1>4. ASSUME NEW w \in World
      PROVE  act[w] \in Seq(TaskCalls) /\ Plays(w, act, N, M, steps) /\ Known(w, M[w], F[w])
  <2>1. Known(w, N[w], E[w]) /\ ~F[w].loaded /\ F[w].batch = E[w].batch
    BY DEF Fits
  <2>2. Met(w, c, N, steps, M[w])
    BY <1>0, <1>2, <1>3 DEF Met, InGroup, Joined
  <2>3. act[w] \in Seq(TaskCalls) /\ Plays(w, act, N, M, steps)
    BY <1>3, <2>2, MemberPlays
  <2>4. CASE w # 0
    <3>1. M[w] = N[w] /\ F[w].answers = E[w].answers
      BY <1>0, <2>4
    <3> QED BY <2>1, <2>3, <3>1 DEF Known
  <2>5. CASE w = 0
    <3>1. M[w] = [N[w] EXCEPT !.answers = y] /\ F[w].answers = y
      BY <1>0, <1>1, <2>5
    <3>2. IsNote(N[w]) /\ N[w].batch = E[w].batch
      BY <2>1 DEF Known
    <3>3. SameNote(N[w], M[w], {"answers"}) /\ M[w].answers = y
      BY <3>1, <3>2, NoteChanges
    <3> QED BY <2>1, <2>3, <3>1, <3>2, <3>3 DEF Known, SameNote
  <2> QED BY <2>4, <2>5
<1>5. Turns(act, N, M, F, steps)
  BY <1>4 DEF Turns
<1> QED BY <1>5

\* A send and its receive.
LEMMA TransferPlays ==
  ASSUME job \in Jobs, NEW steps, NEW q \in World, NEW w \in World, NEW what \in {"activation", "gradient"},
         NEW i \in Slots, NEW act, act[q] = <<SendTo(w, what, i)>>, act[w] = <<RecvFrom(q, what, i)>>, NEW N, NEW M
  PROVE  /\ M[q] = N[q] => act[q] \in Seq(TaskCalls) /\ Plays(q, act, N, M, steps)
         /\ (IF what = "activation" THEN GetsAct(N[w], M[w], i, NoteHeld(q, N[q], i)) ELSE GetsOut(N[w], M[w], i, N[q].out[i]))
            => act[w] \in Seq(TaskCalls) /\ Plays(w, act, N, M, steps)
<1> DEFINE b == SendTo(w, what, i)
           c == RecvFrom(q, what, i)
<1>1. /\ b.do = "send" /\ b.what = what /\ b.slot = i /\ c.do = "recv" /\ c.what = what /\ c.slot = i
      /\ b = SendTo(w, b.what, b.slot) /\ c = RecvFrom(q, c.what, c.slot)
  BY DEF SendTo, RecvFrom, Call
<1>2. b \in TaskCalls /\ c \in TaskCalls
  <2>1. q \in Int /\ w \in Int /\ i \in Int
    BY WorldRanks DEF Slots
  <2>2. what \in TaskKinds \ {"load_checkpoint", "update"} /\ what \notin Compared
    BY DEF TaskKinds, Compared
  <2>3. <<b>> \in Seq(EarlyCalls) /\ <<c>> \in Seq(EarlyCalls)
    BY <2>1, <2>2, EarlyCall
  <2> QED BY <2>3, CallOfSingle, TaskCallSets
<1>3. act[q] = <<b>> /\ act[w] = <<c>>
  OBVIOUS
<1>4. act[w] = <<RecvFrom(q, b.what, b.slot)>> /\ act[q] = <<SendTo(w, c.what, c.slot)>>
  BY <1>1
<1> HIDE DEF b, c
<1>5. <<b>> \in Seq(TaskCalls) /\ <<c>> \in Seq(TaskCalls)
  BY <1>2
<1>6. ASSUME M[q] = N[q] PROVE act[q] \in Seq(TaskCalls) /\ Plays(q, act, N, M, steps)
  <2>1. Makes(q, b, act, N, steps, M[q])
    BY <1>1, <1>4, <1>6 DEF Makes
  <2> QED BY <1>2, <1>3, <1>5, <2>1 DEF Plays
<1>7. ASSUME IF what = "activation" THEN GetsAct(N[w], M[w], i, NoteHeld(q, N[q], i)) ELSE GetsOut(N[w], M[w], i, N[q].out[i])
      PROVE  act[w] \in Seq(TaskCalls) /\ Plays(w, act, N, M, steps)
  <2>1. M[w] = Got(N[w], c, NotePayload(q, N[q], c))
    BY <1>1, <1>7 DEF Got, NotePayload, GetsAct, GetsOut
  <2>2. Makes(w, c, act, N, steps, M[w])
    BY <1>1, <1>4, <2>1 DEF Makes
  <2> QED BY <1>2, <1>3, <1>5, <2>2 DEF Plays
<1> QED BY <1>6, <1>7

LEMMA ActivationGoes ==
  ASSUME job \in Jobs, NEW steps, NEW q \in World, NEW w \in World, NEW i \in Slots, NEW act, act[q] = <<SendTo(w, "activation", i)>>,
         act[w] = <<RecvFrom(q, "activation", i)>>, NEW N, NEW M
  PROVE  /\ M[q] = N[q] => act[q] \in Seq(TaskCalls) /\ Plays(q, act, N, M, steps)
         /\ GetsAct(N[w], M[w], i, NoteHeld(q, N[q], i))
            => act[w] \in Seq(TaskCalls) /\ Plays(w, act, N, M, steps)
<1> DEFINE what == "activation"
<1>1. what \in {"activation", "gradient"} /\ what = "activation"
  OBVIOUS
<1>2. act[q] = <<SendTo(w, what, i)>> /\ act[w] = <<RecvFrom(q, what, i)>>
  OBVIOUS
<1> HIDE DEF what
<1> QED BY <1>1, <1>2, TransferPlays

LEMMA GradientGoes ==
  ASSUME job \in Jobs, NEW steps, NEW q \in World, NEW w \in World, NEW i \in Slots, NEW act, act[q] = <<SendTo(w, "gradient", i)>>,
         act[w] = <<RecvFrom(q, "gradient", i)>>, NEW N, NEW M
  PROVE  /\ M[q] = N[q] => act[q] \in Seq(TaskCalls) /\ Plays(q, act, N, M, steps)
         /\ GetsOut(N[w], M[w], i, N[q].out[i])
            => act[w] \in Seq(TaskCalls) /\ Plays(w, act, N, M, steps)
<1> DEFINE what == "gradient"
<1>1. what \in {"activation", "gradient"} /\ what # "activation"
  OBVIOUS
<1>2. act[q] = <<SendTo(w, what, i)>> /\ act[w] = <<RecvFrom(q, what, i)>>
  OBVIOUS
<1> HIDE DEF what
<1> QED BY <1>1, <1>2, TransferPlays

\* How far the micro-batches are.
Reached(e, got, fwd, back, bwd) ==
  [batch |-> e.batch, answers |-> e.answers, loaded |-> e.loaded, got |-> got, fwd |-> fwd, back |-> back, bwd |-> bwd,
   counted |-> e.counted, lossAll |-> e.lossAll, heard |-> e.heard, gradAll |-> e.gradAll, normed |-> e.normed]

LEMMA ReachedFields ==
  ASSUME NEW e \in Expectations, NEW got \in SUBSET Slots, NEW fwd \in SUBSET Slots, NEW back \in SUBSET Slots, NEW bwd \in SUBSET Slots
  PROVE  LET f == Reached(e, got, fwd, back, bwd)
         IN SameExpectation(e, f, {"got", "fwd", "back", "bwd"}) /\ f.got = got /\ f.fwd = fwd /\ f.back = back /\ f.bwd = bwd
BY DEF Reached, SameExpectation, Expectations

\* Micro-batch i goes through the stages: moment t has stage t - 1 pass it on and
\* stage t get it.
ForwardMoment(w, i, t) ==
  IF Stage(w) = t THEN <<RecvFrom(w - 1, "activation", i)>>
  ELSE IF Stage(w) = t - 1 THEN IF Final(w) THEN <<Alone("loss", i)>> ELSE <<SendTo(w + 1, "activation", i)>>
  ELSE <<>>
\* after moment t
GoneForward(e, w, i, t) ==
  Reached(e, IF t >= 1 /\ t >= Stage(w) THEN e.got \cup {i} ELSE e.got,
          IF t >= job.stages THEN e.fwd \cup {i} ELSE e.fwd, e.back, e.bwd)
\* Before: the batch is loaded and the loss not told.
ReadyForward(E, V, i) ==
  \A w \in V : E[w] \in Expectations /\ E[w].loaded /\ ~E[w].heard /\ ~E[w].lossAll /\ i \notin E[w].fwd
LevelBatch(E, V) == \A w \in V : \A v \in Pipeline(w) : E[v].batch = E[w].batch

LEMMA GoneForwardFields ==
  ASSUME job \in Jobs, NEW e \in Expectations, NEW w, NEW i \in Slots, NEW t \in Int
  PROVE  LET f == GoneForward(e, w, i, t)
         IN /\ SameExpectation(e, f, {"got", "fwd"})
            /\ f.got = (IF t >= 1 /\ t >= Stage(w) THEN e.got \cup {i} ELSE e.got)
            /\ f.fwd = IF t >= job.stages THEN e.fwd \cup {i} ELSE e.fwd
<1> DEFINE got == IF t >= 1 /\ t >= Stage(w) THEN e.got \cup {i} ELSE e.got
           fwd == IF t >= job.stages THEN e.fwd \cup {i} ELSE e.fwd
           f == GoneForward(e, w, i, t)
<1>1. e.got \in SUBSET Slots /\ e.fwd \in SUBSET Slots /\ e.back \in SUBSET Slots /\ e.bwd \in SUBSET Slots
  BY DEF Expectations
<1>2. got \in SUBSET Slots /\ fwd \in SUBSET Slots
  BY <1>1
<1>3. f = Reached(e, got, fwd, e.back, e.bwd)
  BY DEF GoneForward
<1> HIDE DEF got, fwd, f
<1>4. SameExpectation(e, f, {"got", "fwd", "back", "bwd"}) /\ f.got = got /\ f.fwd = fwd /\ f.back = e.back /\ f.bwd = e.bwd
  BY <1>1, <1>2, <1>3, ReachedFields
<1>5. SameExpectation(e, f, {"got", "fwd"})
  BY <1>4 DEF SameExpectation
<1> QED BY <1>4, <1>5 DEF got, fwd, f

\* What a rank knows when more has arrived.
LEMMA KnownGoneForward ==
  ASSUME job \in Jobs, NEW w \in World, NEW i \in Slots, NEW e \in Expectations, e.loaded, ~e.heard, ~e.lossAll,
         NEW t \in 1 .. job.stages, NEW n, Known(w, n, GoneForward(e, w, i, t - 1)), NEW m,
         \/ m = n /\ Stage(w) # t /\ ~(Stage(w) = t - 1 /\ Final(w))
         \/ /\ Stage(w) = t
            /\ SameNote(n, m, {"act"}) /\ \A j \in Slots : m.act[j] = IF j = i THEN Item(w, e.batch, i) ELSE n.act[j]
         \/ /\ Stage(w) = t - 1 /\ Final(w)
            /\ SameNote(n, m, {"loss"}) /\ m.loss = Items(w, e.batch, e.fwd \cup {i})
  PROVE  Known(w, m, GoneForward(e, w, i, t))
<1> DEFINE d == GoneForward(e, w, i, t - 1)
           f == GoneForward(e, w, i, t)
           s == Stage(w)
<1>1. /\ SameExpectation(e, d, {"got", "fwd"})
      /\ d.got = (IF t - 1 >= 1 /\ t - 1 >= s THEN e.got \cup {i} ELSE e.got)
      /\ d.fwd = IF t - 1 >= job.stages THEN e.fwd \cup {i} ELSE e.fwd
      /\ SameExpectation(e, f, {"got", "fwd"})
      /\ f.got = (IF t >= 1 /\ t >= s THEN e.got \cup {i} ELSE e.got)
      /\ f.fwd = IF t >= job.stages THEN e.fwd \cup {i} ELSE e.fwd
  <2>1. t \in Int /\ t - 1 \in Int
    OBVIOUS
  <2> QED BY <2>1, GoneForwardFields
<1>2. Known(w, n, d)
  OBVIOUS
<1>3. s \in 0 .. job.stages - 1 /\ job.stages \in Nat /\ (First(w) <=> s = 0) /\ (Final(w) <=> s = job.stages - 1)
  BY RankCoordinates, JobSizes DEF Sizes, First, Final
<1> HIDE DEF d, f, s
<1>4. KnownWork(w, n, d) /\ IsNote(n) /\ n.batch = e.batch /\ n.answers = e.answers /\ d.batch = e.batch
  BY <1>1, <1>2 DEF Known, SameExpectation
<1>5. d.fwd = e.fwd
  BY <1>1, <1>3
<1>6. IsNote(m) /\ m.batch = n.batch /\ m.answers = n.answers /\ m.out = n.out /\ m.grad = n.grad /\ m.count = n.count /\ m.norm = n.norm
  BY <1>4 DEF SameNote
<1>7. ~First(w) => \A j \in f.got : m.act[j] = Item(w, f.batch, j)
  <2> SUFFICES ASSUME ~First(w), NEW j \in f.got PROVE m.act[j] = Item(w, e.batch, j)
    BY <1>1 DEF SameExpectation
  <2>1. \A k \in d.got : n.act[k] = Item(w, e.batch, k)
    BY <1>4 DEF KnownWork
  <2>2. j \in Slots /\ e.got \subseteq Slots
    BY <1>1 DEF Expectations
  <2>3. CASE s = t
    <3>1. j \in e.got \/ j = i
      BY <1>1
    <3>2. d.got = e.got
      BY <1>1, <1>3, <2>3
    <3>3. \A k \in Slots : m.act[k] = IF k = i THEN Item(w, e.batch, i) ELSE n.act[k]
      BY <1>3, <2>3 DEF s
    <3> QED BY <2>1, <2>2, <3>1, <3>2, <3>3
  <2>4. CASE s # t
    <3>1. m.act = n.act
      BY <2>4 DEF SameNote, s
    <3>2. f.got = d.got
      BY <1>1, <1>3, <2>4
    <3> QED BY <2>1, <3>1, <3>2
  <2> QED BY <2>3, <2>4
<1>8. Final(w) => m.loss = Items(w, f.batch, f.fwd)
  <2> SUFFICES ASSUME Final(w) PROVE m.loss = Items(w, e.batch, f.fwd)
    BY <1>1 DEF SameExpectation
  <2>1. n.loss = Items(w, e.batch, e.fwd)
    BY <1>1, <1>4, <1>5 DEF KnownWork, SameExpectation
  <2>2. CASE t = job.stages
    <3>1. s = t - 1 /\ s # t /\ f.fwd = e.fwd \cup {i}
      BY <1>1, <1>3, <2>2
    <3> QED BY <3>1 DEF s
  <2>3. CASE t # job.stages
    <3>1. ~(s = t - 1) /\ f.fwd = e.fwd
      BY <1>1, <1>3, <2>3
    <3>2. m.loss = n.loss
      BY <3>1 DEF SameNote, s
    <3> QED BY <2>1, <3>1, <3>2
  <2> QED BY <2>2, <2>3
<1>9. KnownWork(w, m, f)
  <2>1. ~f.heard /\ ~f.lossAll
    BY <1>1 DEF SameExpectation
  <2>2. f.back = d.back /\ f.bwd = d.bwd /\ f.gradAll = d.gradAll /\ f.counted = d.counted /\ f.normed = d.normed /\ f.batch = d.batch
    BY <1>1 DEF SameExpectation
  <2> QED BY <1>4, <1>6, <1>7, <1>8, <2>1, <2>2 DEF KnownWork
<1>10. Known(w, m, f)
  BY <1>1, <1>4, <1>6, <1>9 DEF Known, SameExpectation
<1> QED BY <1>10 DEF f

LEMMA ForwardMomentLeads ==
  ASSUME job \in Jobs, NEW steps, NEW V, Closed(V), NEW i \in Slots, NEW E, ReadyForward(E, V, i), LevelBatch(E, V),
         NEW t \in 1 .. job.stages, NEW act, \A w \in World : act[w] = IF w \in V THEN ForwardMoment(w, i, t) ELSE <<>>,
         NEW D, \A w \in World : D[w] = IF w \in V THEN GoneForward(E[w], w, i, t - 1) ELSE E[w],
         NEW F, \A w \in World : F[w] = IF w \in V THEN GoneForward(E[w], w, i, t) ELSE E[w]
  PROVE  Leads(act, D, F, steps)
<1> SUFFICES ASSUME NEW N, Fits(N, D) PROVE \E M : Turns(act, N, M, F, steps)
  BY TurnsLead
<1>a. \A v \in V : v \in World
  BY DEF Closed
<1>0. ASSUME NEW v \in V, t - 1 >= Stage(v) PROVE NoteHeld(v, N[v], i) = Item(v, E[v].batch, i)
  <2> DEFINE d == GoneForward(E[v], v, i, t - 1)
  <2>1. v \in World /\ E[v] \in Expectations /\ E[v].loaded
    BY <1>a DEF ReadyForward
  <2>2. Known(v, N[v], d)
    BY <2>1 DEF Fits
  <2>3. /\ SameExpectation(E[v], d, {"got", "fwd"})
        /\ d.got = IF t - 1 >= 1 /\ t - 1 >= Stage(v) THEN E[v].got \cup {i} ELSE E[v].got
    <3> DEFINE e == E[v]
    <3>2. e \in Expectations /\ d = GoneForward(e, v, i, t - 1)
      BY <2>1
    <3> HIDE DEF e, d
    <3>3. t - 1 \in Int
      OBVIOUS
    <3>4. /\ SameExpectation(e, d, {"got", "fwd"})
          /\ d.got = IF t - 1 >= 1 /\ t - 1 >= Stage(v) THEN e.got \cup {i} ELSE e.got
      BY <3>2, <3>3, GoneForwardFields
    <3> QED BY <3>4 DEF e
  <2> HIDE DEF d
  <2>4. N[v].batch = E[v].batch /\ d.batch = E[v].batch /\ KnownWork(v, N[v], d)
    BY <2>1, <2>2, <2>3 DEF Known, SameExpectation
  <2>5. CASE First(v)
    BY <2>4, <2>5 DEF NoteHeld, Item
  <2>6. CASE ~First(v)
    <3>1. Stage(v) \in Nat /\ Stage(v) # 0
      BY <2>1, <2>6, RankCoordinates DEF First
    <3>2. i \in d.got
      BY <1>0, <2>3, <3>1
    <3> QED BY <2>4, <2>6, <3>2 DEF NoteHeld, KnownWork
  <2> QED BY <2>5, <2>6
<1> DEFINE M == [w \in World |->
             IF w \notin V THEN N[w]
             ELSE IF Stage(w) = t THEN [N[w] EXCEPT !.act = [N[w].act EXCEPT ![i] = NoteHeld(w - 1, N[w - 1], i)]]
             ELSE IF Stage(w) = t - 1 /\ Final(w) THEN [N[w] EXCEPT !.loss = Added(N[w].loss, NoteHeld(w, N[w], i))]
             ELSE N[w]]
<1>1. \A w \in World : M[w] =
             IF w \notin V THEN N[w]
             ELSE IF Stage(w) = t THEN [N[w] EXCEPT !.act = [N[w].act EXCEPT ![i] = NoteHeld(w - 1, N[w - 1], i)]]
             ELSE IF Stage(w) = t - 1 /\ Final(w) THEN [N[w] EXCEPT !.loss = Added(N[w].loss, NoteHeld(w, N[w], i))]
             ELSE N[w]
  OBVIOUS
<1> HIDE DEF M
<1>2. ASSUME NEW w \in World
      PROVE  act[w] \in Seq(TaskCalls) /\ Plays(w, act, N, M, steps) /\ Known(w, M[w], F[w])
  <2>1. Known(w, N[w], D[w])
    BY DEF Fits
  <2>2. CASE w \notin V
    <3>1. M[w] = N[w] /\ act[w] = <<>> /\ F[w] = D[w]
      BY <1>1, <2>2
    <3> QED BY <2>1, <3>1, IdlePlays
  <2>3. CASE w \in V
    <3> DEFINE e == E[w]
               s == Stage(w)
    <3>1. /\ e \in Expectations /\ e.loaded /\ ~e.heard /\ ~e.lossAll /\ i \notin e.fwd
          /\ D[w] = GoneForward(e, w, i, t - 1) /\ F[w] = GoneForward(e, w, i, t) /\ act[w] = ForwardMoment(w, i, t)
      BY <2>3 DEF ReadyForward
    <3>2. Known(w, N[w], GoneForward(e, w, i, t - 1))
      BY <2>1, <3>1
    <3>3. IsNote(N[w])
      BY <2>1 DEF Known
    <3>4. s \in 0 .. job.stages - 1 /\ job.stages \in Nat /\ (First(w) <=> s = 0) /\ (Final(w) <=> s = job.stages - 1)
      BY RankCoordinates, JobSizes DEF Sizes, First, Final
    <3>5. i \in Int
      BY DEF Slots
    <3> HIDE DEF e
    <3>6. CASE s = t
      <4> DEFINE q == w - 1
      <4>1. ~First(w)
        BY <3>4, <3>6
      <4>2. q \in World /\ Stage(q) = t - 1 /\ Replica(q) = Replica(w) /\ q + 1 = w
        BY <3>6, <4>1, Neighbours, RankCoordinates
      <4>3. q \in V
        BY <2>3, <4>2 DEF Closed, Pipeline
      <4>4. ~Final(q) /\ Stage(q) # t
        BY <3>4, <3>6, <4>2 DEF Final
      <4>5. act[q] = <<SendTo(w, "activation", i)>>
        <5>1. act[q] = ForwardMoment(q, i, t)
          BY <4>2, <4>3
        <5> QED BY <4>2, <4>4, <5>1 DEF ForwardMoment
      <4>6. act[w] = <<RecvFrom(q, "activation", i)>>
        BY <3>1, <3>6 DEF ForwardMoment
      <4>7. GetsAct(N[w], M[w], i, NoteHeld(q, N[q], i))
        BY <1>1, <2>3, <3>6 DEF GetsAct
      <4>8. NoteHeld(q, N[q], i) = Item(w, e.batch, i)
        <5>1. t - 1 >= Stage(q)
          BY <4>2
        <5>2. NoteHeld(q, N[q], i) = Item(q, E[q].batch, i)
          BY <1>0, <4>3, <5>1
        <5>3. q \in Pipeline(w) /\ E[q].batch = e.batch
          BY <2>3, <4>2 DEF LevelBatch, Pipeline, e
        <5> QED BY <4>2, <5>2, <5>3 DEF Item
      <4> HIDE DEF q
      <4>9. act[w] \in Seq(TaskCalls) /\ Plays(w, act, N, M, steps)
        BY <4>2, <4>5, <4>6, <4>7, ActivationGoes
      <4> DEFINE y == NoteHeld(q, N[q], i)
      <4>10. SameNote(N[w], M[w], {"act"}) /\ \A j \in Slots : M[w].act[j] = IF j = i THEN y ELSE N[w].act[j]
        <5>1. GetsAct(N[w], M[w], i, y)
          BY <4>7
        <5> HIDE DEF y
        <5> QED BY <3>3, <5>1, NoteGot
      <4>11. Known(w, M[w], GoneForward(e, w, i, t))
        <5>1. \A j \in Slots : M[w].act[j] = IF j = i THEN Item(w, e.batch, i) ELSE N[w].act[j]
          BY <4>8, <4>10
        <5> QED BY <3>1, <3>2, <3>6, <4>10, <5>1, KnownGoneForward DEF s
      <4> QED BY <3>1, <4>9, <4>11
    <3>7. CASE s = t - 1 /\ Final(w)
      <4> DEFINE c == Alone("loss", i)
                 y == Added(N[w].loss, NoteHeld(w, N[w], i))
      <4>0. s # t
        BY <3>7
      <4>1. act[w] = <<c>> /\ M[w] = [N[w] EXCEPT !.loss = y]
        BY <1>1, <2>3, <3>1, <3>7, <4>0 DEF ForwardMoment
      <4>2. c \in TaskCalls /\ c.do = "local" /\ c.what = "loss" /\ c.slot = i /\ c # Alone("update", 0)
        <5>1. "loss" \in TaskKinds \ Compared
          BY DEF TaskKinds, Compared
        <5>2. c \in TaskCalls /\ c.do = "local" /\ c.what = "loss" /\ c.slot = i
          BY <3>5, <5>1, AloneCall
        <5>3. Alone("update", 0).what = "update"
          BY DEF Alone, Call
        <5> QED BY <5>2, <5>3
      <4>3. y = Items(w, e.batch, e.fwd \cup {i})
        <5>1. NoteHeld(w, N[w], i) = Item(w, e.batch, i)
          <6>1. t - 1 >= Stage(w)
            BY <3>4, <3>7
          <6> QED BY <1>0, <2>3, <6>1 DEF e
        <5> DEFINE d == GoneForward(e, w, i, t - 1)
        <5>2. SameExpectation(e, d, {"got", "fwd"}) /\ d.fwd = IF t - 1 >= job.stages THEN e.fwd \cup {i} ELSE e.fwd
          <6>1. t - 1 \in Int
            OBVIOUS
          <6> QED BY <3>1, <6>1, GoneForwardFields
        <5>3. KnownWork(w, N[w], d)
          BY <3>1, <3>2, <5>2 DEF Known, SameExpectation
        <5> HIDE DEF d
        <5>4. d.fwd = e.fwd
          BY <3>4, <5>2
        <5>5. N[w].loss = Items(w, e.batch, e.fwd)
          BY <3>1, <3>7, <5>2, <5>3, <5>4 DEF KnownWork, SameExpectation
        <5>6. Item(w, e.batch, i) \notin Items(w, e.batch, e.fwd)
          BY <3>1 DEF Items, Item
        <5> QED BY <5>1, <5>5, <5>6 DEF Added, Items
      <4>4. Worked(w, c, N[w], M[w])
        BY <4>1, <4>2 DEF Worked
      <4> HIDE DEF c, y
      <4>5. act[w] \in Seq(TaskCalls) /\ Plays(w, act, N, M, steps)
        BY <4>1, <4>2, <4>4, WorkPlays
      <4>6. SameNote(N[w], M[w], {"loss"}) /\ M[w].loss = y
        BY <3>3, <4>1, NoteChanges
      <4>7. Known(w, M[w], GoneForward(e, w, i, t))
        BY <3>1, <3>2, <3>7, <4>3, <4>6, KnownGoneForward
      <4> QED BY <3>1, <4>5, <4>7
    <3>8. CASE s # t /\ ~(s = t - 1 /\ Final(w))
      <4>1. M[w] = N[w]
        BY <1>1, <3>8
      <4>2. Known(w, M[w], F[w])
        BY <3>1, <3>2, <3>8, <4>1, KnownGoneForward
      <4>3. CASE s # t - 1
        <5>1. act[w] = <<>>
          BY <3>1, <3>8, <4>3 DEF ForwardMoment
        <5> QED BY <4>1, <4>2, <5>1, IdlePlays
      <4>4. CASE s = t - 1
        <5> DEFINE v == w + 1
        <5>1. ~Final(w) /\ act[w] = <<SendTo(v, "activation", i)>>
          BY <3>1, <3>8, <4>4 DEF ForwardMoment
        <5>2. v \in World /\ Stage(v) = t /\ Replica(v) = Replica(w) /\ v - 1 = w
          BY <4>4, <5>1, Neighbours, RankCoordinates
        <5>3. v \in V
          BY <2>3, <5>2 DEF Closed, Pipeline
        <5>4. act[v] = <<RecvFrom(w, "activation", i)>>
          <6>1. act[v] = ForwardMoment(v, i, t)
            BY <5>2, <5>3
          <6> QED BY <5>2, <6>1 DEF ForwardMoment
        <5> HIDE DEF v
        <5>5. act[w] \in Seq(TaskCalls) /\ Plays(w, act, N, M, steps)
          BY <4>1, <5>1, <5>2, <5>4, ActivationGoes
        <5> QED BY <4>2, <5>5
      <4> QED BY <4>3, <4>4
    <3> QED BY <3>6, <3>7, <3>8
  <2> QED BY <2>2, <2>3
<1>3. Turns(act, N, M, F, steps)
  BY <1>2 DEF Turns
<1> QED BY <1>3

LEMMA ReachedAgain ==
  ASSUME NEW e \in Expectations
  PROVE  /\ Reached(e, e.got, e.fwd, e.back, e.bwd) = e
         /\ \A got, fwd, back, bwd \in SUBSET Slots : Reached(e, got, fwd, back, bwd) \in Expectations
         /\ \A a, b, c, d, p, q, r, s : Reached(Reached(e, a, b, c, d), p, q, r, s) = Reached(e, p, q, r, s)
<1>1. Reached(e, e.got, e.fwd, e.back, e.bwd) = e
  BY DEF Reached, Expectations
<1>2. \A got, fwd, back, bwd \in SUBSET Slots : Reached(e, got, fwd, back, bwd) \in Expectations
  BY DEF Reached, Expectations
<1>3. \A a, b, c, d, p, q, r, s : Reached(Reached(e, a, b, c, d), p, q, r, s) = Reached(e, p, q, r, s)
  BY DEF Reached
<1> QED BY <1>1, <1>2, <1>3

LEMMA ForwardLeads ==
  ASSUME job \in Jobs, NEW steps, NEW V, Closed(V), NEW i \in Slots, NEW E, ReadyForward(E, V, i), LevelBatch(E, V),
         NEW P, \A w \in World : P[w] = IF w \in V THEN Forward(w, i) ELSE <<>>,
         NEW F, \A w \in World :
           F[w] = IF w \in V THEN Reached(E[w], E[w].got \cup {i}, E[w].fwd \cup {i}, E[w].back, E[w].bwd) ELSE E[w]
  PROVE  Leads(P, E, F, steps)
<1> DEFINE n == job.stages
           Q == [k \in 0 .. n |-> [w \in World |->
                  IF w \notin V \/ k < Stage(w) THEN <<>>
                  ELSE IF k = Stage(w) THEN When(~First(w), <<RecvFrom(w - 1, "activation", i)>>) ELSE Forward(w, i)]]
           G == [k \in 0 .. n |-> [w \in World |-> IF w \in V THEN GoneForward(E[w], w, i, k) ELSE E[w]]]
           B == [k \in 1 .. n |-> [w \in World |-> IF w \in V THEN ForwardMoment(w, i, k) ELSE <<>>]]
<1>0. n \in Nat /\ n > 0
  BY JobSizes DEF Sizes
<1>1. \A k \in 0 .. n : \A w \in World : Q[k][w] =
        IF w \notin V \/ k < Stage(w) THEN <<>>
        ELSE IF k = Stage(w) THEN When(~First(w), <<RecvFrom(w - 1, "activation", i)>>) ELSE Forward(w, i)
  OBVIOUS
<1>2. \A k \in 0 .. n : \A w \in World : G[k][w] = IF w \in V THEN GoneForward(E[w], w, i, k) ELSE E[w]
  OBVIOUS
<1>3. \A k \in 1 .. n : \A w \in World : B[k][w] = IF w \in V THEN ForwardMoment(w, i, k) ELSE <<>>
  OBVIOUS
<1>4. \A w \in World : Stage(w) \in 0 .. n - 1 /\ (First(w) <=> Stage(w) = 0) /\ (Final(w) <=> Stage(w) = n - 1)
  BY RankCoordinates DEF First, Final
<1> HIDE DEF Q, G, B
<1>5. \A w \in World : Q[0][w] = <<>>
  <2> TAKE w \in World
  <2>1. 0 \in 0 .. n
    BY <1>0
  <2>2. CASE Stage(w) = 0
    BY <1>1, <1>4, <2>1, <2>2 DEF When
  <2>3. CASE Stage(w) # 0
    <3>1. 0 < Stage(w)
      BY <1>4, <2>3
    <3> QED BY <1>1, <2>1, <3>1
  <2> QED BY <2>2, <2>3
<1>6. ASSUME NEW k \in 1 .. n PROVE Joins(Q[k], Q[k - 1], B[k])
  <2> SUFFICES ASSUME NEW w \in World PROVE Q[k][w] = Q[k - 1][w] \o B[k][w]
    BY DEF Joins
  <2> DEFINE s == Stage(w)
             x == <<RecvFrom(w - 1, "activation", i)>>
             y == IF Final(w) THEN <<Alone("loss", i)>> ELSE <<SendTo(w + 1, "activation", i)>>
  <2>1. k \in 0 .. n /\ k - 1 \in 0 .. n /\ s \in 0 .. n - 1 /\ k - 1 \in Int
    BY <1>0, <1>4
  <2>2. Forward(w, i) = When(~First(w), x) \o y
    BY DEF Forward
  <2>3. /\ Q[k][w] = IF w \notin V \/ k < s THEN <<>> ELSE IF k = s THEN When(~First(w), x) ELSE Forward(w, i)
        /\ Q[k - 1][w] = IF w \notin V \/ k - 1 < s THEN <<>> ELSE IF k - 1 = s THEN When(~First(w), x) ELSE Forward(w, i)
        /\ B[k][w] = IF w \in V THEN (IF s = k THEN x ELSE IF s = k - 1 THEN y ELSE <<>>) ELSE <<>>
    BY <1>1, <1>3, <2>1 DEF ForwardMoment
  <2>4. Forward(w, i) \in Seq(EarlyCalls) /\ x \in Seq({RecvFrom(w - 1, "activation", i)})
    <3>1. i \in Int
      BY DEF Slots
    <3> QED BY <3>1, MicroCalls
  <2>5. First(w) <=> s = 0
    BY <1>4
  <2> HIDE DEF s, x, y
  <2>6. CASE w \notin V
    BY <2>3, <2>6
  <2>7. CASE w \in V /\ k < s
    <3>1. k - 1 < s /\ s # k /\ s # k - 1
      BY <2>1, <2>7
    <3> QED BY <2>3, <2>7, <3>1
  <2>8. CASE w \in V /\ k = s
    <3>1. k - 1 < s /\ ~(k < s) /\ ~First(w)
      BY <2>1, <2>5, <2>8
    <3>2. <<>> \o x = x
      BY <2>4
    <3> QED BY <2>3, <2>8, <3>1, <3>2 DEF When
  <2>9. CASE w \in V /\ k - 1 = s
    <3>1. ~(k - 1 < s) /\ ~(k < s) /\ k # s
      BY <2>1, <2>9
    <3> QED BY <2>2, <2>3, <2>9, <3>1
  <2>10. CASE w \in V /\ k - 1 > s
    <3>1. ~(k - 1 < s) /\ ~(k < s) /\ k # s /\ k - 1 # s
      BY <2>1, <2>10
    <3>2. Forward(w, i) \o <<>> = Forward(w, i)
      BY <2>4
    <3> QED BY <2>3, <2>10, <3>1, <3>2
  <2>11. k < s \/ k = s \/ k - 1 = s \/ k - 1 > s
    BY <2>1
  <2> QED BY <2>6, <2>7, <2>8, <2>9, <2>10, <2>11
<1>7. ASSUME NEW k \in 1 .. n PROVE Leads(B[k], G[k - 1], G[k], steps)
  <2>1. k \in 0 .. n /\ k - 1 \in 0 .. n
    BY <1>0
  <2>2. \A w \in World : G[k][w] = IF w \in V THEN GoneForward(E[w], w, i, k) ELSE E[w]
    BY <1>2, <2>1
  <2>3. \A w \in World : G[k - 1][w] = IF w \in V THEN GoneForward(E[w], w, i, k - 1) ELSE E[w]
    BY <1>2, <2>1
  <2>4. \A w \in World : B[k][w] = IF w \in V THEN ForwardMoment(w, i, k) ELSE <<>>
    BY <1>3
  <2> QED BY <2>2, <2>3, <2>4, ForwardMomentLeads
<1>8. Leads(Q[n], G[0], G[n], steps)
  BY <1>0, <1>5, <1>6, <1>7, LoopLeads
<1>9. \A w \in World : Q[n][w] = P[w]
  <2> TAKE w \in World
  <2>1. n \in 0 .. n /\ ~(n < Stage(w)) /\ n # Stage(w)
    BY <1>0, <1>4
  <2>2. Q[n][w] = IF w \in V THEN Forward(w, i) ELSE <<>>
    <3> HIDE DEF n
    <3> QED BY <1>1, <2>1
  <2> QED BY <2>2
<1>10. Leads(P, G[0], G[n], steps)
  BY <1>8, <1>9, LeadsSame
<1>11. \A w \in World : G[0][w] = E[w] /\ G[n][w] = F[w]
  <2> TAKE w \in World
  <2>1. G[0][w] = (IF w \in V THEN GoneForward(E[w], w, i, 0) ELSE E[w]) /\ G[n][w] = IF w \in V THEN GoneForward(E[w], w, i, n) ELSE E[w]
    BY <1>0, <1>2
  <2>2. ASSUME w \in V
        PROVE  /\ GoneForward(E[w], w, i, 0) = E[w]
               /\ GoneForward(E[w], w, i, n) = Reached(E[w], E[w].got \cup {i}, E[w].fwd \cup {i}, E[w].back, E[w].bwd)
    <3> DEFINE e == E[w]
    <3>1. e \in Expectations
      BY <2>2 DEF ReadyForward
    <3> HIDE DEF e
    <3>2. ~(0 >= 1) /\ ~(0 >= n) /\ n >= 1 /\ n >= Stage(w) /\ n >= n
      BY <1>0, <1>4
    <3>3. GoneForward(e, w, i, 0) = Reached(e, e.got, e.fwd, e.back, e.bwd)
      BY <3>2 DEF GoneForward
    <3>4. GoneForward(e, w, i, n) = Reached(e, e.got \cup {i}, e.fwd \cup {i}, e.back, e.bwd)
      BY <3>2 DEF GoneForward
    <3> QED BY <3>1, <3>3, <3>4, ReachedAgain DEF e
  <2> QED BY <2>1, <2>2
<1>12. (\A N : Fits(N, E) => Fits(N, G[0])) /\ \A N : Fits(N, G[n]) => Fits(N, F)
  BY <1>11 DEF Fits
<1> QED BY <1>10, <1>12 DEF Leads

\* Micro-batch i comes back: stage by stage from the last, each works and sends.
Depth(w) == job.stages - 1 - Stage(w)
BackwardMoment(w, i, t) ==
  IF t = 2 * Depth(w) THEN <<RecvFrom(w + 1, "gradient", i)>>
  ELSE IF t = 2 * Depth(w) + 1 THEN <<Alone("backward", i)>>
  ELSE IF t = 2 * Depth(w) + 2 THEN <<SendTo(w - 1, "gradient", i)>>
  ELSE <<>>
GoneBackward(e, w, i, t) ==
  Reached(e, e.got, e.fwd, IF t >= 1 /\ t >= 2 * Depth(w) THEN e.back \cup {i} ELSE e.back,
          IF t >= 2 * Depth(w) + 1 THEN e.bwd \cup {i} ELSE e.bwd)
\* Before: the batch is loaded, the activation is there and no sum is shared.
ReadyBackward(E, i) ==
  \A w \in World : E[w] \in Expectations /\ E[w].loaded /\ ~E[w].gradAll /\ i \in E[w].got /\ i \notin E[w].bwd

LEMMA Depths ==
  ASSUME job \in Jobs, NEW w \in World
  PROVE  /\ Depth(w) \in 0 .. job.stages - 1 /\ 2 * Depth(w) \in 0 .. 2 * job.stages - 2 /\ job.stages \in Nat /\ job.stages > 0
         /\ Final(w) <=> 2 * Depth(w) = 0
         /\ First(w) <=> 2 * Depth(w) = 2 * job.stages - 2
         /\ ~Final(w) => w + 1 \in World /\ 2 * Depth(w + 1) = 2 * Depth(w) - 2 /\ Replica(w + 1) = Replica(w) /\ ~First(w + 1)
         /\ ~First(w) => w - 1 \in World /\ 2 * Depth(w - 1) = 2 * Depth(w) + 2 /\ Replica(w - 1) = Replica(w) /\ ~Final(w - 1)
<1> DEFINE s == Stage(w)
           n == job.stages
<1>1. s \in 0 .. n - 1 /\ n \in Nat /\ n > 0 /\ (First(w) <=> s = 0) /\ (Final(w) <=> s = n - 1)
  BY RankCoordinates, JobSizes DEF Sizes, First, Final
<1>2. Depth(w) = n - 1 - s
  BY DEF Depth
<1>3. ASSUME ~Final(w) PROVE w + 1 \in World /\ 2 * Depth(w + 1) = 2 * Depth(w) - 2 /\ Replica(w + 1) = Replica(w) /\ ~First(w + 1)
  <2> DEFINE v == w + 1
  <2>1. v \in World /\ Stage(v) = s + 1 /\ Replica(v) = Replica(w)
    BY <1>3, Neighbours
  <2>2. Depth(v) = n - 1 - (s + 1)
    BY <2>1 DEF Depth
  <2> HIDE DEF v, s, n
  <2> QED BY <1>1, <1>2, <2>1, <2>2 DEF v, First
<1>4. ASSUME ~First(w) PROVE w - 1 \in World /\ 2 * Depth(w - 1) = 2 * Depth(w) + 2 /\ Replica(w - 1) = Replica(w) /\ ~Final(w - 1)
  <2> DEFINE v == w - 1
  <2>1. v \in World /\ Stage(v) = s - 1 /\ Replica(v) = Replica(w)
    BY <1>4, Neighbours
  <2>2. Depth(v) = n - 1 - (s - 1)
    BY <2>1 DEF Depth
  <2>3. ~Final(v)
    <3>1. Final(v) <=> Stage(v) = n - 1
      BY DEF Final
    <3> HIDE DEF v, s, n
    <3> QED BY <1>1, <2>1, <3>1
  <2> HIDE DEF v, s, n
  <2> QED BY <1>1, <1>2, <2>1, <2>2, <2>3 DEF v
<1> HIDE DEF s, n
<1>5. Depth(w) \in 0 .. n - 1 /\ 2 * Depth(w) \in 0 .. 2 * n - 2 /\ (Final(w) <=> 2 * Depth(w) = 0) /\ (First(w) <=> 2 * Depth(w) = 2 * n - 2)
  BY <1>1, <1>2
<1> QED BY <1>1, <1>3, <1>4, <1>5 DEF n

LEMMA GoneBackwardFields ==
  ASSUME job \in Jobs, NEW e \in Expectations, NEW w, NEW i \in Slots, NEW t \in Int
  PROVE  LET f == GoneBackward(e, w, i, t)
         IN /\ SameExpectation(e, f, {"back", "bwd"})
            /\ f.back = (IF t >= 1 /\ t >= 2 * Depth(w) THEN e.back \cup {i} ELSE e.back)
            /\ f.bwd = IF t >= 2 * Depth(w) + 1 THEN e.bwd \cup {i} ELSE e.bwd
<1> DEFINE back == IF t >= 1 /\ t >= 2 * Depth(w) THEN e.back \cup {i} ELSE e.back
           bwd == IF t >= 2 * Depth(w) + 1 THEN e.bwd \cup {i} ELSE e.bwd
           f == GoneBackward(e, w, i, t)
<1>1. e.got \in SUBSET Slots /\ e.fwd \in SUBSET Slots /\ e.back \in SUBSET Slots /\ e.bwd \in SUBSET Slots
  BY DEF Expectations
<1>2. back \in SUBSET Slots /\ bwd \in SUBSET Slots
  BY <1>1
<1>3. f = Reached(e, e.got, e.fwd, back, bwd)
  BY DEF GoneBackward
<1> HIDE DEF back, bwd, f
<1>4. SameExpectation(e, f, {"got", "fwd", "back", "bwd"}) /\ f.got = e.got /\ f.fwd = e.fwd /\ f.back = back /\ f.bwd = bwd
  BY <1>1, <1>2, <1>3, ReachedFields
<1>5. SameExpectation(e, f, {"back", "bwd"})
  BY <1>4 DEF SameExpectation
<1> QED BY <1>4, <1>5 DEF back, bwd, f

ComesBack(w, n, m, i, e, t) ==
  \/ m = n /\ t # 2 * Depth(w) /\ t # 2 * Depth(w) + 1
  \/ /\ t = 2 * Depth(w)
     /\ SameNote(n, m, {"out"}) /\ \A j \in Slots : m.out[j] = IF j = i THEN Item(w, e.batch, i) ELSE n.out[j]
  \/ /\ t = 2 * Depth(w) + 1
     /\ SameNote(n, m, {"grad", "out"}) /\ m.grad = Items(w, e.batch, e.bwd \cup {i})
     /\ \A j \in Slots : m.out[j] = IF j = i THEN Item(w, e.batch, i) ELSE n.out[j]

LEMMA KnownGoneBackward ==
  ASSUME job \in Jobs, NEW w \in World, NEW i \in Slots, NEW e \in Expectations, e.loaded, ~e.gradAll,
         NEW t \in 1 .. 2 * job.stages - 1, NEW n, Known(w, n, GoneBackward(e, w, i, t - 1)), NEW m,
         ComesBack(w, n, m, i, e, t)
  PROVE  Known(w, m, GoneBackward(e, w, i, t))
<1> DEFINE d == GoneBackward(e, w, i, t - 1)
           f == GoneBackward(e, w, i, t)
           r == 2 * Depth(w)
<1>1. /\ SameExpectation(e, d, {"back", "bwd"})
      /\ d.back = (IF t - 1 >= 1 /\ t - 1 >= r THEN e.back \cup {i} ELSE e.back)
      /\ d.bwd = IF t - 1 >= r + 1 THEN e.bwd \cup {i} ELSE e.bwd
      /\ SameExpectation(e, f, {"back", "bwd"})
      /\ f.back = (IF t >= 1 /\ t >= r THEN e.back \cup {i} ELSE e.back)
      /\ f.bwd = IF t >= r + 1 THEN e.bwd \cup {i} ELSE e.bwd
  <2>1. t \in Int /\ t - 1 \in Int
    OBVIOUS
  <2> QED BY <2>1, GoneBackwardFields
<1>2. Known(w, n, d)
  OBVIOUS
<1>3. r \in Nat /\ t \in Nat /\ t >= 1
  BY Depths
<1>c. \/ m = n /\ t # r /\ t # r + 1
      \/ /\ t = r
         /\ SameNote(n, m, {"out"}) /\ \A j \in Slots : m.out[j] = IF j = i THEN Item(w, e.batch, i) ELSE n.out[j]
      \/ /\ t = r + 1
         /\ SameNote(n, m, {"grad", "out"}) /\ m.grad = Items(w, e.batch, e.bwd \cup {i})
         /\ \A j \in Slots : m.out[j] = IF j = i THEN Item(w, e.batch, i) ELSE n.out[j]
  BY DEF ComesBack
<1> HIDE DEF d, f, r
<1>4. KnownWork(w, n, d) /\ IsNote(n) /\ n.batch = e.batch /\ n.answers = e.answers /\ d.batch = e.batch
  BY <1>1, <1>2 DEF Known, SameExpectation
<1>6. IsNote(m) /\ m.batch = n.batch /\ m.answers = n.answers /\ m.act = n.act /\ m.loss = n.loss /\ m.count = n.count /\ m.norm = n.norm
  BY <1>c, <1>4 DEF SameNote
<1>7. \A j \in f.back : m.out[j] = Item(w, f.batch, j)
  <2> SUFFICES ASSUME NEW j \in f.back PROVE m.out[j] = Item(w, e.batch, j)
    BY <1>1 DEF SameExpectation
  <2>1. \A k \in d.back : n.out[k] = Item(w, e.batch, k)
    BY <1>4 DEF KnownWork
  <2>2. j \in Slots /\ e.back \subseteq Slots
    BY <1>1 DEF Expectations
  <2>3. CASE t = r \/ t = r + 1
    <3>1. j \in e.back \/ j = i
      BY <1>1
    <3>2. e.back \subseteq d.back
      BY <1>1
    <3>3. \A k \in Slots : m.out[k] = IF k = i THEN Item(w, e.batch, i) ELSE n.out[k]
      BY <1>c, <2>3
    <3> QED BY <2>1, <2>2, <3>1, <3>2, <3>3
  <2>4. CASE t # r /\ t # r + 1
    <3>1. m.out = n.out
      BY <1>c, <2>4
    <3>2. f.back = d.back
      BY <1>1, <1>3, <2>4
    <3> QED BY <2>1, <3>1, <3>2
  <2> QED BY <2>3, <2>4
<1>8. m.grad = Items(w, f.batch, f.bwd)
  <2> SUFFICES m.grad = Items(w, e.batch, f.bwd)
    BY <1>1 DEF SameExpectation
  <2>1. n.grad = Items(w, e.batch, d.bwd)
    BY <1>1, <1>4 DEF KnownWork, SameExpectation
  <2>2. CASE t = r + 1
    <3>1. f.bwd = e.bwd \cup {i} /\ t # r
      BY <1>1, <1>3, <2>2
    <3> QED BY <1>c, <2>2, <3>1
  <2>3. CASE t # r + 1
    <3>1. f.bwd = d.bwd
      BY <1>1, <1>3, <2>3
    <3>2. m.grad = n.grad
      BY <1>c, <2>3 DEF SameNote
    <3> QED BY <2>1, <3>1, <3>2
  <2> QED BY <2>2, <2>3
<1>9. KnownWork(w, m, f)
  <2>1. ~f.gradAll
    BY <1>1 DEF SameExpectation
  <2>2. f.got = d.got /\ f.fwd = d.fwd /\ f.heard = d.heard /\ f.lossAll = d.lossAll /\ f.counted = d.counted /\ f.normed = d.normed /\ f.batch = d.batch
    BY <1>1 DEF SameExpectation
  <2> QED BY <1>4, <1>6, <1>7, <1>8, <2>1, <2>2 DEF KnownWork
<1>10. Known(w, m, f)
  BY <1>1, <1>4, <1>6, <1>9 DEF Known, SameExpectation
<1> QED BY <1>10 DEF f

LEMMA BackwardMomentLeads ==
  ASSUME job \in Jobs, NEW steps, NEW i \in Slots, NEW E, ReadyBackward(E, i), LevelBatch(E, World),
         NEW t \in 1 .. 2 * job.stages - 1, NEW act, \A w \in World : act[w] = BackwardMoment(w, i, t),
         NEW D, \A w \in World : D[w] = GoneBackward(E[w], w, i, t - 1),
         NEW F, \A w \in World : F[w] = GoneBackward(E[w], w, i, t)
  PROVE  Leads(act, D, F, steps)
<1> SUFFICES ASSUME NEW N, Fits(N, D) PROVE \E M : Turns(act, N, M, F, steps)
  BY TurnsLead
<1>t. t \in Nat /\ t >= 1 /\ t - 1 \in Int /\ t <= 2 * job.stages - 1 /\ i \in Int
  BY JobSizes DEF Sizes, Slots
<1>0. ASSUME NEW v \in World
      PROVE  /\ NoteHeld(v, N[v], i) = Item(v, E[v].batch, i)
             /\ t - 1 >= 1 /\ t - 1 >= 2 * Depth(v) => N[v].out[i] = Item(v, E[v].batch, i)
             /\ t - 1 < 2 * Depth(v) + 1 => N[v].grad = Items(v, E[v].batch, E[v].bwd)
             /\ IsNote(N[v])
  <2> DEFINE e == E[v]
             d == GoneBackward(e, v, i, t - 1)
  <2>1. e \in Expectations /\ e.loaded /\ ~e.gradAll /\ i \in e.got
    BY DEF ReadyBackward
  <2>2. Known(v, N[v], d)
    BY DEF Fits
  <2> HIDE DEF e
  <2>3. /\ SameExpectation(e, d, {"back", "bwd"})
        /\ d.back = (IF t - 1 >= 1 /\ t - 1 >= 2 * Depth(v) THEN e.back \cup {i} ELSE e.back)
        /\ d.bwd = IF t - 1 >= 2 * Depth(v) + 1 THEN e.bwd \cup {i} ELSE e.bwd
    BY <1>t, <2>1, GoneBackwardFields
  <2> HIDE DEF d
  <2>4. N[v].batch = e.batch /\ d.batch = e.batch /\ KnownWork(v, N[v], d) /\ IsNote(N[v]) /\ i \in d.got /\ ~d.gradAll
    BY <2>1, <2>2, <2>3 DEF Known, SameExpectation
  <2>5. NoteHeld(v, N[v], i) = Item(v, e.batch, i)
    BY <2>4 DEF NoteHeld, Item, KnownWork
  <2>6. t - 1 >= 1 /\ t - 1 >= 2 * Depth(v) => N[v].out[i] = Item(v, e.batch, i)
    BY <2>3, <2>4 DEF KnownWork
  <2>7. t - 1 < 2 * Depth(v) + 1 => N[v].grad = Items(v, e.batch, e.bwd)
    <3>1. 2 * Depth(v) \in Int
      BY Depths
    <3>2. t - 1 < 2 * Depth(v) + 1 => d.bwd = e.bwd
      BY <1>t, <2>3, <3>1
    <3> QED BY <2>4, <3>2 DEF KnownWork
  <2> QED BY <2>4, <2>5, <2>6, <2>7 DEF e
<1> DEFINE M == [w \in World |->
             IF t = 2 * Depth(w) THEN [N[w] EXCEPT !.out = [N[w].out EXCEPT ![i] = N[w + 1].out[i]]]
             ELSE IF t = 2 * Depth(w) + 1 THEN
               [batch |-> N[w].batch, act |-> N[w].act, out |-> [N[w].out EXCEPT ![i] = NoteGradient(w, N[w], i)],
                grad |-> Added(N[w].grad, NoteGradient(w, N[w], i)), loss |-> N[w].loss, count |-> N[w].count,
                norm |-> N[w].norm, answers |-> N[w].answers]
             ELSE N[w]]
<1>1. \A w \in World : M[w] =
             IF t = 2 * Depth(w) THEN [N[w] EXCEPT !.out = [N[w].out EXCEPT ![i] = N[w + 1].out[i]]]
             ELSE IF t = 2 * Depth(w) + 1 THEN
               [batch |-> N[w].batch, act |-> N[w].act, out |-> [N[w].out EXCEPT ![i] = NoteGradient(w, N[w], i)],
                grad |-> Added(N[w].grad, NoteGradient(w, N[w], i)), loss |-> N[w].loss, count |-> N[w].count,
                norm |-> N[w].norm, answers |-> N[w].answers]
             ELSE N[w]
  OBVIOUS
<1> HIDE DEF M
<1>2. ASSUME NEW w \in World
      PROVE  act[w] \in Seq(TaskCalls) /\ Plays(w, act, N, M, steps) /\ Known(w, M[w], F[w])
  <2> DEFINE e == E[w]
             r == 2 * Depth(w)
  <2>1. /\ e \in Expectations /\ e.loaded /\ ~e.gradAll /\ i \notin e.bwd
        /\ D[w] = GoneBackward(e, w, i, t - 1) /\ F[w] = GoneBackward(e, w, i, t) /\ act[w] = BackwardMoment(w, i, t)
    BY DEF ReadyBackward
  <2>2. Known(w, N[w], GoneBackward(e, w, i, t - 1)) /\ IsNote(N[w])
    BY <1>0, <2>1 DEF Fits
  <2>3. /\ r \in Nat /\ (Final(w) <=> r = 0) /\ (First(w) <=> r = 2 * job.stages - 2) /\ job.stages \in Nat
        /\ ~Final(w) => w + 1 \in World /\ 2 * Depth(w + 1) = r - 2 /\ Replica(w + 1) = Replica(w)
        /\ ~First(w) => w - 1 \in World /\ 2 * Depth(w - 1) = r + 2 /\ Replica(w - 1) = Replica(w)
    BY Depths
  <2> HIDE DEF e
  <2>4. CASE t = r
    <3> DEFINE q == w + 1
               y == N[q].out[i]
    <3>1. ~Final(w) /\ w \in Int
      BY <1>t, <2>3, <2>4, WorldRanks
    <3>2. q \in World /\ 2 * Depth(q) = t - 2 /\ Replica(q) = Replica(w) /\ q - 1 = w
      BY <2>3, <2>4, <3>1
    <3>3. act[w] = <<RecvFrom(q, "gradient", i)>>
      BY <2>1, <2>4 DEF BackwardMoment
    <3>4. act[q] = <<SendTo(w, "gradient", i)>>
      <4> DEFINE k == 2 * Depth(q)
      <4>1. act[q] = BackwardMoment(q, i, t)
        BY <3>2
      <4>2. t # k /\ t # k + 1 /\ t = k + 2
        <5> HIDE DEF q
        <5> QED BY <1>t, <3>2
      <4> QED BY <3>2, <4>1, <4>2 DEF BackwardMoment
    <3>5. y = Item(w, e.batch, i)
      <4>1. t - 1 >= 1 /\ t - 1 >= 2 * Depth(q)
        <5>1. 2 * Depth(q) \in Nat
          BY <3>2, Depths
        <5> HIDE DEF q
        <5> QED BY <1>t, <3>2, <5>1
      <4>2. y = Item(q, E[q].batch, i)
        BY <1>0, <3>2, <4>1
      <4>3. E[q].batch = e.batch
        BY <3>2 DEF LevelBatch, Pipeline, e
      <4> QED BY <3>2, <4>2, <4>3 DEF Item
    <3>6. GetsOut(N[w], M[w], i, y)
      BY <1>1, <2>4 DEF GetsOut
    <3> HIDE DEF q
    <3>7. act[w] \in Seq(TaskCalls) /\ Plays(w, act, N, M, steps)
      BY <3>2, <3>3, <3>4, <3>6, GradientGoes
    <3> HIDE DEF y
    <3>8. SameNote(N[w], M[w], {"out"}) /\ \A j \in Slots : M[w].out[j] = IF j = i THEN y ELSE N[w].out[j]
      BY <2>2, <3>6, NoteGot
    <3>9. \A j \in Slots : M[w].out[j] = IF j = i THEN Item(w, e.batch, i) ELSE N[w].out[j]
      BY <3>5, <3>8
    <3>10. Known(w, M[w], F[w])
      <4>1. ComesBack(w, N[w], M[w], i, e, t)
        BY <2>4, <3>8, <3>9 DEF ComesBack
      <4> QED BY <2>1, <2>2, <4>1, KnownGoneBackward
    <3> QED BY <3>7, <3>10
  <2>5. CASE t = r + 1
    <3> DEFINE c == Alone("backward", i)
               y == NoteGradient(w, N[w], i)
               h == Added(N[w].grad, y)
    <3>0. t # r
      BY <2>3, <2>5
    <3>1. act[w] = <<c>>
      BY <2>1, <2>5, <3>0 DEF BackwardMoment
    <3>2. M[w] = [batch |-> N[w].batch, act |-> N[w].act, out |-> [N[w].out EXCEPT ![i] = y], grad |-> h,
                  loss |-> N[w].loss, count |-> N[w].count, norm |-> N[w].norm, answers |-> N[w].answers]
      BY <1>1, <2>5, <3>0
    <3>3. c \in TaskCalls /\ c.do = "local" /\ c.what = "backward" /\ c.slot = i /\ c # Alone("update", 0)
      <4>1. "backward" \in TaskKinds \ Compared
        BY DEF TaskKinds, Compared
      <4>2. c \in TaskCalls /\ c.do = "local" /\ c.what = "backward" /\ c.slot = i
        BY <1>t, <4>1, AloneCall
      <4>3. Alone("update", 0).what = "update"
        BY DEF Alone, Call
      <4> QED BY <4>2, <4>3
    <3>4. y = Item(w, e.batch, i)
      <4>1. NoteHeld(w, N[w], i) = Item(w, e.batch, i)
        BY <1>0 DEF e
      <4>2. ~Final(w) => N[w].out[i] = Item(w, e.batch, i)
        <5>1. ~Final(w) => t - 1 >= 1 /\ t - 1 >= r
          BY <1>t, <2>3, <2>5
        <5> QED BY <1>0, <5>1 DEF e
      <4> QED BY <4>1, <4>2 DEF NoteGradient
    <3>5. h = Items(w, e.batch, e.bwd \cup {i})
      <4>1. N[w].grad = Items(w, e.batch, e.bwd)
        <5>1. t - 1 < r + 1
          BY <1>t, <2>3, <2>5
        <5> QED BY <1>0, <5>1 DEF e
      <4>2. Item(w, e.batch, i) \notin Items(w, e.batch, e.bwd)
        BY <2>1 DEF Items, Item
      <4> QED BY <3>4, <4>1, <4>2 DEF Added, Items
    <3>6. Worked(w, c, N[w], M[w])
      BY <3>2, <3>3 DEF Worked
    <3> HIDE DEF c, y, h
    <3>7. act[w] \in Seq(TaskCalls) /\ Plays(w, act, N, M, steps)
      BY <3>1, <3>3, <3>6, WorkPlays
    <3>8. /\ SameNote(N[w], M[w], {"grad", "out"}) /\ M[w].grad = h
          /\ \A j \in Slots : M[w].out[j] = IF j = i THEN y ELSE N[w].out[j]
      <4>1. Gains(N[w], M[w], i, y, h)
        BY <3>2 DEF Gains
      <4> QED BY <2>2, <4>1, NoteGains
    <3>9. \A j \in Slots : M[w].out[j] = IF j = i THEN Item(w, e.batch, i) ELSE N[w].out[j]
      BY <3>4, <3>8
    <3>10. Known(w, M[w], F[w])
      <4>1. ComesBack(w, N[w], M[w], i, e, t)
        BY <2>5, <3>5, <3>8, <3>9 DEF ComesBack
      <4> QED BY <2>1, <2>2, <4>1, KnownGoneBackward
    <3> QED BY <3>7, <3>10
  <2>6. CASE t # r /\ t # r + 1
    <3>1. M[w] = N[w]
      BY <1>1, <2>6
    <3>2. Known(w, M[w], F[w])
      <4>1. ComesBack(w, N[w], M[w], i, e, t)
        BY <2>6, <3>1 DEF ComesBack
      <4> QED BY <2>1, <2>2, <4>1, KnownGoneBackward
    <3>3. CASE t # r + 2
      <4>1. act[w] = <<>>
        BY <2>1, <2>6, <3>3 DEF BackwardMoment
      <4> QED BY <3>1, <3>2, <4>1, IdlePlays
    <3>4. CASE t = r + 2
      <4> DEFINE v == w - 1
      <4>1. act[w] = <<SendTo(v, "gradient", i)>>
        BY <2>1, <2>6, <3>4 DEF BackwardMoment
      <4>2. ~First(w) /\ w \in Int
        BY <1>t, <2>3, <3>4, WorldRanks
      <4>3. v \in World /\ 2 * Depth(v) = t /\ v + 1 = w
        BY <2>3, <3>4, <4>2
      <4>4. act[v] = <<RecvFrom(w, "gradient", i)>>
        <5>1. act[v] = BackwardMoment(v, i, t)
          BY <4>3
        <5> QED BY <4>3, <5>1 DEF BackwardMoment
      <4> HIDE DEF v
      <4>5. act[w] \in Seq(TaskCalls) /\ Plays(w, act, N, M, steps)
        BY <3>1, <4>1, <4>3, <4>4, GradientGoes
      <4> QED BY <3>2, <4>5
    <3> QED BY <3>3, <3>4
  <2> QED BY <2>4, <2>5, <2>6
<1>3. Turns(act, N, M, F, steps)
  BY <1>2 DEF Turns
<1> QED BY <1>3

LEMMA BackwardLeads ==
  ASSUME job \in Jobs, NEW steps, NEW i \in Slots, NEW E, ReadyBackward(E, i), LevelBatch(E, World),
         NEW P, \A w \in World : P[w] = Backward(w, i),
         NEW F, \A w \in World : F[w] = Reached(E[w], E[w].got, E[w].fwd, E[w].back \cup {i}, E[w].bwd \cup {i})
  PROVE  Leads(P, E, F, steps)
<1> DEFINE n == 2 * job.stages - 1
           Got1(w) == When(~Final(w), <<RecvFrom(w + 1, "gradient", i)>>)
           Q == [k \in 0 .. n |-> [w \in World |->
                  IF k < 2 * Depth(w) THEN <<>> ELSE IF k = 2 * Depth(w) THEN Got1(w)
                  ELSE IF k = 2 * Depth(w) + 1 THEN Got1(w) \o <<Alone("backward", i)>> ELSE Backward(w, i)]]
           G == [k \in 0 .. n |-> [w \in World |-> GoneBackward(E[w], w, i, k)]]
           B == [k \in 1 .. n |-> [w \in World |-> BackwardMoment(w, i, k)]]
<1>0. n \in Nat /\ n > 0
  BY JobSizes DEF Sizes
<1>1. \A k \in 0 .. n : \A w \in World : Q[k][w] =
        IF k < 2 * Depth(w) THEN <<>> ELSE IF k = 2 * Depth(w) THEN Got1(w)
        ELSE IF k = 2 * Depth(w) + 1 THEN Got1(w) \o <<Alone("backward", i)>> ELSE Backward(w, i)
  OBVIOUS
<1>2. \A k \in 0 .. n : \A w \in World : G[k][w] = GoneBackward(E[w], w, i, k)
  OBVIOUS
<1>3. \A k \in 1 .. n : \A w \in World : B[k][w] = BackwardMoment(w, i, k)
  OBVIOUS
<1>4. \A w \in World : /\ 2 * Depth(w) \in 0 .. n - 1 /\ 2 * Depth(w) \in Nat
                       /\ (Final(w) <=> 2 * Depth(w) = 0) /\ (First(w) <=> 2 * Depth(w) = n - 1)
  <2> TAKE w \in World
  <2>1. n - 1 = 2 * job.stages - 2
    BY JobSizes DEF Sizes
  <2> QED BY <2>1, Depths
<1> HIDE DEF Q, G, B
<1>5. \A w \in World : Q[0][w] = <<>>
  <2> TAKE w \in World
  <2> DEFINE r == 2 * Depth(w)
  <2>1. 0 \in 0 .. n /\ r \in Nat
    BY <1>0, <1>4
  <2>2. CASE r = 0
    BY <1>1, <1>4, <2>1, <2>2 DEF When
  <2>3. CASE r # 0
    <3>1. 0 < r
      BY <2>1, <2>3
    <3> QED BY <1>1, <2>1, <3>1
  <2> QED BY <2>2, <2>3
<1>6. ASSUME NEW k \in 1 .. n PROVE Joins(Q[k], Q[k - 1], B[k])
  <2> SUFFICES ASSUME NEW w \in World PROVE Q[k][w] = Q[k - 1][w] \o B[k][w]
    BY DEF Joins
  <2> DEFINE r == 2 * Depth(w)
             a == RecvFrom(w + 1, "gradient", i)
             b == Alone("backward", i)
             c == SendTo(w - 1, "gradient", i)
             x == Got1(w)
  <2>1. k \in 0 .. n /\ k - 1 \in 0 .. n /\ r \in 0 .. n - 1 /\ r \in Nat /\ k \in Nat /\ n \in Nat /\ k - 1 \in Int
    BY <1>0, <1>4
  <2>2. Backward(w, i) = x \o <<b>> \o When(~First(w), <<c>>) /\ (x = <<>> \/ x = <<a>>) /\ (~Final(w) => x = <<a>>)
    BY DEF Backward, When
  <2>3. /\ Q[k][w] = IF k < r THEN <<>> ELSE IF k = r THEN x ELSE IF k = r + 1 THEN x \o <<b>> ELSE Backward(w, i)
        /\ Q[k - 1][w] = IF k - 1 < r THEN <<>> ELSE IF k - 1 = r THEN x ELSE IF k - 1 = r + 1 THEN x \o <<b>> ELSE Backward(w, i)
        /\ B[k][w] = IF k = r THEN <<a>> ELSE IF k = r + 1 THEN <<b>> ELSE IF k = r + 2 THEN <<c>> ELSE <<>>
    BY <1>1, <1>3, <2>1 DEF BackwardMoment
  <2>4. Backward(w, i) \in Seq(EarlyCalls)
    <3>1. i \in Int
      BY DEF Slots
    <3> QED BY <3>1, MicroCalls
  <2>5. (First(w) <=> r = n - 1) /\ (Final(w) <=> r = 0)
    BY <1>4
  <2> HIDE DEF r, a, b, c, x, n, Got1
  <2>6. CASE k < r
    <3>1. k - 1 < r /\ k # r /\ k # r + 1 /\ k # r + 2
      BY <2>1, <2>6
    <3> QED BY <2>3, <2>6, <3>1
  <2>7. CASE k = r
    <3>1. k - 1 < r /\ ~(k < r) /\ ~Final(w)
      BY <2>1, <2>5, <2>7
    <3>2. x = <<a>> /\ <<>> \o <<a>> = <<a>>
      BY <2>2, <3>1
    <3> QED BY <2>3, <2>7, <3>1, <3>2
  <2>8. CASE k = r + 1
    <3>1. ~(k - 1 < r) /\ k - 1 = r /\ ~(k < r) /\ k # r
      BY <2>1, <2>8
    <3> QED BY <2>3, <2>8, <3>1
  <2>9. CASE k = r + 2
    <3>1. ~(k - 1 < r) /\ k - 1 # r /\ k - 1 = r + 1 /\ ~(k < r) /\ k # r /\ k # r + 1 /\ ~First(w)
      BY <2>1, <2>5, <2>9
    <3>2. Backward(w, i) = (x \o <<b>>) \o <<c>>
      BY <2>2, <3>1 DEF When
    <3> QED BY <2>3, <2>9, <3>1, <3>2
  <2>10. CASE k > r + 2
    <3>1. ~(k - 1 < r) /\ k - 1 # r /\ k - 1 # r + 1 /\ ~(k < r) /\ k # r /\ k # r + 1 /\ k # r + 2
      BY <2>1, <2>10
    <3>2. Backward(w, i) \o <<>> = Backward(w, i)
      BY <2>4
    <3> QED BY <2>3, <3>1, <3>2
  <2>11. k < r \/ k = r \/ k = r + 1 \/ k = r + 2 \/ k > r + 2
    BY <2>1
  <2> QED BY <2>6, <2>7, <2>8, <2>9, <2>10, <2>11
<1>7. ASSUME NEW k \in 1 .. n PROVE Leads(B[k], G[k - 1], G[k], steps)
  <2>1. k \in 0 .. n /\ k - 1 \in 0 .. n
    BY <1>0
  <2>2. (\A w \in World : G[k][w] = GoneBackward(E[w], w, i, k)) /\ \A w \in World : G[k - 1][w] = GoneBackward(E[w], w, i, k - 1)
    BY <1>2, <2>1
  <2>3. \A w \in World : B[k][w] = BackwardMoment(w, i, k)
    BY <1>3
  <2> QED BY <2>2, <2>3, BackwardMomentLeads
<1>8. Leads(Q[n], G[0], G[n], steps)
  <2> HIDE DEF n
  <2> QED BY <1>0, <1>5, <1>6, <1>7, LoopLeads
<1>9. ASSUME NEW w \in World PROVE Q[n][w] = P[w]
  <2> DEFINE r == 2 * Depth(w)
  <2>1. n \in 0 .. n /\ r \in 0 .. n - 1 /\ (First(w) <=> r = n - 1)
    BY <1>0, <1>4
  <2>2. Q[n][w] = IF n < r THEN <<>> ELSE IF n = r THEN Got1(w)
        ELSE IF n = r + 1 THEN Got1(w) \o <<Alone("backward", i)>> ELSE Backward(w, i)
    BY <1>1, <2>1
  <2>3. Backward(w, i) = Got1(w) \o <<Alone("backward", i)>> \o When(~First(w), <<SendTo(w - 1, "gradient", i)>>)
    BY DEF Backward
  <2>4. Got1(w) = <<>> \/ Got1(w) = <<RecvFrom(w + 1, "gradient", i)>>
    BY DEF When
  <2> DEFINE x == Got1(w)
             b == Alone("backward", i)
  <2>5. P[w] = Backward(w, i)
    OBVIOUS
  <2> HIDE DEF n, r, x, b, Got1
  <2>6. ~(n < r) /\ n # r
    BY <1>0, <2>1
  <2>7. CASE n = r + 1
    <3>1. First(w)
      BY <1>0, <2>1, <2>7
    <3>2. (x \o <<b>>) \o <<>> = x \o <<b>>
      BY <2>4 DEF x
    <3>3. Backward(w, i) = (x \o <<b>>) \o <<>>
      BY <2>3, <3>1 DEF When, x, b
    <3> QED BY <2>2, <2>5, <2>6, <2>7, <3>2, <3>3 DEF x, b
  <2>8. CASE n # r + 1
    BY <2>2, <2>5, <2>6, <2>8
  <2> QED BY <2>7, <2>8
<1>10. Leads(P, G[0], G[n], steps)
  <2> HIDE DEF n
  <2> QED BY <1>8, <1>9, LeadsSame
<1>11. ASSUME NEW w \in World PROVE G[0][w] = E[w] /\ G[n][w] = F[w]
  <2> DEFINE e == E[w]
             r == 2 * Depth(w)
  <2>1. G[0][w] = GoneBackward(e, w, i, 0) /\ G[n][w] = GoneBackward(e, w, i, n)
    BY <1>0, <1>2
  <2>2. e \in Expectations
    BY DEF ReadyBackward
  <2>3. r \in 0 .. n - 1
    BY <1>4
  <2>4. F[w] = Reached(e, e.got, e.fwd, e.back \cup {i}, e.bwd \cup {i})
    OBVIOUS
  <2> HIDE DEF e, n
  <2>5. ~(0 >= 1) /\ ~(0 >= r + 1) /\ n >= 1 /\ n >= r /\ n >= r + 1
    BY <1>0, <2>3
  <2>6. GoneBackward(e, w, i, 0) = Reached(e, e.got, e.fwd, e.back, e.bwd)
    BY <2>5 DEF GoneBackward
  <2>7. GoneBackward(e, w, i, n) = Reached(e, e.got, e.fwd, e.back \cup {i}, e.bwd \cup {i})
    BY <2>5 DEF GoneBackward
  <2> QED BY <2>1, <2>2, <2>4, <2>6, <2>7, ReachedAgain DEF e
<1>12. (\A N : Fits(N, E) => Fits(N, G[0])) /\ \A N : Fits(N, G[n]) => Fits(N, F)
  BY <1>11 DEF Fits
<1> QED BY <1>10, <1>12 DEF Leads

\* All micro-batches go forward.
LEMMA ForwardsLead ==
  ASSUME job \in Jobs, NEW steps, NEW V, Closed(V), NEW n \in 1 .. job.micros, NEW E, LevelBatch(E, V),
         \A w \in V : /\ E[w] \in Expectations /\ E[w].loaded /\ ~E[w].heard /\ ~E[w].lossAll
                      /\ E[w].got = {} /\ E[w].fwd = {},
         NEW P, \A w \in World : P[w] = IF w \in V THEN FlattenSeq([i \in 1 .. n |-> Forward(w, i)]) ELSE <<>>,
         NEW F, \A w \in World : F[w] = IF w \in V THEN Reached(E[w], 1 .. n, 1 .. n, E[w].back, E[w].bwd) ELSE E[w]
  PROVE  Leads(P, E, F, steps)
<1> DEFINE B == [i \in 1 .. n |-> [w \in World |-> IF w \in V THEN Forward(w, i) ELSE <<>>]]
           G == [k \in 0 .. n |-> [w \in World |-> IF w \in V THEN Reached(E[w], 1 .. k, 1 .. k, E[w].back, E[w].bwd) ELSE E[w]]]
<1>0. n \in Nat /\ 1 .. n \subseteq Slots
  BY JobSizes DEF Sizes, Slots
<1>1. \A i \in 1 .. n : \A w \in World : B[i][w] = IF w \in V THEN Forward(w, i) ELSE <<>>
  OBVIOUS
<1>2. \A k \in 0 .. n : \A w \in World : G[k][w] = IF w \in V THEN Reached(E[w], 1 .. k, 1 .. k, E[w].back, E[w].bwd) ELSE E[w]
  OBVIOUS
<1> HIDE DEF B, G
<1>3. ASSUME NEW w \in V, NEW k \in 0 .. n
      PROVE  LET e == Reached(E[w], 1 .. k, 1 .. k, E[w].back, E[w].bwd)
             IN SameExpectation(E[w], e, {"got", "fwd", "back", "bwd"}) /\ e.got = 1 .. k /\ e.fwd = 1 .. k /\ e.back = E[w].back /\ e.bwd = E[w].bwd
  <2> DEFINE e == E[w]
  <2>1. e \in Expectations
    OBVIOUS
  <2> HIDE DEF e
  <2>2. 1 .. k \in SUBSET Slots /\ e.back \in SUBSET Slots /\ e.bwd \in SUBSET Slots
    BY <1>0, <2>1 DEF Expectations
  <2> QED BY <2>1, <2>2, ReachedFields DEF e
<1>4. ASSUME NEW i \in 1 .. n PROVE Leads(B[i], G[i - 1], G[i], steps)
  <2>0. i \in 0 .. n /\ i - 1 \in 0 .. n /\ i \in Slots /\ (1 .. i - 1) \cup {i} = 1 .. i /\ i \notin 1 .. i - 1
    BY <1>0
  <2>1. \A w \in World : B[i][w] = IF w \in V THEN Forward(w, i) ELSE <<>>
    BY <1>1
  <2>2. \A w \in V : w \in World
    BY DEF Closed
  <2>3. ASSUME NEW w \in V
        PROVE  LET e == G[i - 1][w]
               IN /\ e \in Expectations /\ e.loaded /\ ~e.heard /\ ~e.lossAll /\ e.fwd = 1 .. i - 1 /\ e.got = 1 .. i - 1
                  /\ e.batch = E[w].batch /\ e.back = E[w].back /\ e.bwd = E[w].bwd
    <3> DEFINE e == G[i - 1][w]
    <3>1. e = Reached(E[w], 1 .. i - 1, 1 .. i - 1, E[w].back, E[w].bwd)
      BY <1>2, <2>0, <2>2
    <3> HIDE DEF e
    <3>2. SameExpectation(E[w], e, {"got", "fwd", "back", "bwd"}) /\ e.got = 1 .. i - 1 /\ e.fwd = 1 .. i - 1 /\ e.back = E[w].back /\ e.bwd = E[w].bwd
      BY <1>3, <2>0, <3>1
    <3>3. e \in Expectations /\ e.loaded /\ ~e.heard /\ ~e.lossAll /\ e.batch = E[w].batch
      BY <3>2 DEF SameExpectation
    <3> QED BY <3>2, <3>3 DEF e
  <2>4. ReadyForward(G[i - 1], V, i)
    BY <2>0, <2>3 DEF ReadyForward
  <2>5. LevelBatch(G[i - 1], V)
    <3> SUFFICES ASSUME NEW w \in V, NEW v \in Pipeline(w) PROVE G[i - 1][v].batch = G[i - 1][w].batch
      BY DEF LevelBatch
    <3>1. v \in V /\ E[v].batch = E[w].batch
      BY DEF LevelBatch, Closed
    <3> QED BY <2>3, <3>1
  <2>6. ASSUME NEW w \in World
        PROVE  G[i][w] = IF w \in V THEN Reached(G[i - 1][w], G[i - 1][w].got \cup {i}, G[i - 1][w].fwd \cup {i}, G[i - 1][w].back, G[i - 1][w].bwd)
                         ELSE G[i - 1][w]
    <3>1. CASE w \notin V
      BY <1>2, <2>0, <3>1
    <3>2. CASE w \in V
      <4> DEFINE e == E[w]
                 d == G[i - 1][w]
      <4>1. e \in Expectations
        BY <3>2
      <4>2. d.got \cup {i} = 1 .. i /\ d.fwd \cup {i} = 1 .. i /\ d.back = e.back /\ d.bwd = e.bwd
        BY <2>0, <2>3, <3>2
      <4>3. d = Reached(e, 1 .. i - 1, 1 .. i - 1, e.back, e.bwd) /\ G[i][w] = Reached(e, 1 .. i, 1 .. i, e.back, e.bwd)
        BY <1>2, <2>0, <3>2
      <4> HIDE DEF e, d
      <4>4. Reached(d, 1 .. i, 1 .. i, e.back, e.bwd) = Reached(e, 1 .. i, 1 .. i, e.back, e.bwd)
        BY <4>1, <4>3, ReachedAgain
      <4>5. G[i][w] = Reached(d, d.got \cup {i}, d.fwd \cup {i}, d.back, d.bwd)
        BY <4>2, <4>3, <4>4
      <4> QED BY <3>2, <4>5 DEF d
    <3> QED BY <3>1, <3>2
  <2> QED BY <2>0, <2>1, <2>4, <2>5, <2>6, ForwardLeads
<1>5. Leads(P, G[0], G[n], steps)
  <2>1. \A i \in 1 .. n : \A w \in World : B[i][w] \in Seq(TaskCalls)
    <3> TAKE i \in 1 .. n
    <3> TAKE w \in World
    <3>1. Forward(w, i) \in Seq(EarlyCalls) /\ <<>> \in Seq(TaskCalls)
      BY MicroCalls
    <3>2. Forward(w, i) \in Seq(TaskCalls)
      BY <3>1, TaskCallSets
    <3> QED BY <1>1, <3>1, <3>2
  <2>2. \A i \in 1 .. n : \A w \in World : w \notin V => B[i][w] = <<>>
    BY <1>1
  <2>3. \A w \in World : P[w] = IF w \in V THEN FlattenSeq([i \in 1 .. n |-> B[i][w]]) ELSE <<>>
    <3> TAKE w \in World
    <3>1. w \in V => [i \in 1 .. n |-> B[i][w]] = [i \in 1 .. n |-> Forward(w, i)]
      BY <1>1
    <3> QED BY <3>1
  <2>4. \A i \in 1 .. n : Leads(B[i], G[i - 1], G[i], steps)
    BY <1>4
  <2>5. n \in Nat
    BY <1>0
  <2> QED BY <2>1, <2>2, <2>3, <2>4, <2>5, RoundsLead
<1>6. \A w \in World : G[0][w] = E[w] /\ G[n][w] = F[w]
  <2> TAKE w \in World
  <2>1. 0 \in 0 .. n /\ n \in 0 .. n /\ 1 .. 0 = {}
    BY <1>0
  <2>2. CASE w \notin V
    BY <1>2, <2>1, <2>2
  <2>3. CASE w \in V
    <3> DEFINE e == E[w]
    <3>1. e \in Expectations /\ e.got = {} /\ e.fwd = {}
      BY <2>3
    <3>2. G[0][w] = Reached(e, 1 .. 0, 1 .. 0, e.back, e.bwd) /\ G[n][w] = Reached(e, 1 .. n, 1 .. n, e.back, e.bwd)
      BY <1>2, <2>1, <2>3
    <3>3. F[w] = Reached(e, 1 .. n, 1 .. n, e.back, e.bwd)
      BY <2>3
    <3> HIDE DEF e
    <3>4. G[0][w] = e
      BY <2>1, <3>1, <3>2, ReachedAgain
    <3> QED BY <3>2, <3>3, <3>4 DEF e
  <2> QED BY <2>2, <2>3
<1>7. (\A N : Fits(N, E) => Fits(N, G[0])) /\ \A N : Fits(N, G[n]) => Fits(N, F)
  BY <1>6 DEF Fits
<1> QED BY <1>5, <1>7 DEF Leads

\* All micro-batches come back, the last first.
LEMMA BackwardsLead ==
  ASSUME job \in Jobs, NEW steps, NEW E, LevelBatch(E, World),
         \A w \in World : /\ E[w] \in Expectations /\ E[w].loaded /\ ~E[w].gradAll
                          /\ E[w].got = Slots /\ E[w].back = {} /\ E[w].bwd = {},
         NEW P, \A w \in World : P[w] = FlattenSeq([k \in 1 .. job.micros |-> Backward(w, DrainOrder(w, job.micros)[k])]),
         NEW F, \A w \in World : F[w] = Reached(E[w], E[w].got, E[w].fwd, Slots, Slots)
  PROVE  Leads(P, E, F, steps)
<1> DEFINE n == job.micros
           B == [k \in 1 .. n |-> [w \in World |-> Backward(w, DrainOrder(w, n)[k])]]
           G == [k \in 0 .. n |-> [w \in World |-> Reached(E[w], E[w].got, E[w].fwd, n + 1 - k .. n, n + 1 - k .. n)]]
<1>0. n \in Nat /\ 1 .. n = Slots
  BY JobSizes DEF Sizes, Slots
<1>1. \A k \in 1 .. n : \A w \in World : B[k][w] = Backward(w, n + 1 - k)
  BY DEF DrainOrder
<1>2. \A k \in 0 .. n : \A w \in World : G[k][w] = Reached(E[w], E[w].got, E[w].fwd, n + 1 - k .. n, n + 1 - k .. n)
  OBVIOUS
<1>p. \A w \in World : P[w] = FlattenSeq([k \in 1 .. n |-> B[k][w]])
  <2> TAKE w \in World
  <2>1. [k \in 1 .. n |-> B[k][w]] = [k \in 1 .. n |-> Backward(w, DrainOrder(w, n)[k])]
    OBVIOUS
  <2> HIDE DEF B
  <2> QED BY <2>1
<1> HIDE DEF B, G
<1>3. ASSUME NEW w \in World, NEW k \in 0 .. n
      PROVE  LET e == Reached(E[w], E[w].got, E[w].fwd, n + 1 - k .. n, n + 1 - k .. n)
             IN /\ SameExpectation(E[w], e, {"got", "fwd", "back", "bwd"})
                /\ e.got = Slots /\ e.fwd = E[w].fwd /\ e.back = n + 1 - k .. n /\ e.bwd = n + 1 - k .. n
  <2> DEFINE e == E[w]
             X == n + 1 - k .. n
  <2>1. e \in Expectations /\ e.got = Slots
    OBVIOUS
  <2> HIDE DEF e
  <2>2. X \in SUBSET Slots /\ e.got \in SUBSET Slots /\ e.fwd \in SUBSET Slots
    <3>1. X \subseteq 1 .. n
      <4> HIDE DEF n
      <4> QED BY <1>0
    <3> QED BY <1>0, <2>1, <3>1 DEF Expectations
  <2> HIDE DEF X, n
  <2>3. LET f == Reached(e, e.got, e.fwd, X, X)
        IN SameExpectation(e, f, {"got", "fwd", "back", "bwd"}) /\ f.got = e.got /\ f.fwd = e.fwd /\ f.back = X /\ f.bwd = X
    BY <2>1, <2>2, ReachedFields
  <2> QED BY <2>1, <2>3 DEF e, X
<1>4. ASSUME NEW k \in 1 .. n PROVE Leads(B[k], G[k - 1], G[k], steps)
  <2> DEFINE i == n + 1 - k
             X == n + 1 - (k - 1) .. n
             Y == n + 1 - k .. n
  <2>0. k \in 0 .. n /\ k - 1 \in 0 .. n /\ i \in Slots /\ X \cup {i} = Y /\ i \notin X
    <3>1. i \in 1 .. n /\ i \notin X /\ k \in 0 .. n /\ k - 1 \in 0 .. n
      <4> HIDE DEF n
      <4> QED BY <1>0
    <3>2. X \cup {i} = Y
      <4> HIDE DEF n
      <4> QED BY <1>0
    <3> QED BY <1>0, <3>1, <3>2
  <2>1. \A w \in World : B[k][w] = Backward(w, i)
    BY <1>1
  <2> HIDE DEF i
  <2>3. ASSUME NEW w \in World
        PROVE  LET e == G[k - 1][w]
               IN /\ e \in Expectations /\ e.loaded /\ ~e.gradAll /\ e.got = Slots /\ e.fwd = E[w].fwd
                  /\ e.batch = E[w].batch /\ e.back = X /\ e.bwd = X
    <3> DEFINE e == G[k - 1][w]
    <3>1. e = Reached(E[w], E[w].got, E[w].fwd, X, X)
      BY <1>2, <2>0
    <3> HIDE DEF e
    <3>2. SameExpectation(E[w], e, {"got", "fwd", "back", "bwd"}) /\ e.got = Slots /\ e.fwd = E[w].fwd /\ e.back = X /\ e.bwd = X
      BY <1>3, <2>0, <3>1
    <3>3. e \in Expectations /\ e.loaded /\ ~e.gradAll /\ e.batch = E[w].batch
      BY <3>2 DEF SameExpectation
    <3> QED BY <3>2, <3>3 DEF e
  <2>4. ReadyBackward(G[k - 1], i)
    BY <2>0, <2>3 DEF ReadyBackward
  <2>5. LevelBatch(G[k - 1], World)
    <3> SUFFICES ASSUME NEW w \in World, NEW v \in Pipeline(w) PROVE G[k - 1][v].batch = G[k - 1][w].batch
      BY DEF LevelBatch
    <3>1. v \in World /\ E[v].batch = E[w].batch
      BY DEF LevelBatch, Pipeline
    <3> QED BY <2>3, <3>1
  <2>6. ASSUME NEW w \in World
        PROVE  G[k][w] = Reached(G[k - 1][w], G[k - 1][w].got, G[k - 1][w].fwd, G[k - 1][w].back \cup {i}, G[k - 1][w].bwd \cup {i})
    <3> DEFINE e == E[w]
               d == G[k - 1][w]
    <3>1. e \in Expectations /\ e.got = Slots
      OBVIOUS
    <3>2. d.back \cup {i} = Y /\ d.bwd \cup {i} = Y /\ d.got = e.got /\ d.fwd = e.fwd
      BY <2>0, <2>3
    <3>3. d = Reached(e, e.got, e.fwd, X, X) /\ G[k][w] = Reached(e, e.got, e.fwd, Y, Y)
      BY <1>2, <2>0
    <3> HIDE DEF e, d, X, Y
    <3>4. Reached(d, e.got, e.fwd, Y, Y) = Reached(e, e.got, e.fwd, Y, Y)
      BY <3>1, <3>3, ReachedAgain
    <3>5. G[k][w] = Reached(d, d.got, d.fwd, d.back \cup {i}, d.bwd \cup {i})
      BY <3>2, <3>3, <3>4
    <3> QED BY <3>5 DEF d
  <2> QED BY <2>0, <2>1, <2>4, <2>5, <2>6, BackwardLeads
<1>5. Leads(P, G[0], G[n], steps)
  <2>1. \A k \in 1 .. n : \A w \in World : B[k][w] \in Seq(TaskCalls)
    <3> TAKE k \in 1 .. n
    <3> TAKE w \in World
    <3>1. n + 1 - k \in Int
      BY <1>0
    <3>2. Backward(w, n + 1 - k) \in Seq(EarlyCalls)
      BY <3>1, MicroCalls
    <3> QED BY <1>1, <3>2, TaskCallSets
  <2>2. \A k \in 1 .. n : \A w \in World : w \notin World => B[k][w] = <<>>
    OBVIOUS
  <2>3. \A w \in World : P[w] = IF w \in World THEN FlattenSeq([k \in 1 .. n |-> B[k][w]]) ELSE <<>>
    BY <1>p
  <2>4. \A k \in 1 .. n : Leads(B[k], G[k - 1], G[k], steps)
    BY <1>4
  <2>5. n \in Nat
    BY <1>0
  <2> HIDE DEF n
  <2> QED BY <2>1, <2>2, <2>3, <2>4, <2>5, RoundsLead
<1>6. \A w \in World : G[0][w] = E[w] /\ G[n][w] = F[w]
  <2> TAKE w \in World
  <2> DEFINE e == E[w]
             X == n + 1 - 0 .. n
             Y == n + 1 - n .. n
  <2>1. 0 \in 0 .. n /\ n \in 0 .. n /\ X = {} /\ Y = 1 .. n
    <3> HIDE DEF n
    <3> QED BY <1>0
  <2>2. e \in Expectations /\ e.back = {} /\ e.bwd = {}
    OBVIOUS
  <2>3. G[0][w] = Reached(e, e.got, e.fwd, X, X) /\ G[n][w] = Reached(e, e.got, e.fwd, Y, Y)
    BY <1>2, <2>1
  <2>4. F[w] = Reached(e, e.got, e.fwd, Slots, Slots)
    OBVIOUS
  <2> HIDE DEF e, X, Y, n
  <2>5. G[0][w] = e
    BY <2>1, <2>2, <2>3, ReachedAgain
  <2> QED BY <1>0, <2>1, <2>3, <2>4, <2>5 DEF e
<1>7. (\A N : Fits(N, E) => Fits(N, G[0])) /\ \A N : Fits(N, G[n]) => Fits(N, F)
  BY <1>6 DEF Fits
<1> QED BY <1>5, <1>7 DEF Leads

\* Each micro-batch goes forward and comes back before the next.
LEMMA BothLead ==
  ASSUME job \in Jobs, NEW steps, NEW E, LevelBatch(E, World),
         \A w \in World : /\ E[w] \in Expectations /\ E[w].loaded /\ ~E[w].heard /\ ~E[w].lossAll /\ ~E[w].gradAll
                          /\ E[w].got = {} /\ E[w].fwd = {} /\ E[w].back = {} /\ E[w].bwd = {},
         NEW P, \A w \in World : P[w] = FlattenSeq([i \in 1 .. job.micros |-> Forward(w, i) \o When(TRUE, Backward(w, i))]),
         NEW F, \A w \in World : F[w] = Reached(E[w], Slots, Slots, Slots, Slots)
  PROVE  Leads(P, E, F, steps)
<1> DEFINE n == job.micros
           B == [i \in 1 .. n |-> [w \in World |-> Forward(w, i) \o When(TRUE, Backward(w, i))]]
           G == [k \in 0 .. n |-> [w \in World |-> Reached(E[w], 1 .. k, 1 .. k, 1 .. k, 1 .. k)]]
<1>0. n \in Nat /\ 1 .. n = Slots
  BY JobSizes DEF Sizes, Slots
<1>1. \A i \in 1 .. n : \A w \in World : B[i][w] = Forward(w, i) \o Backward(w, i)
  BY DEF When
<1>2. \A k \in 0 .. n : \A w \in World : G[k][w] = Reached(E[w], 1 .. k, 1 .. k, 1 .. k, 1 .. k)
  OBVIOUS
<1>p. \A w \in World : P[w] = FlattenSeq([i \in 1 .. n |-> B[i][w]])
  <2> TAKE w \in World
  <2>1. [i \in 1 .. n |-> B[i][w]] = [i \in 1 .. n |-> Forward(w, i) \o When(TRUE, Backward(w, i))]
    OBVIOUS
  <2> HIDE DEF B
  <2> QED BY <2>1
<1> HIDE DEF B, G
<1>3. ASSUME NEW w \in World, NEW k \in 0 .. n
      PROVE  LET e == Reached(E[w], 1 .. k, 1 .. k, 1 .. k, 1 .. k)
             IN /\ SameExpectation(E[w], e, {"got", "fwd", "back", "bwd"})
                /\ e.got = 1 .. k /\ e.fwd = 1 .. k /\ e.back = 1 .. k /\ e.bwd = 1 .. k
  <2> DEFINE X == 1 .. k
  <2>1. E[w] \in Expectations
    OBVIOUS
  <2>2. X \in SUBSET Slots
    <3>1. X \subseteq 1 .. n
      <4> HIDE DEF n
      <4> QED BY <1>0
    <3> QED BY <1>0, <3>1
  <2> HIDE DEF X, n
  <2>3. LET f == Reached(E[w], X, X, X, X)
        IN SameExpectation(E[w], f, {"got", "fwd", "back", "bwd"}) /\ f.got = X /\ f.fwd = X /\ f.back = X /\ f.bwd = X
    BY <2>1, <2>2, ReachedFields
  <2> QED BY <2>3 DEF X
<1>4. ASSUME NEW i \in 1 .. n PROVE Leads(B[i], G[i - 1], G[i], steps)
  <2> DEFINE X == 1 .. i - 1
             Y == 1 .. i
             H == [w \in World |-> Reached(E[w], Y, Y, X, X)]
             fw == [w \in World |-> Forward(w, i)]
             bw == [w \in World |-> Backward(w, i)]
  <2>0. i \in 0 .. n /\ i - 1 \in 0 .. n /\ i \in Slots /\ X \cup {i} = Y /\ i \notin X /\ i \in Y
    <3>1. i \in 0 .. n /\ i - 1 \in 0 .. n /\ X \cup {i} = Y /\ i \notin X /\ i \in Y
      <4> HIDE DEF n
      <4> QED BY <1>0
    <3> QED BY <1>0, <3>1
  <2>s. X \in SUBSET Slots /\ Y \in SUBSET Slots
    <3>1. X \subseteq 1 .. n /\ Y \subseteq 1 .. n
      <4> HIDE DEF n
      <4> QED BY <1>0
    <3> QED BY <1>0, <3>1
  <2>1. (\A w \in World : fw[w] = Forward(w, i)) /\ \A w \in World : bw[w] = Backward(w, i)
    OBVIOUS
  <2>2. \A w \in World : H[w] = Reached(E[w], Y, Y, X, X)
    OBVIOUS
  <2>3. \A w \in World : G[i - 1][w] = Reached(E[w], X, X, X, X) /\ G[i][w] = Reached(E[w], Y, Y, Y, Y)
    BY <1>2, <2>0
  <2> HIDE DEF H, fw, bw, X, Y
  <2>4. ASSUME NEW w \in World
        PROVE  /\ LET e == G[i - 1][w]
                  IN /\ e \in Expectations /\ e.loaded /\ ~e.heard /\ ~e.lossAll /\ e.batch = E[w].batch
                     /\ e.got = X /\ e.fwd = X /\ e.back = X /\ e.bwd = X
               /\ LET e == H[w]
                  IN /\ e \in Expectations /\ e.loaded /\ ~e.gradAll /\ e.batch = E[w].batch
                     /\ e.got = Y /\ e.fwd = Y /\ e.back = X /\ e.bwd = X
    <3> DEFINE d == G[i - 1][w]
               e == H[w]
               o == E[w]
    <3>0. o \in Expectations /\ o.loaded /\ ~o.heard /\ ~o.lossAll /\ ~o.gradAll
      OBVIOUS
    <3>1. d = Reached(o, X, X, X, X) /\ e = Reached(o, Y, Y, X, X)
      BY <2>2, <2>3
    <3> HIDE DEF d, e, o
    <3>2. SameExpectation(o, d, {"got", "fwd", "back", "bwd"}) /\ d.got = X /\ d.fwd = X /\ d.back = X /\ d.bwd = X
      BY <2>s, <3>0, <3>1, ReachedFields
    <3>3. SameExpectation(o, e, {"got", "fwd", "back", "bwd"}) /\ e.got = Y /\ e.fwd = Y /\ e.back = X /\ e.bwd = X
      BY <2>s, <3>0, <3>1, ReachedFields
    <3>4. d \in Expectations /\ d.loaded /\ ~d.heard /\ ~d.lossAll /\ d.batch = o.batch
      BY <3>0, <3>2 DEF SameExpectation
    <3>5. e \in Expectations /\ e.loaded /\ ~e.gradAll /\ e.batch = o.batch
      BY <3>0, <3>3 DEF SameExpectation
    <3> QED BY <3>2, <3>3, <3>4, <3>5 DEF d, e, o
  <2>5. LevelBatch(G[i - 1], World) /\ LevelBatch(H, World)
    <3> SUFFICES ASSUME NEW w \in World, NEW v \in Pipeline(w)
                 PROVE  G[i - 1][v].batch = G[i - 1][w].batch /\ H[v].batch = H[w].batch
      BY DEF LevelBatch
    <3>1. v \in World /\ E[v].batch = E[w].batch
      BY DEF LevelBatch, Pipeline
    <3> QED BY <2>4, <3>1
  <2>6. Leads(fw, G[i - 1], H, steps)
    <3>1. ReadyForward(G[i - 1], World, i)
      BY <2>0, <2>4 DEF ReadyForward
    <3>2. Closed(World)
      BY DEF Closed, Pipeline
    <3>3. \A w \in World : fw[w] = IF w \in World THEN Forward(w, i) ELSE <<>>
      BY <2>1
    <3>4. ASSUME NEW w \in World
          PROVE  H[w] = Reached(G[i - 1][w], G[i - 1][w].got \cup {i}, G[i - 1][w].fwd \cup {i}, G[i - 1][w].back, G[i - 1][w].bwd)
      <4> DEFINE d == G[i - 1][w]
                 o == E[w]
      <4>1. o \in Expectations /\ d = Reached(o, X, X, X, X) /\ H[w] = Reached(o, Y, Y, X, X)
        BY <2>2, <2>3
      <4>2. d.got \cup {i} = Y /\ d.fwd \cup {i} = Y /\ d.back = X /\ d.bwd = X
        BY <2>0, <2>4
      <4> HIDE DEF d, o
      <4>3. Reached(d, Y, Y, X, X) = Reached(o, Y, Y, X, X)
        BY <4>1, ReachedAgain
      <4> QED BY <4>1, <4>2, <4>3 DEF d
    <3>5. \A w \in World : H[w] = IF w \in World
            THEN Reached(G[i - 1][w], G[i - 1][w].got \cup {i}, G[i - 1][w].fwd \cup {i}, G[i - 1][w].back, G[i - 1][w].bwd)
            ELSE G[i - 1][w]
      BY <3>4
    <3> QED BY <2>0, <2>5, <3>1, <3>2, <3>3, <3>5, ForwardLeads
  <2>7. Leads(bw, H, G[i], steps)
    <3>1. ReadyBackward(H, i)
      BY <2>0, <2>4 DEF ReadyBackward
    <3>2. ASSUME NEW w \in World
          PROVE  G[i][w] = Reached(H[w], H[w].got, H[w].fwd, H[w].back \cup {i}, H[w].bwd \cup {i})
      <4> DEFINE d == H[w]
                 o == E[w]
      <4>1. o \in Expectations /\ d = Reached(o, Y, Y, X, X) /\ G[i][w] = Reached(o, Y, Y, Y, Y)
        BY <2>2, <2>3
      <4>2. d.back \cup {i} = Y /\ d.bwd \cup {i} = Y /\ d.got = Y /\ d.fwd = Y
        BY <2>0, <2>4
      <4> HIDE DEF d, o
      <4>3. Reached(d, Y, Y, Y, Y) = Reached(o, Y, Y, Y, Y)
        BY <4>1, ReachedAgain
      <4> QED BY <4>1, <4>2, <4>3 DEF d
    <3> QED BY <2>0, <2>1, <2>5, <3>1, <3>2, BackwardLeads
  <2>8. Joins(B[i], fw, bw)
    BY <1>1, <2>1 DEF Joins
  <2> QED BY <2>6, <2>7, <2>8, LeadsOn
<1>5. Leads(P, G[0], G[n], steps)
  <2>1. \A i \in 1 .. n : \A w \in World : B[i][w] \in Seq(TaskCalls)
    <3> TAKE i \in 1 .. n
    <3> TAKE w \in World
    <3>1. Forward(w, i) \in Seq(EarlyCalls) /\ Backward(w, i) \in Seq(EarlyCalls)
      BY MicroCalls
    <3>2. Forward(w, i) \in Seq(TaskCalls) /\ Backward(w, i) \in Seq(TaskCalls)
      BY <3>1, TaskCallSets
    <3>3. B[i][w] = Forward(w, i) \o Backward(w, i)
      BY <1>1
    <3> QED BY <3>2, <3>3
  <2>2. \A i \in 1 .. n : \A w \in World : w \notin World => B[i][w] = <<>>
    OBVIOUS
  <2>3. \A w \in World : P[w] = IF w \in World THEN FlattenSeq([i \in 1 .. n |-> B[i][w]]) ELSE <<>>
    BY <1>p
  <2>4. \A i \in 1 .. n : Leads(B[i], G[i - 1], G[i], steps)
    BY <1>4
  <2>5. n \in Nat
    BY <1>0
  <2> HIDE DEF n
  <2> QED BY <2>1, <2>2, <2>3, <2>4, <2>5, RoundsLead
<1>6. \A w \in World : G[0][w] = E[w] /\ G[n][w] = F[w]
  <2> TAKE w \in World
  <2> DEFINE e == E[w]
             X == 1 .. 0
             Y == 1 .. n
  <2>1. 0 \in 0 .. n /\ n \in 0 .. n /\ X = {}
    <3> HIDE DEF n
    <3> QED BY <1>0
  <2>2. e \in Expectations /\ e.got = {} /\ e.fwd = {} /\ e.back = {} /\ e.bwd = {}
    OBVIOUS
  <2>3. G[0][w] = Reached(e, X, X, X, X) /\ G[n][w] = Reached(e, Y, Y, Y, Y)
    BY <1>2, <2>1
  <2>4. F[w] = Reached(e, Slots, Slots, Slots, Slots)
    OBVIOUS
  <2> HIDE DEF e, X
  <2>5. G[0][w] = e
    BY <2>1, <2>2, <2>3, ReachedAgain
  <2> QED BY <1>0, <2>1, <2>3, <2>4, <2>5 DEF e
<1>7. (\A N : Fits(N, E) => Fits(N, G[0])) /\ \A N : Fits(N, G[n]) => Fits(N, F)
  BY <1>6 DEF Fits
<1> QED BY <1>5, <1>7 DEF Leads

------------------------------------------------------------------------------
(* Gradient compression, for any parameters, buckets, ratios and gradients  *)
(* and either mode: the inductive invariant.                                *)

Values == [Parts -> [Coordinates -> Int]]

CompressionTypes ==
  /\ synchronizer \in Synchronizers
  /\ exchanging \in Nat
  /\ residual \in Values /\ momentum \in Values /\ gradient \in Values
  /\ given \in Values /\ received \in Values
  /\ stored.residual \in Values /\ stored.momentum \in Values
  /\ stored.given \in Values /\ stored.received \in Values

\* The bucket of coordinate c has been exchanged in this call.
Done(c) == BucketOf(c) < exchanging

\* What the replicas gave was received by both, is about to be, or is kept.
Balanced ==
  \A c \in Coordinates :
    /\ received[0][c] = received[1][c]
    /\ Done(c) => gradient[0][c] = gradient[1][c]
    /\ Over(given, c) =
         received[0][c] + Over(residual, c) + IF Done(c) THEN gradient[0][c] ELSE 0

StoredBalanced ==
  \A c \in Coordinates :
    /\ stored.received[0][c] = stored.received[1][c]
    /\ Over(stored.given, c) = stored.received[0][c] + Over(stored.residual, c)

BalanceInv == CompressionTypes /\ Balanced /\ StoredBalanced

------------------------------------------------------------------------------
LEMMA CoordinatesFinite ==
  ASSUME synchronizer \in Synchronizers
  PROVE  IsFiniteSet(Coordinates)
<1> DEFINE piece == [p \in Parameters |-> {p} \X (0 .. synchronizer.sizes[p] - 1)]
           pieces == {piece[p] : p \in Parameters}
<1>1. synchronizer.sizes \in Seq(Nat)
  BY CompressionAssumption
<1>2. IsFiniteSet(Parameters)
  <2>1. Parameters = 1 .. Len(synchronizer.sizes) /\ Len(synchronizer.sizes) \in Int
    BY <1>1 DEF Parameters
  <2> QED BY <2>1, FS_Interval
<1>3. \A p \in Parameters : IsFiniteSet(piece[p])
  <2> SUFFICES ASSUME NEW p \in Parameters
               PROVE  IsFiniteSet({p} \X (0 .. synchronizer.sizes[p] - 1))
    OBVIOUS
  <2>1. synchronizer.sizes[p] - 1 \in Int /\ 0 \in Int
    BY <1>1 DEF Parameters
  <2>2. IsFiniteSet(0 .. synchronizer.sizes[p] - 1)
    BY <2>1, FS_Interval
  <2> QED BY <2>2, FS_Singleton, FS_Product
<1>4. piece \in Surjection(Parameters, pieces)
  BY DEF Surjection
<1>5. IsFiniteSet(pieces)
  BY <1>2, <1>4, FS_Surjection
<1>6. Coordinates = UNION pieces
  BY DEF Coordinates
<1> QED BY <1>3, <1>5, <1>6, FS_UNION

LEMMA BucketsAreNumbered ==
  ASSUME synchronizer \in Synchronizers, NEW c \in Coordinates
  PROVE  BucketOf(c) \in Nat \ {0}
<1>1. Position(c) \in Nat
  BY CoordinatesFinite, FS_Subset, FS_CardinalityType DEF Position
<1>2. synchronizer.bucket \in Nat \ {0}
  BY CompressionAssumption
<1> QED BY <1>1, <1>2 DEF BucketOf

LEMMA CompressionStarts == CompressionInit => BalanceInv
<1> SUFFICES ASSUME CompressionInit PROVE BalanceInv
  OBVIOUS
<1>1. Zero \in Values
  BY DEF Zero, Values
<1>2. CompressionTypes
  BY <1>1 DEF CompressionInit, CompressionTypes
<1>3. \A c \in Coordinates : ~Done(c)
  <2> SUFFICES ASSUME NEW c \in Coordinates PROVE ~(BucketOf(c) < 0)
    BY DEF Done, CompressionInit
  <2> QED BY BucketsAreNumbered DEF CompressionInit
<1>4. Balanced /\ StoredBalanced
  BY <1>3 DEF CompressionInit, Balanced, StoredBalanced, Over, Zero, Parts
<1> QED BY <1>2, <1>4 DEF BalanceInv

\* Buckets are those of the synchronizer's configuration, which never changes.
LEMMA SameCoordinates ==
  ASSUME UNCHANGED synchronizer
  PROVE  /\ Coordinates' = Coordinates
         /\ Values' = Values
         /\ \A c : BucketOf(c)' = BucketOf(c)
BY DEF Coordinates, Parameters, Values, BucketOf, Position

LEMMA SynchronizeKeeps ==
  ASSUME BalanceInv, Synchronize
  PROVE  BalanceInv'
<1> USE DEF BalanceInv
<1>1. /\ exchanging = 0 /\ exchanging' = 1
      /\ UNCHANGED <<synchronizer, residual, momentum, stored, given, received>>
  BY DEF Synchronize, feedback, histories
<1>2. gradient' \in Values
  <2>1. PICK g \in [Parts -> synchronizer.gradients] :
          gradient' = [r \in Parts |-> [c \in Coordinates |-> g[r][c[1]][c[2] + 1]]]
    BY DEF Synchronize
  <2> SUFFICES ASSUME NEW r \in Parts, NEW c \in Coordinates PROVE g[r][c[1]][c[2] + 1] \in Int
    BY <2>1 DEF Values
  <2>2. /\ synchronizer.sizes \in Seq(Nat)
        /\ \A p \in DOMAIN synchronizer.sizes : g[r][p] \in [1 .. synchronizer.sizes[p] -> Int]
    BY CompressionAssumption DEF CompressionTypes
  <2>3. c[1] \in DOMAIN synchronizer.sizes /\ c[2] \in 0 .. synchronizer.sizes[c[1]] - 1
    BY DEF Coordinates, Parameters
  <2>4. synchronizer.sizes[c[1]] \in Nat
    BY <2>2, <2>3
  <2>5. c[2] + 1 \in 1 .. synchronizer.sizes[c[1]]
    BY <2>3, <2>4
  <2> QED BY <2>2, <2>3, <2>5
<1>3. CompressionTypes'
  BY <1>1, <1>2, SameCoordinates DEF CompressionTypes
<1>4. \A c \in Coordinates : ~Done(c) /\ ~Done(c)'
  <2> SUFFICES ASSUME NEW c \in Coordinates PROVE ~(BucketOf(c) < 0) /\ ~(BucketOf(c) < 1)
    BY <1>1, SameCoordinates DEF Done
  <2> QED BY BucketsAreNumbered DEF CompressionTypes
<1>5. Balanced'
  BY <1>1, <1>4, SameCoordinates DEF Balanced, Over
<1>6. StoredBalanced'
  BY <1>1, SameCoordinates DEF StoredBalanced, Over
<1> QED BY <1>3, <1>5, <1>6

\* A replica sends coordinates of the bucket, by either way of exchanging it.
LEMMA SelectionsInBucket ==
  ASSUME NEW values, NEW sent \in Transmissions(values)
  PROVE  sent \in [Parts -> SUBSET Bucket]
<1>1. CASE Dense(Cardinality(Bucket))
  BY <1>1 DEF Transmissions
<1>2. CASE ~Dense(Cardinality(Bucket))
  BY <1>2 DEF Transmissions
<1> QED BY <1>1, <1>2

LEMMA ExchangeKeeps ==
  ASSUME BalanceInv, ExchangeBucket
  PROVE  BalanceInv'
<1> USE DEF BalanceInv
<1> DEFINE acc(r, c) == residual[r][c] + IF c \in Bucket THEN Increment(r, c) ELSE 0
           pay(sent, r, c) == IF c \in sent[r] THEN acc(r, c) ELSE 0
<1>1. PICK sent \in Transmissions(Accumulated) :
        /\ residual' = [r \in Parts |-> [c \in Coordinates |->
                          IF c \in sent[r] THEN 0 ELSE Accumulated[r][c]]]
        /\ momentum' = [r \in Parts |-> [c \in Coordinates |->
                          IF c \in sent[r] THEN 0
                          ELSE IF c \in Bucket /\ synchronizer.mode = "dgc" THEN Velocity(r, c)
                          ELSE momentum[r][c]]]
        /\ gradient' = [r \in Parts |-> [c \in Coordinates |->
                          IF c \in Bucket
                          THEN (IF c \in sent[0] THEN Accumulated[0][c] ELSE 0)
                               + (IF c \in sent[1] THEN Accumulated[1][c] ELSE 0)
                          ELSE gradient[r][c]]]
        /\ given' = [r \in Parts |-> [c \in Coordinates |->
                          given[r][c] + IF c \in Bucket THEN Increment(r, c) ELSE 0]]
  BY DEF ExchangeBucket, Cleared
<1>2. \A r \in Parts, c \in Coordinates : Accumulated[r][c] = acc(r, c)
  BY DEF Accumulated
<1>3. 0 \in Parts /\ 1 \in Parts
  BY DEF Parts
<1>4. /\ sent \in Transmissions(Accumulated)
        /\ residual' = [r \in Parts |-> [c \in Coordinates |->
                          IF c \in sent[r] THEN 0 ELSE acc(r, c)]]
        /\ momentum' = [r \in Parts |-> [c \in Coordinates |->
                          IF c \in sent[r] THEN 0
                          ELSE IF c \in Bucket /\ synchronizer.mode = "dgc" THEN Velocity(r, c)
                          ELSE momentum[r][c]]]
        /\ gradient' = [r \in Parts |-> [c \in Coordinates |->
                          IF c \in Bucket THEN pay(sent, 0, c) + pay(sent, 1, c) ELSE gradient[r][c]]]
        /\ given' = [r \in Parts |-> [c \in Coordinates |->
                          given[r][c] + IF c \in Bucket THEN Increment(r, c) ELSE 0]]
  <2> HIDE DEF acc
  <2> QED BY <1>1, <1>2, <1>3
<1>5. /\ exchanging' = exchanging + 1
      /\ UNCHANGED <<synchronizer, stored, received>>
  BY DEF ExchangeBucket
<1>6. sent \in [Parts -> SUBSET Bucket]
  BY <1>4, SelectionsInBucket
<1>7. \A r \in Parts, c \in Coordinates :
        Velocity(r, c) \in Int /\ Increment(r, c) \in Int /\ acc(r, c) \in Int
  <2> SUFFICES ASSUME NEW r \in Parts, NEW c \in Coordinates
               PROVE  Velocity(r, c) \in Int /\ Increment(r, c) \in Int /\ acc(r, c) \in Int
    OBVIOUS
  <2>1. momentum[r][c] \in Int /\ gradient[r][c] \in Int /\ residual[r][c] \in Int
    BY DEF CompressionTypes, Values
  <2>2. Velocity(r, c) \in Int
    BY <2>1 DEF Velocity
  <2>3. Increment(r, c) \in Int
    BY <2>1, <2>2 DEF Increment
  <2> QED BY <2>1, <2>2, <2>3
<1>8. CompressionTypes'
  <2> USE <1>5, SameCoordinates DEF CompressionTypes
  <2>1. exchanging' \in Nat /\ synchronizer' \in Synchronizers
    OBVIOUS
  <2>2. residual' \in Values
    <3> HIDE DEF acc
    <3> QED BY <1>4, <1>7 DEF Values
  <2>3. momentum' \in Values
    BY <1>4, <1>7 DEF Values
  <2>4. gradient' \in Values
    <3>1. 0 \in Parts /\ 1 \in Parts
      BY DEF Parts
    <3> HIDE DEF acc
    <3> QED BY <3>1, <1>4, <1>7 DEF Values
  <2>5. given' \in Values
    BY <1>4, <1>7 DEF Values
  <2> QED BY <2>1, <2>2, <2>3, <2>4, <2>5
<1>9. \A c \in Coordinates : Done(c)' <=> Done(c) \/ c \in Bucket
  <2> SUFFICES ASSUME NEW c \in Coordinates
               PROVE  BucketOf(c) < exchanging + 1 <=> BucketOf(c) < exchanging \/ BucketOf(c) = exchanging
    BY <1>5, SameCoordinates DEF Done, Bucket
  <2> QED BY BucketsAreNumbered DEF CompressionTypes
<1>10. \A c \in Bucket : ~Done(c)
  BY DEF Bucket, Done, CompressionTypes
<1>11. Balanced'
  <2> SUFFICES ASSUME NEW c \in Coordinates
               PROVE  /\ received'[0][c] = received'[1][c]
                      /\ Done(c)' => gradient'[0][c] = gradient'[1][c]
                      /\ Over(given', c) =
                           received'[0][c] + Over(residual', c) + IF Done(c)' THEN gradient'[0][c] ELSE 0
    BY <1>5, SameCoordinates DEF Balanced, Over
  <2>1. /\ received[0][c] = received[1][c]
        /\ Done(c) => gradient[0][c] = gradient[1][c]
        /\ given[0][c] + given[1][c] =
             received[0][c] + (residual[0][c] + residual[1][c]) + IF Done(c) THEN gradient[0][c] ELSE 0
    BY DEF Balanced, Over
  <2>2. /\ given[0][c] \in Int /\ given[1][c] \in Int /\ received[0][c] \in Int
        /\ residual[0][c] \in Int /\ residual[1][c] \in Int /\ gradient[0][c] \in Int
        /\ Increment(0, c) \in Int /\ Increment(1, c) \in Int
    BY <1>7 DEF CompressionTypes, Values, Parts
  <2>3. CASE c \in Bucket
    <3>1. /\ given'[0][c] = given[0][c] + Increment(0, c) /\ given'[1][c] = given[1][c] + Increment(1, c)
          /\ gradient'[0][c] = pay(sent, 0, c) + pay(sent, 1, c)
          /\ gradient'[1][c] = pay(sent, 0, c) + pay(sent, 1, c)
          /\ residual'[0][c] = IF c \in sent[0] THEN 0 ELSE acc(0, c)
          /\ residual'[1][c] = IF c \in sent[1] THEN 0 ELSE acc(1, c)
      BY <1>4, <2>3 DEF Parts
    <3>2. acc(0, c) = residual[0][c] + Increment(0, c) /\ acc(1, c) = residual[1][c] + Increment(1, c)
      BY <2>3
    <3>3. ~Done(c) /\ Done(c)'
      BY <1>9, <1>10, <2>3
    <3>4. /\ gradient'[0][c] + residual'[0][c] + residual'[1][c] = acc(0, c) + acc(1, c)
          /\ residual'[0][c] \in Int /\ residual'[1][c] \in Int /\ gradient'[0][c] \in Int
      BY <3>1, <3>2, <2>2
    <3>5. given[0][c] + given[1][c] = received[0][c] + residual[0][c] + residual[1][c]
      BY <2>1, <2>2, <3>3
    <3>6. given'[0][c] + given'[1][c] = received[0][c] + (residual'[0][c] + residual'[1][c]) + gradient'[0][c]
      <4> HIDE DEF acc, pay
      <4> QED BY <2>2, <3>1, <3>2, <3>4, <3>5
    <3>7. gradient'[0][c] = gradient'[1][c]
      <4> HIDE DEF acc, pay
      <4> QED BY <3>1
    <3> HIDE DEF acc, pay
    <3> QED BY <2>1, <3>3, <3>6, <3>7, <1>5 DEF Over
  <2>4. CASE c \notin Bucket
    <3>1. c \notin sent[0] /\ c \notin sent[1]
      BY <1>6, <2>4 DEF Parts
    <3>2. /\ given'[0][c] = given[0][c] /\ given'[1][c] = given[1][c]
          /\ gradient'[0][c] = gradient[0][c] /\ gradient'[1][c] = gradient[1][c]
          /\ residual'[0][c] = residual[0][c] /\ residual'[1][c] = residual[1][c]
      BY <1>4, <3>1, <2>4, <2>2 DEF Parts
    <3>3. Done(c)' = Done(c)
      BY <1>9, <2>4 DEF Done
    <3> QED BY <2>1, <3>2, <3>3, <1>5 DEF Over
  <2> QED BY <2>3, <2>4
<1>12. StoredBalanced'
  BY <1>5, SameCoordinates DEF StoredBalanced, Over
<1> QED BY <1>8, <1>11, <1>12

LEMMA SynchronizedKeeps ==
  ASSUME BalanceInv, Synchronized
  PROVE  BalanceInv'
<1> USE DEF BalanceInv
<1>1. /\ exchanging' = 0 /\ \A c \in Coordinates : Done(c)
      /\ received' = [r \in Parts |-> [c \in Coordinates |-> received[r][c] + gradient[r][c]]]
      /\ UNCHANGED <<synchronizer, residual, momentum, gradient, stored, given>>
  BY DEF Synchronized, Done
<1>2. received' \in Values
  BY <1>1 DEF CompressionTypes, Values
<1>3. CompressionTypes'
  BY <1>1, <1>2, SameCoordinates DEF CompressionTypes
<1>4. \A c \in Coordinates : ~Done(c)'
  <2> SUFFICES ASSUME NEW c \in Coordinates PROVE ~(BucketOf(c) < 0)
    BY <1>1, SameCoordinates DEF Done
  <2> QED BY BucketsAreNumbered DEF CompressionTypes
<1>5. Balanced'
  <2> SUFFICES ASSUME NEW c \in Coordinates
               PROVE  /\ received'[0][c] = received'[1][c]
                      /\ Over(given, c) = received'[0][c] + Over(residual, c) + 0
    BY <1>1, <1>4, SameCoordinates DEF Balanced, Over
  <2>1. /\ received'[0][c] = received[0][c] + gradient[0][c]
        /\ received'[1][c] = received[1][c] + gradient[1][c]
    BY <1>1 DEF Parts
  <2>2. /\ given[0][c] \in Int /\ given[1][c] \in Int /\ received[0][c] \in Int
        /\ residual[0][c] \in Int /\ residual[1][c] \in Int /\ gradient[0][c] \in Int
    BY DEF CompressionTypes, Values, Parts
  <2>3. /\ received[0][c] = received[1][c] /\ gradient[0][c] = gradient[1][c]
        /\ Over(given, c) = received[0][c] + Over(residual, c) + gradient[0][c]
    BY <1>1 DEF Balanced
  <2> QED BY <2>1, <2>2, <2>3 DEF Over
<1>6. StoredBalanced'
  BY <1>1, SameCoordinates DEF StoredBalanced, Over
<1> QED BY <1>3, <1>5, <1>6

LEMMA BalanceWhenIdle ==
  ASSUME CompressionTypes, exchanging = 0
  PROVE  /\ \A c \in Coordinates : ~Done(c)
         /\ \A c \in Coordinates : received[0][c] + Over(residual, c) + 0 = received[0][c] + Over(residual, c)
<1>1. \A c \in Coordinates : ~(BucketOf(c) < 0)
  BY BucketsAreNumbered DEF CompressionTypes
<1>2. \A c \in Coordinates :
        received[0][c] \in Int /\ residual[0][c] \in Int /\ residual[1][c] \in Int
  BY DEF CompressionTypes, Values, Parts
<1> QED BY <1>1, <1>2 DEF Done, Over

LEMMA SaveKeeps ==
  ASSUME BalanceInv, SaveState
  PROVE  BalanceInv'
<1> USE DEF BalanceInv
<1>1. /\ exchanging = 0
      /\ stored' = [residual |-> residual, momentum |-> momentum, completed |-> completed,
                    given |-> given, received |-> received]
      /\ UNCHANGED <<synchronizer, residual, momentum, exchanging, gradient, given, received>>
  BY DEF SaveState, feedback, histories
<1>2. CompressionTypes'
  BY <1>1, SameCoordinates DEF CompressionTypes
<1>3. Balanced'
  BY <1>1, SameCoordinates DEF Balanced, Over, Done
<1>4. StoredBalanced'
  BY <1>1, SameCoordinates, BalanceWhenIdle DEF Balanced, StoredBalanced, Over
<1> QED BY <1>2, <1>3, <1>4

LEMMA LoadKeeps ==
  ASSUME BalanceInv, LoadState
  PROVE  BalanceInv'
<1> USE DEF BalanceInv
<1>1. /\ residual' = stored.residual /\ momentum' = stored.momentum
      /\ given' = stored.given /\ received' = stored.received
      /\ exchanging' = 0 /\ gradient' = Zero
      /\ UNCHANGED <<synchronizer, stored>>
  BY DEF LoadState
<1>2. Zero \in Values
  BY DEF Zero, Values
<1>3. CompressionTypes'
  BY <1>1, <1>2, SameCoordinates DEF CompressionTypes
<1>4. \A c \in Coordinates : ~Done(c)'
  <2> SUFFICES ASSUME NEW c \in Coordinates PROVE ~(BucketOf(c) < 0)
    BY <1>1, SameCoordinates DEF Done
  <2> QED BY BucketsAreNumbered DEF CompressionTypes
<1>5. StoredBalanced'
  BY <1>1, SameCoordinates DEF StoredBalanced, Over
<1>6. Balanced'
  <2> SUFFICES ASSUME NEW c \in Coordinates
               PROVE  /\ received'[0][c] = received'[1][c]
                      /\ Over(given', c) = received'[0][c] + Over(residual', c) + 0
    BY <1>4, SameCoordinates, <1>1 DEF Balanced, Over
  <2>1. /\ received'[0][c] = received'[1][c]
        /\ Over(given', c) = received'[0][c] + Over(residual', c)
    BY <1>1 DEF StoredBalanced, Over
  <2>2. received'[0][c] \in Int /\ residual'[0][c] \in Int /\ residual'[1][c] \in Int
    BY <1>1 DEF CompressionTypes, Values, Parts
  <2> QED BY <2>1, <2>2 DEF Over
<1> QED BY <1>3, <1>5, <1>6

LEMMA CompressionStep == BalanceInv /\ [CompressionNext]_compressionVars => BalanceInv'
<1> SUFFICES ASSUME BalanceInv, [CompressionNext]_compressionVars PROVE BalanceInv'
  OBVIOUS
<1>1. CASE UNCHANGED compressionVars
  BY <1>1, SameCoordinates
     DEF compressionVars, feedback, histories, BalanceInv, CompressionTypes, Balanced,
         StoredBalanced, Over, Done
<1> QED BY <1>1, SynchronizeKeeps, ExchangeKeeps, SynchronizedKeeps, SaveKeeps, LoadKeeps
    DEF CompressionNext

\* Whatever is selected in whichever bucket, between two calls of synchronize
\* every gradient has been applied by both replicas alike or is kept for a later
\* one, also after loading a state (synchronize, load_state_dict).
THEOREM GradientsAreConserved == CompressionSpec => []NothingIsLost
<1>1. BalanceInv => NothingIsLost
  BY BalanceWhenIdle DEF BalanceInv, Balanced, NothingIsLost
<1> QED BY <1>1, CompressionStarts, CompressionStep, PTL DEF CompressionSpec
=============================================================================
