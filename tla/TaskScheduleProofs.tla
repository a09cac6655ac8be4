------------------------- MODULE TaskScheduleProofs -------------------------
(***************************************************************************)
(* What the ranks of the two task runners hold when they update and when   *)
(* they have validated, for any plans, jobs, failures and restarts.        *)
(*                                                                         *)
(* The ranks run apart, over wires and meetings, so no invariant on the    *)
(* states alone says what a rank holds: it depends on where in its program *)
(* each of the others is.  A schedule says it: a sequence of moments that  *)
(* plays the programs of all ranks together, with a note after each of     *)
(* what each rank holds.                                                   *)
(*   - the schedules of micro-batches in TrainingProofs are composed to    *)
(*     schedules of a batch, a training step, a validation and a program;  *)
(*   - a rank that has made the calls of its program up to some moment of  *)
(*     a schedule holds what the schedule notes of that moment, whatever   *)
(*     the others have done meanwhile;                                     *)
(*   - the schedule's notes have the two properties.                       *)
(***************************************************************************)
EXTENDS TrainingProofs

------------------------------------------------------------------------------
(* Batches.                                                                 *)

\* What is known of a rank when got went forward, back came back, and done is
\* done.
Progress(b, x, got, back, done) ==
  [batch |-> b, answers |-> x, loaded |-> TRUE, got |-> got, fwd |-> got, back |-> back, bwd |-> back,
   counted |-> "counted" \in done, lossAll |-> "lossAll" \in done, heard |-> "heard" \in done,
   gradAll |-> "gradAll" \in done, normed |-> "normed" \in done]
IsProgress(e, b, x, got, back, done) ==
  /\ e \in Expectations /\ e.batch = b /\ e.answers = x /\ e.loaded /\ e.got = got /\ e.fwd = got
  /\ e.back = back /\ e.bwd = back /\ (e.counted <=> "counted" \in done) /\ (e.lossAll <=> "lossAll" \in done)
  /\ (e.heard <=> "heard" \in done) /\ (e.gradAll <=> "gradAll" \in done) /\ (e.normed <=> "normed" \in done)

LEMMA ProgressFields ==
  ASSUME NEW b \in Int, NEW x \in SUBSET Int, NEW got \in SUBSET Slots, NEW back \in SUBSET Slots, NEW done
  PROVE  IsProgress(Progress(b, x, got, back, done), b, x, got, back, done)
<1> DEFINE a == "counted" \in done
           c == "lossAll" \in done
           d == "heard" \in done
           f == "gradAll" \in done
           g == "normed" \in done
<1>1. a \in BOOLEAN /\ c \in BOOLEAN /\ d \in BOOLEAN /\ f \in BOOLEAN /\ g \in BOOLEAN
  OBVIOUS
<1>2. Progress(b, x, got, back, done) =
        [batch |-> b, answers |-> x, loaded |-> TRUE, got |-> got, fwd |-> got, back |-> back, bwd |-> back,
         counted |-> a, lossAll |-> c, heard |-> d, gradAll |-> f, normed |-> g]
  BY DEF Progress
<1> HIDE DEF a, c, d, f, g
<1>3. Progress(b, x, got, back, done) \in Expectations
  BY <1>1, <1>2 DEF Expectations
<1> DEFINE e == Progress(b, x, got, back, done)
<1>4. /\ e.batch = b /\ e.answers = x /\ e.loaded /\ e.got = got /\ e.fwd = got /\ e.back = back /\ e.bwd = back
      /\ e.counted = a /\ e.lossAll = c /\ e.heard = d /\ e.gradAll = f /\ e.normed = g
  BY <1>2
<1> HIDE DEF e
<1>5. /\ (e.counted <=> "counted" \in done) /\ (e.lossAll <=> "lossAll" \in done)
      /\ (e.heard <=> "heard" \in done) /\ (e.gradAll <=> "gradAll" \in done) /\ (e.normed <=> "normed" \in done)
  BY <1>4, Zenon DEF a, c, d, f, g
<1>6. IsProgress(e, b, x, got, back, done)
  BY <1>3, <1>4, <1>5 DEF IsProgress, e
<1> QED BY <1>6 DEF e

LEMMA SameExpectations ==
  ASSUME NEW e \in Expectations, NEW f, SameExpectation(e, f, {})
  PROVE  f = e
<1>1. f \in Expectations /\ f.batch = e.batch /\ f.answers = e.answers /\ f.loaded = e.loaded /\ f.counted = e.counted
      /\ f.lossAll = e.lossAll /\ f.heard = e.heard /\ f.gradAll = e.gradAll /\ f.normed = e.normed
      /\ f.got = e.got /\ f.fwd = e.fwd /\ f.back = e.back /\ f.bwd = e.bwd
  BY DEF SameExpectation
<1>2. Reached(e, e.got, e.fwd, e.back, e.bwd) = e /\ Reached(f, f.got, f.fwd, f.back, f.bwd) = f
  BY <1>1, ReachedAgain
<1>3. Reached(e, e.got, e.fwd, e.back, e.bwd) = Reached(f, f.got, f.fwd, f.back, f.bwd)
  BY <1>1 DEF Reached
<1> QED BY <1>2, <1>3

\* What it is known by.
LEMMA ProgressIs ==
  ASSUME NEW b \in Int, NEW x \in SUBSET Int, NEW got \in SUBSET Slots, NEW back \in SUBSET Slots, NEW done,
         NEW e, IsProgress(e, b, x, got, back, done)
  PROVE  e = Progress(b, x, got, back, done)
<1> DEFINE f == Progress(b, x, got, back, done)
<1>1. IsProgress(f, b, x, got, back, done)
  BY ProgressFields
<1> HIDE DEF f
<1>2. f \in Expectations /\ SameExpectation(f, e, {})
  <2>1. e.counted \in BOOLEAN /\ f.counted \in BOOLEAN /\ e.lossAll \in BOOLEAN /\ f.lossAll \in BOOLEAN
        /\ e.heard \in BOOLEAN /\ f.heard \in BOOLEAN /\ e.gradAll \in BOOLEAN /\ f.gradAll \in BOOLEAN
        /\ e.normed \in BOOLEAN /\ f.normed \in BOOLEAN /\ e.loaded \in BOOLEAN /\ f.loaded \in BOOLEAN
    BY <1>1 DEF IsProgress, Expectations
  <2> QED BY <1>1, <2>1 DEF IsProgress, SameExpectation
<1>3. e = f
  BY <1>2, SameExpectations
<1> QED BY <1>3 DEF f

\* One thing more is known.
NowCounted(e) == [e EXCEPT !.counted = TRUE]
NowLost(e) == [e EXCEPT !.lossAll = TRUE]
NowHeard(e) == [e EXCEPT !.heard = TRUE]
NowSummed(e) == [e EXCEPT !.gradAll = TRUE]
NowNormed(e) == [e EXCEPT !.normed = TRUE]
NowAnswered(e, y) == [e EXCEPT !.answers = y]

Furthers(e, b, x, got, back, done) ==
  /\ NowCounted(e) = Progress(b, x, got, back, done \cup {"counted"})
  /\ NowLost(e) = Progress(b, x, got, back, done \cup {"lossAll"})
  /\ NowHeard(e) = Progress(b, x, got, back, done \cup {"heard"})
  /\ NowSummed(e) = Progress(b, x, got, back, done \cup {"gradAll"})
  /\ NowNormed(e) = Progress(b, x, got, back, done \cup {"normed"})
  /\ \A y \in SUBSET Int : NowAnswered(e, y) = Progress(b, y, got, back, done)
  /\ \A g, k : Reached(e, g, g, k, k) = Progress(b, x, g, k, done)

LEMMA ProgressGoesOn ==
  ASSUME NEW b \in Int, NEW x \in SUBSET Int, NEW got \in SUBSET Slots, NEW back \in SUBSET Slots, NEW done,
         NEW e, e = Progress(b, x, got, back, done)
  PROVE  Furthers(e, b, x, got, back, done)
<1>0. IsProgress(e, b, x, got, back, done) /\ e \in Expectations
  <2>1. IsProgress(e, b, x, got, back, done)
    BY ProgressFields
  <2> QED BY <2>1 DEF IsProgress
<1>1. NowCounted(e) = Progress(b, x, got, back, done \cup {"counted"})
  <2>1. SameExpectation(e, NowCounted(e), {"counted"}) /\ NowCounted(e).counted
    BY <1>0, ExpectationChanges, Zenon DEF NowCounted
  <2>2. NowCounted(e) \in Expectations
    BY <2>1 DEF SameExpectation
  <2>3. IsProgress(NowCounted(e), b, x, got, back, done \cup {"counted"})
    BY <1>0, <2>1, <2>2 DEF IsProgress, SameExpectation
  <2> QED BY <2>3, ProgressIs
<1>2. NowLost(e) = Progress(b, x, got, back, done \cup {"lossAll"})
  <2>1. SameExpectation(e, NowLost(e), {"lossAll"}) /\ NowLost(e).lossAll
    BY <1>0, ExpectationChanges, Zenon DEF NowLost
  <2>2. NowLost(e) \in Expectations
    BY <2>1 DEF SameExpectation
  <2>3. IsProgress(NowLost(e), b, x, got, back, done \cup {"lossAll"})
    BY <1>0, <2>1, <2>2 DEF IsProgress, SameExpectation
  <2> QED BY <2>3, ProgressIs
<1>3. NowHeard(e) = Progress(b, x, got, back, done \cup {"heard"})
  <2>1. SameExpectation(e, NowHeard(e), {"heard"}) /\ NowHeard(e).heard
    BY <1>0, ExpectationChanges, Zenon DEF NowHeard
  <2>2. NowHeard(e) \in Expectations
    BY <2>1 DEF SameExpectation
  <2>3. IsProgress(NowHeard(e), b, x, got, back, done \cup {"heard"})
    BY <1>0, <2>1, <2>2 DEF IsProgress, SameExpectation
  <2> QED BY <2>3, ProgressIs
<1>4. NowSummed(e) = Progress(b, x, got, back, done \cup {"gradAll"})
  <2>1. SameExpectation(e, NowSummed(e), {"gradAll"}) /\ NowSummed(e).gradAll
    BY <1>0, ExpectationChanges, Zenon DEF NowSummed
  <2>2. NowSummed(e) \in Expectations
    BY <2>1 DEF SameExpectation
  <2>3. IsProgress(NowSummed(e), b, x, got, back, done \cup {"gradAll"})
    BY <1>0, <2>1, <2>2 DEF IsProgress, SameExpectation
  <2> QED BY <2>3, ProgressIs
<1>5. NowNormed(e) = Progress(b, x, got, back, done \cup {"normed"})
  <2>1. SameExpectation(e, NowNormed(e), {"normed"}) /\ NowNormed(e).normed
    BY <1>0, ExpectationChanges, Zenon DEF NowNormed
  <2>2. NowNormed(e) \in Expectations
    BY <2>1 DEF SameExpectation
  <2>3. IsProgress(NowNormed(e), b, x, got, back, done \cup {"normed"})
    BY <1>0, <2>1, <2>2 DEF IsProgress, SameExpectation
  <2> QED BY <2>3, ProgressIs
<1>6. ASSUME NEW y \in SUBSET Int PROVE NowAnswered(e, y) = Progress(b, y, got, back, done)
  <2>1. SameExpectation(e, NowAnswered(e, y), {"answers"}) /\ NowAnswered(e, y).answers = y
    BY <1>0, ExpectationChanges, Zenon DEF NowAnswered
  <2>2. NowAnswered(e, y) \in Expectations
    BY <2>1 DEF SameExpectation
  <2>3. IsProgress(NowAnswered(e, y), b, y, got, back, done)
    BY <1>0, <2>1, <2>2 DEF IsProgress, SameExpectation
  <2> QED BY <2>3, ProgressIs
<1>7. ASSUME NEW g, NEW k PROVE Reached(e, g, g, k, k) = Progress(b, x, g, k, done)
  BY DEF Progress, Reached
<1> QED BY <1>1, <1>2, <1>3, <1>4, <1>5, <1>6, <1>7 DEF Furthers

\* The same of all ranks in V; of the others what D says.
Ongoing(V, D, b, X, got, back, done) ==
  [w \in World |-> IF w \in V THEN Progress(b, X[w], got, back, done) ELSE D[w]]

AreProgress(E, V, b, X, got, back, done) == \A w \in V : IsProgress(E[w], b, X[w], got, back, done)
AllGoOn(E, V, D, b, X, got, back, done) ==
  /\ \A w \in V :
       /\ Ongoing(V, D, b, X, got, back, done \cup {"counted"})[w] = NowCounted(E[w])
       /\ Ongoing(V, D, b, X, got, back, done \cup {"lossAll"})[w] = NowLost(E[w])
       /\ Ongoing(V, D, b, X, got, back, done \cup {"heard"})[w] = NowHeard(E[w])
       /\ Ongoing(V, D, b, X, got, back, done \cup {"gradAll"})[w] = NowSummed(E[w])
       /\ Ongoing(V, D, b, X, got, back, done \cup {"normed"})[w] = NowNormed(E[w])
       /\ \A g, k : Ongoing(V, D, b, X, g, k, done)[w] = Reached(E[w], g, g, k, k)
  /\ \A g, k, d : \A w \in World : w \notin V => Ongoing(V, D, b, X, g, k, d)[w] = D[w]
IntSets(X) == \A w \in World : X[w] \in SUBSET Int

LEMMA OngoingGoesOn ==
  ASSUME NEW V, V \subseteq World, NEW D, NEW b \in Int, NEW X, IntSets(X),
         NEW got \in SUBSET Slots, NEW back \in SUBSET Slots, NEW done,
         NEW E, E = Ongoing(V, D, b, X, got, back, done)
  PROVE  AreProgress(E, V, b, X, got, back, done) /\ AllGoOn(E, V, D, b, X, got, back, done)
<1>1. \A g, k, d : \A w \in V : Ongoing(V, D, b, X, g, k, d)[w] = Progress(b, X[w], g, k, d)
  BY DEF Ongoing
<1>2. \A g, k, d : \A w \in World : w \notin V => Ongoing(V, D, b, X, g, k, d)[w] = D[w]
  BY DEF Ongoing
<1>3. ASSUME NEW w \in V PROVE IsProgress(E[w], b, X[w], got, back, done)
  <2>1. E[w] = Progress(b, X[w], got, back, done) /\ X[w] \in SUBSET Int
    BY <1>1 DEF IntSets
  <2> QED BY <2>1, ProgressFields
<1>4. ASSUME NEW w \in V
      PROVE  /\ Ongoing(V, D, b, X, got, back, done \cup {"counted"})[w] = NowCounted(E[w])
             /\ Ongoing(V, D, b, X, got, back, done \cup {"lossAll"})[w] = NowLost(E[w])
             /\ Ongoing(V, D, b, X, got, back, done \cup {"heard"})[w] = NowHeard(E[w])
             /\ Ongoing(V, D, b, X, got, back, done \cup {"gradAll"})[w] = NowSummed(E[w])
             /\ Ongoing(V, D, b, X, got, back, done \cup {"normed"})[w] = NowNormed(E[w])
             /\ \A g, k : Ongoing(V, D, b, X, g, k, done)[w] = Reached(E[w], g, g, k, k)
  <2> DEFINE x == X[w]
             e == E[w]
  <2>1. e = Progress(b, x, got, back, done) /\ x \in SUBSET Int
    BY <1>1 DEF IntSets
  <2> HIDE DEF e, x
  <2>0. got \in SUBSET Slots /\ back \in SUBSET Slots /\ b \in Int
    OBVIOUS
  <2>2. Furthers(e, b, x, got, back, done)
    BY <2>0, <2>1, ProgressGoesOn
  <2>3. /\ NowCounted(e) = Progress(b, x, got, back, done \cup {"counted"})
        /\ NowLost(e) = Progress(b, x, got, back, done \cup {"lossAll"})
        /\ NowHeard(e) = Progress(b, x, got, back, done \cup {"heard"})
        /\ NowSummed(e) = Progress(b, x, got, back, done \cup {"gradAll"})
        /\ NowNormed(e) = Progress(b, x, got, back, done \cup {"normed"})
        /\ \A g, k : Reached(e, g, g, k, k) = Progress(b, x, g, k, done)
    BY <2>2 DEF Furthers
  <2> QED BY <1>1, <2>3 DEF e, x
<1> QED BY <1>2, <1>3, <1>4 DEF AreProgress, AllGoOn

LEMMA OngoingLevel ==
  ASSUME job \in Jobs, NEW V, Closed(V), NEW D, NEW b \in Int, NEW X, IntSets(X),
         NEW got \in SUBSET Slots, NEW back \in SUBSET Slots, NEW done,
         NEW E, E = Ongoing(V, D, b, X, got, back, done)
  PROVE  Level(E, V) /\ LevelBatch(E, V)
<1>1. V \subseteq World /\ \A w \in V : Pipeline(w) \subseteq V
  BY DEF Closed
<1>2. \A w \in V : IsProgress(E[w], b, X[w], got, back, done)
  BY <1>1, OngoingGoesOn DEF AreProgress
<1>3. ASSUME NEW w \in V, NEW v \in Pipeline(w)
      PROVE  E[v].batch = E[w].batch /\ E[v].fwd = E[w].fwd /\ E[v].got = E[w].got /\ E[v].lossAll = E[w].lossAll
  <2>1. v \in V
    BY <1>1
  <2> DEFINE e == E[w]
             f == E[v]
             x == X[w]
             y == X[v]
  <2>2. IsProgress(e, b, x, got, back, done) /\ IsProgress(f, b, y, got, back, done)
    BY <1>2, <2>1
  <2> HIDE DEF e, f, x, y
  <2>3. e.lossAll \in BOOLEAN /\ f.lossAll \in BOOLEAN
    BY <2>2 DEF IsProgress, Expectations
  <2>4. f.batch = e.batch /\ f.fwd = e.fwd /\ f.got = e.got /\ f.lossAll = e.lossAll
    BY <2>2, <2>3 DEF IsProgress
  <2> QED BY <2>4 DEF e, f
<1> QED BY <1>3 DEF Level, LevelBatch

\* The calls of a batch, one after the other.
LEMMA OngoingCount ==
  ASSUME job \in Jobs, NEW steps, NEW D, NEW b \in Int, NEW X, IntSets(X),
         NEW got \in SUBSET Slots, NEW back \in SUBSET Slots, NEW done,
         "counted" \notin done,
         NEW act, \A w \in World : act[w] = Data(w, "count"),
         NEW E, E = Ongoing(World, D, b, X, got, back, done),
         NEW F, F = Ongoing(World, D, b, X, got, back, done \cup {"counted"})
  PROVE  Leads(act, E, F, steps)
<1>0. World \subseteq World /\ Closed(World)
  BY Groups DEF Closed
<1>3. AreProgress(E, World, b, X, got, back, done) /\ AllGoOn(E, World, D, b, X, got, back, done)
  BY <1>0, OngoingGoesOn
<1>1. \A w \in World : IsProgress(E[w], b, X[w], got, back, done)
  BY <1>3 DEF AreProgress
<1>2. \A w \in World : F[w] = NowCounted(E[w])
  BY <1>3 DEF AllGoOn
<1>4. Level(E, World) /\ LevelBatch(E, World)
  BY <1>0, OngoingLevel
<1>5. \A w \in World : E[w] \in Expectations /\ E[w].loaded /\ ~E[w].counted
  <2> TAKE w \in World
  <2> DEFINE e == E[w]
             x == X[w]
  <2>1. IsProgress(e, b, x, got, back, done)
    BY <1>1
  <2> HIDE DEF e, x
  <2>2. e \in Expectations /\ e.loaded /\ ~e.counted
    BY <2>1 DEF IsProgress
  <2> QED BY <2>2 DEF e
<1>6. \A w \in World : F[w] = NowCounted(E[w])
  BY <1>2
<1> QED BY <1>5, <1>6, CountLeads DEF NowCounted

LEMMA OngoingSum ==
  ASSUME job \in Jobs, NEW steps, NEW D, NEW b \in Int, NEW X, IntSets(X),
         NEW got \in SUBSET Slots, NEW back \in SUBSET Slots, NEW done,
         "gradAll" \notin done, back = Slots,
         NEW act, \A w \in World : act[w] = Data(w, "gradients"),
         NEW E, E = Ongoing(World, D, b, X, got, back, done),
         NEW F, F = Ongoing(World, D, b, X, got, back, done \cup {"gradAll"})
  PROVE  Leads(act, E, F, steps)
<1>0. World \subseteq World /\ Closed(World)
  BY Groups DEF Closed
<1>3. AreProgress(E, World, b, X, got, back, done) /\ AllGoOn(E, World, D, b, X, got, back, done)
  BY <1>0, OngoingGoesOn
<1>1. \A w \in World : IsProgress(E[w], b, X[w], got, back, done)
  BY <1>3 DEF AreProgress
<1>2. \A w \in World : F[w] = NowSummed(E[w])
  BY <1>3 DEF AllGoOn
<1>4. Level(E, World) /\ LevelBatch(E, World)
  BY <1>0, OngoingLevel
<1>5. \A w \in World : E[w] \in Expectations /\ E[w].loaded /\ E[w].batch = b /\ ~E[w].gradAll /\ E[w].bwd = Slots
  <2> TAKE w \in World
  <2> DEFINE e == E[w]
             x == X[w]
  <2>1. IsProgress(e, b, x, got, back, done)
    BY <1>1
  <2> HIDE DEF e, x
  <2>2. e \in Expectations /\ e.loaded /\ e.batch = b /\ ~e.gradAll /\ e.bwd = Slots
    BY <2>1 DEF IsProgress
  <2> QED BY <2>2 DEF e
<1>6. \A w \in World : F[w] = NowSummed(E[w])
  BY <1>2
<1>7. \A w \in World : F[w] = [E[w] EXCEPT !.gradAll = TRUE]
  BY <1>6 DEF NowSummed
<1>8. GradientsReady(E, b)
  BY <1>5 DEF GradientsReady
<1> QED BY <1>7, <1>8, GradientsLead

LEMMA OngoingNorm ==
  ASSUME job \in Jobs, NEW steps, NEW D, NEW b \in Int, NEW X, IntSets(X),
         NEW got \in SUBSET Slots, NEW back \in SUBSET Slots, NEW done,
         "gradAll" \in done,
         NEW act, \A w \in World : act[w] = Pipe(w, "norm"),
         NEW E, E = Ongoing(World, D, b, X, got, back, done),
         NEW F, F = Ongoing(World, D, b, X, got, back, done \cup {"normed"})
  PROVE  Leads(act, E, F, steps)
<1>0. World \subseteq World /\ Closed(World)
  BY Groups DEF Closed
<1>3. AreProgress(E, World, b, X, got, back, done) /\ AllGoOn(E, World, D, b, X, got, back, done)
  BY <1>0, OngoingGoesOn
<1>1. \A w \in World : IsProgress(E[w], b, X[w], got, back, done)
  BY <1>3 DEF AreProgress
<1>2. \A w \in World : F[w] = NowNormed(E[w])
  BY <1>3 DEF AllGoOn
<1>4. Level(E, World) /\ LevelBatch(E, World)
  BY <1>0, OngoingLevel
<1>5. \A w \in World : E[w] \in Expectations /\ E[w].loaded /\ E[w].batch = b /\ E[w].gradAll
  <2> TAKE w \in World
  <2> DEFINE e == E[w]
             x == X[w]
  <2>1. IsProgress(e, b, x, got, back, done)
    BY <1>1
  <2> HIDE DEF e, x
  <2>2. e \in Expectations /\ e.loaded /\ e.batch = b /\ e.gradAll
    BY <2>1 DEF IsProgress
  <2> QED BY <2>2 DEF e
<1>6. \A w \in World : F[w] = NowNormed(E[w])
  BY <1>2
<1> QED BY <1>5, <1>6, NormLeads DEF NowNormed

LEMMA OngoingReport ==
  ASSUME job \in Jobs, NEW steps, NEW V, Closed(V), NEW D, NEW b \in Int, NEW X, IntSets(X),
         NEW got \in SUBSET Slots, NEW back \in SUBSET Slots, NEW done,
         NEW act, \A w \in World : act[w] = IF w \in V THEN Pipe(w, "report") ELSE <<>>,
         NEW E, E = Ongoing(V, D, b, X, got, back, done),
         NEW F, F = Ongoing(V, D, b, X, got, back, done \cup {"heard"})
  PROVE  Leads(act, E, F, steps)
<1>0. V \subseteq World
  BY DEF Closed
<1>3. AreProgress(E, V, b, X, got, back, done) /\ AllGoOn(E, V, D, b, X, got, back, done)
  BY <1>0, OngoingGoesOn
<1>1. \A w \in V : IsProgress(E[w], b, X[w], got, back, done)
  BY <1>3 DEF AreProgress
<1>2. \A w \in V : F[w] = NowHeard(E[w])
  BY <1>3 DEF AllGoOn
<1>8. \A w \in World : w \notin V => F[w] = E[w]
  <2>1. \A w \in World : w \notin V => F[w] = D[w] /\ E[w] = D[w]
    BY <1>3 DEF AllGoOn
  <2> QED BY <2>1
<1>4. Level(E, V) /\ LevelBatch(E, V)
  BY <1>0, OngoingLevel
<1>5. \A w \in V : E[w] \in Expectations /\ E[w].loaded
  <2> TAKE w \in V
  <2> DEFINE e == E[w]
             x == X[w]
  <2>1. IsProgress(e, b, x, got, back, done)
    BY <1>1
  <2> HIDE DEF e, x
  <2>2. e \in Expectations /\ e.loaded
    BY <2>1 DEF IsProgress
  <2> QED BY <2>2 DEF e
<1>6. \A w \in World : F[w] = IF w \in V THEN NowHeard(E[w]) ELSE E[w]
  BY <1>2, <1>8
<1> QED BY <1>4, <1>5, <1>6, ReportLeads DEF NowHeard

LEMMA OngoingLoss ==
  ASSUME job \in Jobs, NEW steps, NEW D, NEW b \in Int, NEW X, IntSets(X),
         NEW got \in SUBSET Slots, NEW back \in SUBSET Slots, NEW done,
         "lossAll" \notin done, got = Slots,
         NEW act, \A w \in World : act[w] = IF Final(w) \/ "heard" \in done THEN Data(w, "loss") ELSE <<>>,
         NEW E, E = Ongoing(World, D, b, X, got, back, done),
         NEW F, F = Ongoing(World, D, b, X, got, back, done \cup {"lossAll"})
  PROVE  Leads(act, E, F, steps)
<1>0. World \subseteq World /\ Closed(World)
  BY Groups DEF Closed
<1>3. AreProgress(E, World, b, X, got, back, done) /\ AllGoOn(E, World, D, b, X, got, back, done)
  BY <1>0, OngoingGoesOn
<1>1. \A w \in World : IsProgress(E[w], b, X[w], got, back, done)
  BY <1>3 DEF AreProgress
<1>2. \A w \in World : F[w] = NowLost(E[w])
  BY <1>3 DEF AllGoOn
<1>4. Level(E, World) /\ LevelBatch(E, World)
  BY <1>0, OngoingLevel
<1>5. \A w \in World : E[w] \in Expectations /\ E[w].loaded /\ E[w].batch = b /\ ~E[w].lossAll /\ E[w].fwd = Slots
  <2> TAKE w \in World
  <2> DEFINE e == E[w]
             x == X[w]
  <2>1. IsProgress(e, b, x, got, back, done)
    BY <1>1
  <2> HIDE DEF e, x
  <2>2. e \in Expectations /\ e.loaded /\ e.batch = b /\ ~e.lossAll /\ e.fwd = Slots
    BY <2>1 DEF IsProgress
  <2> QED BY <2>2 DEF e
<1>6. \A w \in World : F[w] = NowLost(E[w])
  BY <1>2
<1> DEFINE G == {w \in World : Final(w) \/ "heard" \in done}
<1>7. G \subseteq World /\ \A w \in G : Replicas(w) \subseteq G
  BY DEF Replicas, Final
<1>8. \A w \in World : w \in G <=> (Final(w) \/ E[w].heard)
  <2> TAKE w \in World
  <2> DEFINE e == E[w]
             x == X[w]
  <2>1. IsProgress(e, b, x, got, back, done)
    BY <1>1
  <2> HIDE DEF e, x
  <2>2. e.heard <=> "heard" \in done
    BY <2>1 DEF IsProgress
  <2> QED BY <2>2 DEF e
<1>9. \A w \in World : act[w] = IF w \in G THEN Data(w, "loss") ELSE <<>>
  OBVIOUS
<1> HIDE DEF G
<1>10. \A w \in World : F[w] = [E[w] EXCEPT !.lossAll = TRUE]
  BY <1>6 DEF NowLost
<1>11. LossesReady(E, b)
  BY <1>5 DEF LossesReady
<1> QED BY <1>7, <1>8, <1>9, <1>10, <1>11, LossesLead

LEMMA OngoingForwards ==
  ASSUME job \in Jobs, NEW steps, NEW V, Closed(V), NEW D, NEW b \in Int, NEW X, IntSets(X),
         NEW got \in SUBSET Slots, NEW back \in SUBSET Slots, NEW done,
         NEW n \in 1 .. job.micros, got = {}, "heard" \notin done, "lossAll" \notin done,
         NEW act, \A w \in World : act[w] = IF w \in V THEN FlattenSeq([i \in 1 .. n |-> Forward(w, i)]) ELSE <<>>,
         NEW E, E = Ongoing(V, D, b, X, got, back, done),
         NEW F, F = Ongoing(V, D, b, X, 1 .. n, back, done)
  PROVE  Leads(act, E, F, steps)
<1>0. V \subseteq World
  BY DEF Closed
<1>3. AreProgress(E, V, b, X, got, back, done) /\ AllGoOn(E, V, D, b, X, got, back, done)
  BY <1>0, OngoingGoesOn
<1>1. \A w \in V : IsProgress(E[w], b, X[w], got, back, done)
  BY <1>3 DEF AreProgress
<1>2. \A w \in V : F[w] = Reached(E[w], 1 .. n, 1 .. n, back, back)
  BY <1>3 DEF AllGoOn
<1>8. \A w \in World : w \notin V => F[w] = E[w]
  <2>1. \A w \in World : w \notin V => F[w] = D[w] /\ E[w] = D[w]
    BY <1>3 DEF AllGoOn
  <2> QED BY <2>1
<1>4. Level(E, V) /\ LevelBatch(E, V)
  BY <1>0, OngoingLevel
<1>5. \A w \in V : E[w] \in Expectations /\ E[w].loaded /\ ~E[w].heard /\ ~E[w].lossAll /\ E[w].got = {} /\ E[w].fwd = {} /\ E[w].back = back /\ E[w].bwd = back
  <2> TAKE w \in V
  <2> DEFINE e == E[w]
             x == X[w]
  <2>1. IsProgress(e, b, x, got, back, done)
    BY <1>1
  <2> HIDE DEF e, x
  <2>2. e \in Expectations /\ e.loaded /\ ~e.heard /\ ~e.lossAll /\ e.got = {} /\ e.fwd = {} /\ e.back = back /\ e.bwd = back
    BY <2>1 DEF IsProgress
  <2> QED BY <2>2 DEF e
<1>6. \A w \in World : F[w] = IF w \in V THEN Reached(E[w], 1 .. n, 1 .. n, back, back) ELSE E[w]
  BY <1>2, <1>8
<1>7. \A w \in World : F[w] = IF w \in V THEN Reached(E[w], 1 .. n, 1 .. n, E[w].back, E[w].bwd) ELSE E[w]
  BY <1>5, <1>6
<1> QED BY <1>4, <1>5, <1>7, ForwardsLead

LEMMA OngoingBackwards ==
  ASSUME job \in Jobs, NEW steps, NEW D, NEW b \in Int, NEW X, IntSets(X),
         NEW got \in SUBSET Slots, NEW back \in SUBSET Slots, NEW done,
         got = Slots, back = {}, "gradAll" \notin done,
         NEW act, \A w \in World : act[w] = FlattenSeq([k \in 1 .. job.micros |-> Backward(w, DrainOrder(w, job.micros)[k])]),
         NEW E, E = Ongoing(World, D, b, X, got, back, done),
         NEW F, F = Ongoing(World, D, b, X, got, Slots, done)
  PROVE  Leads(act, E, F, steps)
<1>0. World \subseteq World /\ Closed(World)
  BY Groups DEF Closed
<1>3. AreProgress(E, World, b, X, got, back, done) /\ AllGoOn(E, World, D, b, X, got, back, done)
  BY <1>0, OngoingGoesOn
<1>1. \A w \in World : IsProgress(E[w], b, X[w], got, back, done)
  BY <1>3 DEF AreProgress
<1>2. \A w \in World : F[w] = Reached(E[w], got, got, Slots, Slots)
  BY <1>3 DEF AllGoOn
<1>4. Level(E, World) /\ LevelBatch(E, World)
  BY <1>0, OngoingLevel
<1>5. \A w \in World : E[w] \in Expectations /\ E[w].loaded /\ ~E[w].gradAll /\ E[w].got = Slots /\ E[w].fwd = got /\ E[w].got = got /\ E[w].back = {} /\ E[w].bwd = {}
  <2> TAKE w \in World
  <2> DEFINE e == E[w]
             x == X[w]
  <2>1. IsProgress(e, b, x, got, back, done)
    BY <1>1
  <2> HIDE DEF e, x
  <2>2. e \in Expectations /\ e.loaded /\ ~e.gradAll /\ e.got = Slots /\ e.fwd = got /\ e.got = got /\ e.back = {} /\ e.bwd = {}
    BY <2>1 DEF IsProgress
  <2> QED BY <2>2 DEF e
<1>6. \A w \in World : F[w] = Reached(E[w], got, got, Slots, Slots)
  BY <1>2
<1>7. \A w \in World : F[w] = Reached(E[w], E[w].got, E[w].fwd, Slots, Slots)
  BY <1>5, <1>6
<1> QED BY <1>4, <1>5, <1>7, BackwardsLead

LEMMA OngoingBoth ==
  ASSUME job \in Jobs, NEW steps, NEW D, NEW b \in Int, NEW X, IntSets(X),
         NEW got \in SUBSET Slots, NEW back \in SUBSET Slots, NEW done,
         got = {}, back = {}, "gradAll" \notin done, "heard" \notin done, "lossAll" \notin done,
         NEW act, \A w \in World : act[w] = FlattenSeq([i \in 1 .. job.micros |-> Forward(w, i) \o When(TRUE, Backward(w, i))]),
         NEW E, E = Ongoing(World, D, b, X, got, back, done),
         NEW F, F = Ongoing(World, D, b, X, Slots, Slots, done)
  PROVE  Leads(act, E, F, steps)
<1>0. World \subseteq World /\ Closed(World)
  BY Groups DEF Closed
<1>3. AreProgress(E, World, b, X, got, back, done) /\ AllGoOn(E, World, D, b, X, got, back, done)
  BY <1>0, OngoingGoesOn
<1>1. \A w \in World : IsProgress(E[w], b, X[w], got, back, done)
  BY <1>3 DEF AreProgress
<1>2. \A w \in World : F[w] = Reached(E[w], Slots, Slots, Slots, Slots)
  BY <1>3 DEF AllGoOn
<1>4. Level(E, World) /\ LevelBatch(E, World)
  BY <1>0, OngoingLevel
<1>5. \A w \in World : E[w] \in Expectations /\ E[w].loaded /\ ~E[w].heard /\ ~E[w].lossAll /\ ~E[w].gradAll /\ E[w].got = {} /\ E[w].fwd = {} /\ E[w].back = {} /\ E[w].bwd = {}
  <2> TAKE w \in World
  <2> DEFINE e == E[w]
             x == X[w]
  <2>1. IsProgress(e, b, x, got, back, done)
    BY <1>1
  <2> HIDE DEF e, x
  <2>2. e \in Expectations /\ e.loaded /\ ~e.heard /\ ~e.lossAll /\ ~e.gradAll /\ e.got = {} /\ e.fwd = {} /\ e.back = {} /\ e.bwd = {}
    BY <2>1 DEF IsProgress
  <2> QED BY <2>2 DEF e
<1>6. \A w \in World : F[w] = Reached(E[w], Slots, Slots, Slots, Slots)
  BY <1>2
<1> QED BY <1>4, <1>5, <1>6, BothLead

LEMMA PipeIsSilent ==
  ASSUME job \in Jobs, NEW V, Closed(V), NEW steps, NEW what \in {"header", "values", "mask", "counts", "hash", "batches"},
         NEW act, \A v \in World : act[v] = IF v \in V THEN Pipe(v, what) ELSE <<>>, NEW E
  PROVE  Leads(act, E, E, steps)
<1>1. what \in CallKinds \ (Compared \cup Joined)
  BY DEF CallKinds, TaskKinds, Compared, Joined
<1>2. Silent(act)
  BY <1>1, PipeSilent
<1> QED BY <1>2, SilentLeads

\* A batch is loaded.
LEMMA OngoingLoad ==
  ASSUME job \in Jobs, NEW steps, NEW V, Closed(V), NEW E, NEW b \in Int, NEW X,
         \A w \in V : E[w].batch + 1 = b /\ E[w].answers = X[w],
         NEW act, \A w \in World : act[w] = IF w \in V THEN <<Alone("load", 0)>> ELSE <<>>,
         NEW F, F = Ongoing(V, E, b, X, {}, {}, {})
  PROVE  Leads(act, E, F, steps)
<1>1. ASSUME NEW w \in World PROVE F[w] = IF w \in V THEN Loaded(E[w].batch + 1, E[w].answers) ELSE E[w]
  <2>1. F[w] = IF w \in V THEN Progress(b, X[w], {}, {}, {}) ELSE E[w]
    BY DEF Ongoing
  <2>2. \A x : Progress(b, x, {}, {}, {}) = Loaded(b, x)
    <3>1. ("counted" \in {}) = FALSE /\ ("lossAll" \in {}) = FALSE /\ ("heard" \in {}) = FALSE
          /\ ("gradAll" \in {}) = FALSE /\ ("normed" \in {}) = FALSE
      OBVIOUS
    <3> QED BY <3>1 DEF Progress, Loaded
  <2> QED BY <2>1, <2>2
<1> QED BY <1>1, LoadLeads

\* The first stage takes its answer.
LEMMA OngoingLogits ==
  ASSUME job \in Jobs, job.task = "qa", NEW steps \in Int, NEW V, Closed(V), NEW D, NEW b \in Int, NEW X, IntSets(X),
         NEW got \in SUBSET Slots, NEW back \in SUBSET Slots, NEW done, 1 \in got,
         NEW act, \A w \in World : act[w] = IF w \in V THEN Pipe(w, "logits") ELSE <<>>,
         NEW Y, \A w \in World : Y[w] = IF w = Leader(w) THEN X[w] \cup {Answer(w, b, steps)} ELSE X[w],
         NEW E, E = Ongoing(V, D, b, X, got, back, done),
         NEW F, F = Ongoing(V, D, b, Y, got, back, done)
  PROVE  Leads(act, E, F, steps)
<1>0. V \subseteq World
  BY DEF Closed
<1>1. AreProgress(E, V, b, X, got, back, done) /\ Level(E, V)
  BY <1>0, OngoingGoesOn, OngoingLevel
<1>2. ASSUME NEW w \in World
      PROVE  F[w] = IF w \in V /\ w = Leader(w)
                    THEN [E[w] EXCEPT !.answers = E[w].answers \cup {Answer(w, E[w].batch, steps)}] ELSE E[w]
  <2>1. CASE w \notin V
    <3>1. F[w] = D[w] /\ E[w] = D[w]
      BY <2>1 DEF Ongoing
    <3> QED BY <2>1, <3>1
  <2>2. CASE w \in V
    <3> DEFINE e == E[w]
               x == X[w]
               y == Y[w]
    <3>1. e = Progress(b, x, got, back, done) /\ F[w] = Progress(b, y, got, back, done)
      BY <2>2 DEF Ongoing
    <3>2. x \in SUBSET Int /\ y = (IF w = Leader(w) THEN x \cup {Answer(w, b, steps)} ELSE x)
      BY DEF IntSets
    <3>3. IsProgress(e, b, x, got, back, done)
      BY <1>1, <2>2 DEF AreProgress
    <3> HIDE DEF e, x, y
    <3>4. e.batch = b /\ e.answers = x
      BY <3>3 DEF IsProgress
    <3>5. CASE w # Leader(w)
      BY <3>1, <3>2, <3>5 DEF e
    <3>6. CASE w = Leader(w)
      <4> DEFINE z == x \cup {Answer(w, b, steps)}
      <4>1. z \in SUBSET Int
        BY <3>2, AnswerIsInt
      <4>2. y = z
        BY <3>2, <3>6
      <4>3. z = e.answers \cup {Answer(w, e.batch, steps)}
        BY <3>4
      <4> HIDE DEF z
      <4>4. Furthers(e, b, x, got, back, done)
        BY <3>1, <3>2, ProgressGoesOn
      <4>5. NowAnswered(e, z) = Progress(b, z, got, back, done)
        BY <4>1, <4>4 DEF Furthers
      <4>6. F[w] = [e EXCEPT !.answers = z]
        BY <3>1, <4>2, <4>5 DEF NowAnswered
      <4> QED BY <2>2, <3>6, <4>3, <4>6 DEF e
    <3> QED BY <3>5, <3>6
  <2> QED BY <2>1, <2>2
<1>3. ASSUME NEW w \in V PROVE E[w] \in Expectations /\ E[w].loaded /\ 1 \in E[w].got
  <2> DEFINE e == E[w]
             x == X[w]
  <2>1. IsProgress(e, b, x, got, back, done)
    BY <1>1 DEF AreProgress
  <2> HIDE DEF e, x
  <2>2. e \in Expectations /\ e.loaded /\ 1 \in e.got
    BY <2>1 DEF IsProgress
  <2> QED BY <2>2 DEF e
<1> QED BY <1>1, <1>2, <1>3, LogitsLead

\* A training batch of the qa runner.
LEMMA QATrains ==
  ASSUME job \in Jobs, NEW steps, NEW D, NEW b \in Int, NEW X, IntSets(X)
  PROVE  Leads([v \in World |-> QABatch(v, job.micros, TRUE)], Ongoing(World, D, b, X, {}, {}, {}),
               Ongoing(World, D, b, X, Slots, Slots, {"counted", "lossAll", "heard"}), steps)
<1> DEFINE p1 == [w \in World |-> Pipe(w, "header")]
           p2 == [w \in World |-> Pipe(w, "values")]
           p3 == [w \in World |-> When(TRUE, Data(w, "count"))]
           p4 == [w \in World |-> FlattenSeq([i \in 1 .. job.micros |-> Forward(w, i)])]
           p5 == [w \in World |-> When(TRUE, FlattenSeq([k \in 1 .. job.micros |-> Backward(w, DrainOrder(w, job.micros)[k])]))]
           p6 == [w \in World |-> When(Final(w) /\ TRUE, Data(w, "loss"))]
           p7 == [w \in World |-> Pipe(w, "report")]
           p8 == [w \in World |-> When(~TRUE, Pipe(w, "logits"))]
           r2 == [w \in World |-> p1[w] \o p2[w]]
           r3 == [w \in World |-> r2[w] \o p3[w]]
           r4 == [w \in World |-> r3[w] \o p4[w]]
           r5 == [w \in World |-> r4[w] \o p5[w]]
           r6 == [w \in World |-> r5[w] \o p6[w]]
           r7 == [w \in World |-> r6[w] \o p7[w]]
           r8 == [w \in World |-> r7[w] \o p8[w]]
           s0 == Ongoing(World, D, b, X, {}, {}, {})
           s3 == Ongoing(World, D, b, X, {}, {}, {} \cup {"counted"})
           s4 == Ongoing(World, D, b, X, Slots, {}, {} \cup {"counted"})
           s5 == Ongoing(World, D, b, X, Slots, Slots, {} \cup {"counted"})
           s6 == Ongoing(World, D, b, X, Slots, Slots, ({} \cup {"counted"}) \cup {"lossAll"})
           s7 == Ongoing(World, D, b, X, Slots, Slots, (({} \cup {"counted"}) \cup {"lossAll"}) \cup {"heard"})
<1>1. /\ \A w \in World : p1[w] = Pipe(w, "header")
      /\ \A w \in World : p2[w] = Pipe(w, "values")
      /\ \A w \in World : p3[w] = When(TRUE, Data(w, "count"))
      /\ \A w \in World : p4[w] = FlattenSeq([i \in 1 .. job.micros |-> Forward(w, i)])
      /\ \A w \in World : p5[w] = When(TRUE, FlattenSeq([k \in 1 .. job.micros |-> Backward(w, DrainOrder(w, job.micros)[k])]))
      /\ \A w \in World : p6[w] = When(Final(w) /\ TRUE, Data(w, "loss"))
      /\ \A w \in World : p7[w] = Pipe(w, "report")
      /\ \A w \in World : p8[w] = When(~TRUE, Pipe(w, "logits"))
  OBVIOUS
<1>2. /\ \A w \in World : r2[w] = p1[w] \o p2[w]
      /\ \A w \in World : r3[w] = r2[w] \o p3[w]
      /\ \A w \in World : r4[w] = r3[w] \o p4[w]
      /\ \A w \in World : r5[w] = r4[w] \o p5[w]
      /\ \A w \in World : r6[w] = r5[w] \o p6[w]
      /\ \A w \in World : r7[w] = r6[w] \o p7[w]
      /\ \A w \in World : r8[w] = r7[w] \o p8[w]
  OBVIOUS
<1>3. /\ s0 = Ongoing(World, D, b, X, {}, {}, {})
      /\ s3 = Ongoing(World, D, b, X, {}, {}, {} \cup {"counted"})
      /\ s4 = Ongoing(World, D, b, X, Slots, {}, {} \cup {"counted"})
      /\ s5 = Ongoing(World, D, b, X, Slots, Slots, {} \cup {"counted"})
      /\ s6 = Ongoing(World, D, b, X, Slots, Slots, ({} \cup {"counted"}) \cup {"lossAll"})
      /\ s7 = Ongoing(World, D, b, X, Slots, Slots, (({} \cup {"counted"}) \cup {"lossAll"}) \cup {"heard"})
  OBVIOUS
<1> HIDE DEF p1, p2, p3, p4, p5, p6, p7, p8, r2, r3, r4, r5, r6, r7, r8, s0, s3, s4, s5, s6, s7
<1>0. Closed(World) /\ World \subseteq World /\ {} \in SUBSET Slots /\ Slots \in SUBSET Slots
      /\ 1 .. job.micros = Slots /\ job.micros \in 1 .. job.micros
  <2>1. job.micros \in 1 .. job.micros
    BY JobSizes DEF Sizes
  <2> QED BY <2>1, Groups DEF Closed, Slots
<1>4. Leads(In(World, p1), s0, s0, steps)
  <2>1. \A w \in World : In(World, p1)[w] = IF w \in World THEN Pipe(w, "header") ELSE <<>>
    BY <1>1 DEF In
  <2> QED BY <1>0, <2>1, PipeIsSilent
<1>5. Leads(In(World, p2), s0, s0, steps)
  <2>1. \A w \in World : In(World, p2)[w] = IF w \in World THEN Pipe(w, "values") ELSE <<>>
    BY <1>1 DEF In
  <2> QED BY <1>0, <2>1, PipeIsSilent
<1>6. Leads(In(World, p3), s0, s3, steps)
  <2>1. \A w \in World : In(World, p3)[w] = IF w \in World THEN When(TRUE, Data(w, "count")) ELSE <<>>
    BY <1>1 DEF In
  <2>2. \A w \in World : In(World, p3)[w] = Data(w, "count")
    BY <2>1 DEF When
  <2>3. "counted" \notin {}
    OBVIOUS
  <2> QED BY <1>0, <1>3, <2>2, <2>3, OngoingCount
<1>7. Leads(In(World, p4), s3, s4, steps)
  <2>1. \A w \in World : In(World, p4)[w] = IF w \in World THEN FlattenSeq([i \in 1 .. job.micros |-> Forward(w, i)]) ELSE <<>>
    BY <1>1 DEF In
  <2>2. "heard" \notin {} \cup {"counted"} /\ "lossAll" \notin {} \cup {"counted"}
    OBVIOUS
  <2> QED BY <1>0, <1>3, <2>1, <2>2, OngoingForwards
<1>8. Leads(In(World, p5), s4, s5, steps)
  <2>1. \A w \in World : In(World, p5)[w] = IF w \in World THEN When(TRUE, FlattenSeq([k \in 1 .. job.micros |-> Backward(w, DrainOrder(w, job.micros)[k])])) ELSE <<>>
    BY <1>1 DEF In
  <2>2. \A w \in World : In(World, p5)[w] = FlattenSeq([k \in 1 .. job.micros |-> Backward(w, DrainOrder(w, job.micros)[k])])
    BY <2>1 DEF When
  <2>3. "gradAll" \notin {} \cup {"counted"}
    OBVIOUS
  <2> QED BY <1>0, <1>3, <2>2, <2>3, OngoingBackwards
<1>9. Leads(In(World, p6), s5, s6, steps)
  <2>1. \A w \in World : In(World, p6)[w] = IF w \in World THEN When(Final(w) /\ TRUE, Data(w, "loss")) ELSE <<>>
    BY <1>1 DEF In
  <2>2. \A w \in World : In(World, p6)[w] = IF Final(w) \/ "heard" \in {} \cup {"counted"} THEN Data(w, "loss") ELSE <<>>
    BY <2>1 DEF When
  <2>3. "lossAll" \notin {} \cup {"counted"}
    OBVIOUS
  <2> QED BY <1>0, <1>3, <2>2, <2>3, OngoingLoss
<1>10. Leads(In(World, p7), s6, s7, steps)
  <2>1. \A w \in World : In(World, p7)[w] = IF w \in World THEN Pipe(w, "report") ELSE <<>>
    BY <1>1 DEF In
  <2> QED BY <1>0, <1>3, <2>1, OngoingReport
<1>11. Leads(In(World, p8), s7, s7, steps)
  <2>1. \A w \in World : In(World, p8)[w] = IF w \in World THEN When(~TRUE, Pipe(w, "logits")) ELSE <<>>
    BY <1>1 DEF In
  <2>2. \A w \in World : In(World, p8)[w] = <<>>
    BY <2>1 DEF When
  <2> QED BY <2>2, NothingLeads
<1>12. Leads(In(World, r2), s0, s0, steps)
  <2>1. \A w \in World : r2[w] = p1[w] \o p2[w]
    BY <1>0, <1>2
  <2> QED BY <1>4, <1>5, <2>1, LeadsThen
<1>13. Leads(In(World, r3), s0, s3, steps)
  <2>1. \A w \in World : r3[w] = r2[w] \o p3[w]
    BY <1>0, <1>2
  <2> QED BY <1>12, <1>6, <2>1, LeadsThen
<1>14. Leads(In(World, r4), s0, s4, steps)
  <2>1. \A w \in World : r4[w] = r3[w] \o p4[w]
    BY <1>0, <1>2
  <2> QED BY <1>13, <1>7, <2>1, LeadsThen
<1>15. Leads(In(World, r5), s0, s5, steps)
  <2>1. \A w \in World : r5[w] = r4[w] \o p5[w]
    BY <1>0, <1>2
  <2> QED BY <1>14, <1>8, <2>1, LeadsThen
<1>16. Leads(In(World, r6), s0, s6, steps)
  <2>1. \A w \in World : r6[w] = r5[w] \o p6[w]
    BY <1>0, <1>2
  <2> QED BY <1>15, <1>9, <2>1, LeadsThen
<1>17. Leads(In(World, r7), s0, s7, steps)
  <2>1. \A w \in World : r7[w] = r6[w] \o p7[w]
    BY <1>0, <1>2
  <2> QED BY <1>16, <1>10, <2>1, LeadsThen
<1>18. Leads(In(World, r8), s0, s7, steps)
  <2>1. \A w \in World : r8[w] = r7[w] \o p8[w]
    BY <1>0, <1>2
  <2> QED BY <1>17, <1>11, <2>1, LeadsThen
<1>19. ASSUME NEW w \in World PROVE r8[w] = QABatch(w, job.micros, TRUE)
  <2>1. r8[w] = ((((((p1[w] \o p2[w]) \o p3[w]) \o p4[w]) \o p5[w]) \o p6[w]) \o p7[w]) \o p8[w]
    <3>2. r2[w] = p1[w] \o p2[w]
      BY <1>2, Zenon
    <3>3. r3[w] = (p1[w] \o p2[w]) \o p3[w]
      BY <1>2, <3>2, Zenon
    <3>4. r4[w] = ((p1[w] \o p2[w]) \o p3[w]) \o p4[w]
      BY <1>2, <3>3, Zenon
    <3>5. r5[w] = (((p1[w] \o p2[w]) \o p3[w]) \o p4[w]) \o p5[w]
      BY <1>2, <3>4, Zenon
    <3>6. r6[w] = ((((p1[w] \o p2[w]) \o p3[w]) \o p4[w]) \o p5[w]) \o p6[w]
      BY <1>2, <3>5, Zenon
    <3>7. r7[w] = (((((p1[w] \o p2[w]) \o p3[w]) \o p4[w]) \o p5[w]) \o p6[w]) \o p7[w]
      BY <1>2, <3>6, Zenon
    <3>8. r8[w] = ((((((p1[w] \o p2[w]) \o p3[w]) \o p4[w]) \o p5[w]) \o p6[w]) \o p7[w]) \o p8[w]
      BY <1>2, <3>7, Zenon
    <3> QED BY <3>8
  <2>2. QABatch(w, job.micros, TRUE) = ((((((p1[w] \o p2[w]) \o p3[w]) \o p4[w]) \o p5[w]) \o p6[w]) \o p7[w]) \o p8[w]
    BY <1>1, Zenon DEF QABatch
  <2> QED BY <2>1, <2>2
<1>20. \A w \in World : In(World, r8)[w] = [v \in World |-> QABatch(v, job.micros, TRUE)][w]
  BY <1>19 DEF In
<1>21. Leads([v \in World |-> QABatch(v, job.micros, TRUE)], s0, s7, steps)
  BY <1>18, <1>20, LeadsSame
<1>99. (({} \cup {"counted"}) \cup {"lossAll"}) \cup {"heard"} = {"counted", "lossAll", "heard"}
  OBVIOUS
<1> QED BY <1>3, <1>99, <1>21

\* A validation batch of the qa runner, by the replicas that have one.
LEMMA QAValidates ==
  ASSUME job \in Jobs, job.task = "qa", NEW steps \in Int, NEW V, Closed(V), NEW D, NEW b \in Int, NEW X, IntSets(X),
         NEW Y, \A w \in World : Y[w] = IF w = Leader(w) THEN X[w] \cup {Answer(w, b, steps)} ELSE X[w]
  PROVE  Leads(In(V, [v \in World |-> QABatch(v, 1, FALSE)]), Ongoing(V, D, b, X, {}, {}, {}),
               Ongoing(V, D, b, Y, 1 .. 1, {}, {"heard"}), steps)
<1> DEFINE p1 == [w \in World |-> Pipe(w, "header")]
           p2 == [w \in World |-> Pipe(w, "values")]
           p3 == [w \in World |-> When(FALSE, Data(w, "count"))]
           p4 == [w \in World |-> FlattenSeq([i \in 1 .. 1 |-> Forward(w, i)])]
           p5 == [w \in World |-> When(FALSE, FlattenSeq([k \in 1 .. 1 |-> Backward(w, DrainOrder(w, 1)[k])]))]
           p6 == [w \in World |-> When(Final(w) /\ FALSE, Data(w, "loss"))]
           p7 == [w \in World |-> Pipe(w, "report")]
           p8 == [w \in World |-> When(~FALSE, Pipe(w, "logits"))]
           r2 == [w \in World |-> p1[w] \o p2[w]]
           r3 == [w \in World |-> r2[w] \o p3[w]]
           r4 == [w \in World |-> r3[w] \o p4[w]]
           r5 == [w \in World |-> r4[w] \o p5[w]]
           r6 == [w \in World |-> r5[w] \o p6[w]]
           r7 == [w \in World |-> r6[w] \o p7[w]]
           r8 == [w \in World |-> r7[w] \o p8[w]]
           s0 == Ongoing(V, D, b, X, {}, {}, {})
           s4 == Ongoing(V, D, b, X, 1 .. 1, {}, {})
           s7 == Ongoing(V, D, b, X, 1 .. 1, {}, {} \cup {"heard"})
           s8 == Ongoing(V, D, b, Y, 1 .. 1, {}, {} \cup {"heard"})
<1>1. /\ \A w \in World : p1[w] = Pipe(w, "header")
      /\ \A w \in World : p2[w] = Pipe(w, "values")
      /\ \A w \in World : p3[w] = When(FALSE, Data(w, "count"))
      /\ \A w \in World : p4[w] = FlattenSeq([i \in 1 .. 1 |-> Forward(w, i)])
      /\ \A w \in World : p5[w] = When(FALSE, FlattenSeq([k \in 1 .. 1 |-> Backward(w, DrainOrder(w, 1)[k])]))
      /\ \A w \in World : p6[w] = When(Final(w) /\ FALSE, Data(w, "loss"))
      /\ \A w \in World : p7[w] = Pipe(w, "report")
      /\ \A w \in World : p8[w] = When(~FALSE, Pipe(w, "logits"))
  OBVIOUS
<1>2. /\ \A w \in World : r2[w] = p1[w] \o p2[w]
      /\ \A w \in World : r3[w] = r2[w] \o p3[w]
      /\ \A w \in World : r4[w] = r3[w] \o p4[w]
      /\ \A w \in World : r5[w] = r4[w] \o p5[w]
      /\ \A w \in World : r6[w] = r5[w] \o p6[w]
      /\ \A w \in World : r7[w] = r6[w] \o p7[w]
      /\ \A w \in World : r8[w] = r7[w] \o p8[w]
  OBVIOUS
<1>3. /\ s0 = Ongoing(V, D, b, X, {}, {}, {})
      /\ s4 = Ongoing(V, D, b, X, 1 .. 1, {}, {})
      /\ s7 = Ongoing(V, D, b, X, 1 .. 1, {}, {} \cup {"heard"})
      /\ s8 = Ongoing(V, D, b, Y, 1 .. 1, {}, {} \cup {"heard"})
  OBVIOUS
<1> HIDE DEF p1, p2, p3, p4, p5, p6, p7, p8, r2, r3, r4, r5, r6, r7, r8, s0, s4, s7, s8
<1>0. /\ V \subseteq World /\ {} \in SUBSET Slots /\ 1 .. 1 \in SUBSET Slots /\ 1 \in 1 .. job.micros /\ 1 \in 1 .. 1
      /\ {} \cup {"heard"} = {"heard"}
  <2>1. 1 \in 1 .. job.micros
    BY JobSizes DEF Sizes
  <2>2. 1 .. 1 \subseteq 1 .. job.micros
    BY <2>1
  <2> QED BY <2>1, <2>2 DEF Closed, Slots
<1>4. Leads(In(V, p1), s0, s0, steps)
  <2>1. \A w \in World : In(V, p1)[w] = IF w \in V THEN Pipe(w, "header") ELSE <<>>
    BY <1>1 DEF In
  <2> QED BY <1>0, <2>1, PipeIsSilent
<1>5. Leads(In(V, p2), s0, s0, steps)
  <2>1. \A w \in World : In(V, p2)[w] = IF w \in V THEN Pipe(w, "values") ELSE <<>>
    BY <1>1 DEF In
  <2> QED BY <1>0, <2>1, PipeIsSilent
<1>6. Leads(In(V, p3), s0, s0, steps)
  <2>1. \A w \in World : In(V, p3)[w] = IF w \in V THEN When(FALSE, Data(w, "count")) ELSE <<>>
    BY <1>1 DEF In
  <2>2. \A w \in World : In(V, p3)[w] = <<>>
    BY <2>1 DEF When
  <2> QED BY <2>2, NothingLeads
<1>7. Leads(In(V, p4), s0, s4, steps)
  <2>1. \A w \in World : In(V, p4)[w] = IF w \in V THEN FlattenSeq([i \in 1 .. 1 |-> Forward(w, i)]) ELSE <<>>
    BY <1>1 DEF In
  <2>2. "heard" \notin {} /\ "lossAll" \notin {}
    OBVIOUS
  <2> QED BY <1>0, <1>3, <2>1, <2>2, OngoingForwards
<1>8. Leads(In(V, p5), s4, s4, steps)
  <2>1. \A w \in World : In(V, p5)[w] = IF w \in V THEN When(FALSE, FlattenSeq([k \in 1 .. 1 |-> Backward(w, DrainOrder(w, 1)[k])])) ELSE <<>>
    BY <1>1 DEF In
  <2>2. \A w \in World : In(V, p5)[w] = <<>>
    BY <2>1 DEF When
  <2> QED BY <2>2, NothingLeads
<1>9. Leads(In(V, p6), s4, s4, steps)
  <2>1. \A w \in World : In(V, p6)[w] = IF w \in V THEN When(Final(w) /\ FALSE, Data(w, "loss")) ELSE <<>>
    BY <1>1 DEF In
  <2>2. \A w \in World : In(V, p6)[w] = <<>>
    BY <2>1 DEF When
  <2> QED BY <2>2, NothingLeads
<1>10. Leads(In(V, p7), s4, s7, steps)
  <2>1. \A w \in World : In(V, p7)[w] = IF w \in V THEN Pipe(w, "report") ELSE <<>>
    BY <1>1 DEF In
  <2> QED BY <1>0, <1>3, <2>1, OngoingReport
<1>11. Leads(In(V, p8), s7, s8, steps)
  <2>1. \A w \in World : In(V, p8)[w] = IF w \in V THEN When(~FALSE, Pipe(w, "logits")) ELSE <<>>
    BY <1>1 DEF In
  <2>2. \A w \in World : In(V, p8)[w] = IF w \in V THEN Pipe(w, "logits") ELSE <<>>
    BY <2>1 DEF When
  <2> QED BY <1>0, <1>3, <2>2, OngoingLogits
<1>12. Leads(In(V, r2), s0, s0, steps)
  <2>1. \A w \in V : r2[w] = p1[w] \o p2[w]
    BY <1>0, <1>2
  <2> QED BY <1>4, <1>5, <2>1, LeadsThen
<1>13. Leads(In(V, r3), s0, s0, steps)
  <2>1. \A w \in V : r3[w] = r2[w] \o p3[w]
    BY <1>0, <1>2
  <2> QED BY <1>12, <1>6, <2>1, LeadsThen
<1>14. Leads(In(V, r4), s0, s4, steps)
  <2>1. \A w \in V : r4[w] = r3[w] \o p4[w]
    BY <1>0, <1>2
  <2> QED BY <1>13, <1>7, <2>1, LeadsThen
<1>15. Leads(In(V, r5), s0, s4, steps)
  <2>1. \A w \in V : r5[w] = r4[w] \o p5[w]
    BY <1>0, <1>2
  <2> QED BY <1>14, <1>8, <2>1, LeadsThen
<1>16. Leads(In(V, r6), s0, s4, steps)
  <2>1. \A w \in V : r6[w] = r5[w] \o p6[w]
    BY <1>0, <1>2
  <2> QED BY <1>15, <1>9, <2>1, LeadsThen
<1>17. Leads(In(V, r7), s0, s7, steps)
  <2>1. \A w \in V : r7[w] = r6[w] \o p7[w]
    BY <1>0, <1>2
  <2> QED BY <1>16, <1>10, <2>1, LeadsThen
<1>18. Leads(In(V, r8), s0, s8, steps)
  <2>1. \A w \in V : r8[w] = r7[w] \o p8[w]
    BY <1>0, <1>2
  <2> QED BY <1>17, <1>11, <2>1, LeadsThen
<1>19. ASSUME NEW w \in World PROVE r8[w] = QABatch(w, 1, FALSE)
  <2>1. r8[w] = ((((((p1[w] \o p2[w]) \o p3[w]) \o p4[w]) \o p5[w]) \o p6[w]) \o p7[w]) \o p8[w]
    <3>2. r2[w] = p1[w] \o p2[w]
      BY <1>2, Zenon
    <3>3. r3[w] = (p1[w] \o p2[w]) \o p3[w]
      BY <1>2, <3>2, Zenon
    <3>4. r4[w] = ((p1[w] \o p2[w]) \o p3[w]) \o p4[w]
      BY <1>2, <3>3, Zenon
    <3>5. r5[w] = (((p1[w] \o p2[w]) \o p3[w]) \o p4[w]) \o p5[w]
      BY <1>2, <3>4, Zenon
    <3>6. r6[w] = ((((p1[w] \o p2[w]) \o p3[w]) \o p4[w]) \o p5[w]) \o p6[w]
      BY <1>2, <3>5, Zenon
    <3>7. r7[w] = (((((p1[w] \o p2[w]) \o p3[w]) \o p4[w]) \o p5[w]) \o p6[w]) \o p7[w]
      BY <1>2, <3>6, Zenon
    <3>8. r8[w] = ((((((p1[w] \o p2[w]) \o p3[w]) \o p4[w]) \o p5[w]) \o p6[w]) \o p7[w]) \o p8[w]
      BY <1>2, <3>7, Zenon
    <3> QED BY <3>8
  <2>2. QABatch(w, 1, FALSE) = ((((((p1[w] \o p2[w]) \o p3[w]) \o p4[w]) \o p5[w]) \o p6[w]) \o p7[w]) \o p8[w]
    BY <1>1, Zenon DEF QABatch
  <2> QED BY <2>1, <2>2
<1>20. \A w \in World : In(V, r8)[w] = In(V, [v \in World |-> QABatch(v, 1, FALSE)])[w]
  BY <1>19 DEF In
<1>21. Leads(In(V, [v \in World |-> QABatch(v, 1, FALSE)]), s0, s8, steps)
  BY <1>18, <1>20, LeadsSame
<1> QED BY <1>0, <1>3, <1>21

LEMMA TokensSilent ==
  ASSUME job \in Jobs, NEW steps, NEW act, \A w \in World : act[w] = <<>> \/ act[w] = <<Alone("tokens", 0)>>, NEW E
  PROVE  Leads(act, E, E, steps)
<1>1. "tokens" \in TaskKinds \ ({"load", "loss", "backward", "update"} \cup Compared)
  BY DEF TaskKinds, Compared
<1>2. Silent(act)
  BY <1>1, AloneSilent
<1> QED BY <1>2, SilentLeads

\* Without coming back.
LEMMA ForwardAlone ==
  ASSUME job \in Jobs, NEW w \in World
  PROVE  FlattenSeq([i \in 1 .. job.micros |-> Forward(w, i) \o When(FALSE, Backward(w, i))])
           = FlattenSeq([i \in 1 .. job.micros |-> Forward(w, i)])
<1>1. ASSUME NEW i \in 1 .. job.micros PROVE Forward(w, i) \o When(FALSE, Backward(w, i)) = Forward(w, i)
  <2>0. i \in Int
    BY JobSizes DEF Sizes
  <2>1. Forward(w, i) \in Seq(EarlyCalls)
    BY <2>0, MicroCalls
  <2>2. When(FALSE, Backward(w, i)) = <<>>
    BY DEF When
  <2> DEFINE a == Forward(w, i)
  <2>3. a \o <<>> = a
    <3> HIDE DEF a
    <3> QED BY <2>1 DEF a
  <2> QED BY <2>2, <2>3
<1>2. [i \in 1 .. job.micros |-> Forward(w, i) \o When(FALSE, Backward(w, i))] = [i \in 1 .. job.micros |-> Forward(w, i)]
  BY <1>1
<1> QED BY <1>2

\* A training batch of the mt5 runner.
LEMMA MT5Trains ==
  ASSUME job \in Jobs, NEW steps, NEW D, NEW b \in Int, NEW X, IntSets(X)
  PROVE  Leads([v \in World |-> MT5Batch(v, job.micros, TRUE)], Ongoing(World, D, b, X, {}, {}, {}),
               Ongoing(World, D, b, X, Slots, Slots, {"counted", "lossAll", "heard"}), steps)
<1> DEFINE p1 == [w \in World |-> Pipe(w, "header")]
           p2 == [w \in World |-> <<Alone("tokens", 0)>>]
           p3 == [w \in World |-> Data(w, "count")]
           p4 == [w \in World |-> Pipe(w, "mask")]
           p5 == [w \in World |-> FlattenSeq([i \in 1 .. job.micros |-> Forward(w, i) \o When(TRUE, Backward(w, i))])]
           p6 == [w \in World |-> Pipe(w, "report")]
           p7 == [w \in World |-> Data(w, "loss")]
           r2 == [w \in World |-> p1[w] \o p2[w]]
           r3 == [w \in World |-> r2[w] \o p3[w]]
           r4 == [w \in World |-> r3[w] \o p4[w]]
           r5 == [w \in World |-> r4[w] \o p5[w]]
           r6 == [w \in World |-> r5[w] \o p6[w]]
           r7 == [w \in World |-> r6[w] \o p7[w]]
           s0 == Ongoing(World, D, b, X, {}, {}, {})
           s3 == Ongoing(World, D, b, X, {}, {}, {} \cup {"counted"})
           s5 == Ongoing(World, D, b, X, Slots, Slots, {} \cup {"counted"})
           s6 == Ongoing(World, D, b, X, Slots, Slots, ({} \cup {"counted"}) \cup {"heard"})
           s7 == Ongoing(World, D, b, X, Slots, Slots, (({} \cup {"counted"}) \cup {"heard"}) \cup {"lossAll"})
<1>1. /\ \A w \in World : p1[w] = Pipe(w, "header")
      /\ \A w \in World : p2[w] = <<Alone("tokens", 0)>>
      /\ \A w \in World : p3[w] = Data(w, "count")
      /\ \A w \in World : p4[w] = Pipe(w, "mask")
      /\ \A w \in World : p5[w] = FlattenSeq([i \in 1 .. job.micros |-> Forward(w, i) \o When(TRUE, Backward(w, i))])
      /\ \A w \in World : p6[w] = Pipe(w, "report")
      /\ \A w \in World : p7[w] = Data(w, "loss")
  OBVIOUS
<1>2. /\ \A w \in World : r2[w] = p1[w] \o p2[w]
      /\ \A w \in World : r3[w] = r2[w] \o p3[w]
      /\ \A w \in World : r4[w] = r3[w] \o p4[w]
      /\ \A w \in World : r5[w] = r4[w] \o p5[w]
      /\ \A w \in World : r6[w] = r5[w] \o p6[w]
      /\ \A w \in World : r7[w] = r6[w] \o p7[w]
  OBVIOUS
<1>3. /\ s0 = Ongoing(World, D, b, X, {}, {}, {})
      /\ s3 = Ongoing(World, D, b, X, {}, {}, {} \cup {"counted"})
      /\ s5 = Ongoing(World, D, b, X, Slots, Slots, {} \cup {"counted"})
      /\ s6 = Ongoing(World, D, b, X, Slots, Slots, ({} \cup {"counted"}) \cup {"heard"})
      /\ s7 = Ongoing(World, D, b, X, Slots, Slots, (({} \cup {"counted"}) \cup {"heard"}) \cup {"lossAll"})
  OBVIOUS
<1> HIDE DEF p1, p2, p3, p4, p5, p6, p7, r2, r3, r4, r5, r6, r7, s0, s3, s5, s6, s7
<1>0. Closed(World) /\ World \subseteq World /\ {} \in SUBSET Slots /\ Slots \in SUBSET Slots
      /\ 1 .. job.micros = Slots /\ job.micros \in 1 .. job.micros
  <2>1. job.micros \in 1 .. job.micros
    BY JobSizes DEF Sizes
  <2> QED BY <2>1, Groups DEF Closed, Slots
<1>4. Leads(In(World, p1), s0, s0, steps)
  <2>1. \A w \in World : In(World, p1)[w] = IF w \in World THEN Pipe(w, "header") ELSE <<>>
    BY <1>1 DEF In
  <2> QED BY <1>0, <2>1, PipeIsSilent
<1>5. Leads(In(World, p2), s0, s0, steps)
  <2>1. \A w \in World : In(World, p2)[w] = IF w \in World THEN <<Alone("tokens", 0)>> ELSE <<>>
    BY <1>1 DEF In
  <2>2. \A w \in World : In(World, p2)[w] = <<>> \/ In(World, p2)[w] = <<Alone("tokens", 0)>>
    BY <2>1
  <2> QED BY <2>2, TokensSilent
<1>6. Leads(In(World, p3), s0, s3, steps)
  <2>1. \A w \in World : In(World, p3)[w] = IF w \in World THEN Data(w, "count") ELSE <<>>
    BY <1>1 DEF In
  <2>2. \A w \in World : In(World, p3)[w] = Data(w, "count")
    BY <2>1 DEF When
  <2>3. "counted" \notin {}
    OBVIOUS
  <2> QED BY <1>0, <1>3, <2>2, <2>3, OngoingCount
<1>7. Leads(In(World, p4), s3, s3, steps)
  <2>1. \A w \in World : In(World, p4)[w] = IF w \in World THEN Pipe(w, "mask") ELSE <<>>
    BY <1>1 DEF In
  <2> QED BY <1>0, <2>1, PipeIsSilent
<1>8. Leads(In(World, p5), s3, s5, steps)
  <2>1. \A w \in World : In(World, p5)[w] = IF w \in World THEN FlattenSeq([i \in 1 .. job.micros |-> Forward(w, i) \o When(TRUE, Backward(w, i))]) ELSE <<>>
    BY <1>1 DEF In
  <2>2. "gradAll" \notin {} \cup {"counted"} /\ "heard" \notin {} \cup {"counted"} /\ "lossAll" \notin {} \cup {"counted"}
    OBVIOUS
  <2>3. \A w \in World : In(World, p5)[w] = FlattenSeq([i \in 1 .. job.micros |-> Forward(w, i) \o When(TRUE, Backward(w, i))])
    BY <2>1
  <2> QED BY <1>0, <1>3, <2>3, <2>2, OngoingBoth
<1>9. Leads(In(World, p6), s5, s6, steps)
  <2>1. \A w \in World : In(World, p6)[w] = IF w \in World THEN Pipe(w, "report") ELSE <<>>
    BY <1>1 DEF In
  <2> QED BY <1>0, <1>3, <2>1, OngoingReport
<1>10. Leads(In(World, p7), s6, s7, steps)
  <2>1. \A w \in World : In(World, p7)[w] = IF w \in World THEN Data(w, "loss") ELSE <<>>
    BY <1>1 DEF In
  <2>2. \A w \in World : In(World, p7)[w] = IF Final(w) \/ "heard" \in ({} \cup {"counted"}) \cup {"heard"} THEN Data(w, "loss") ELSE <<>>
    BY <2>1 DEF When
  <2>3. "lossAll" \notin ({} \cup {"counted"}) \cup {"heard"}
    OBVIOUS
  <2> QED BY <1>0, <1>3, <2>2, <2>3, OngoingLoss
<1>11. Leads(In(World, r2), s0, s0, steps)
  <2>1. \A w \in World : r2[w] = p1[w] \o p2[w]
    BY <1>0, <1>2
  <2> QED BY <1>4, <1>5, <2>1, LeadsThen
<1>12. Leads(In(World, r3), s0, s3, steps)
  <2>1. \A w \in World : r3[w] = r2[w] \o p3[w]
    BY <1>0, <1>2
  <2> QED BY <1>11, <1>6, <2>1, LeadsThen
<1>13. Leads(In(World, r4), s0, s3, steps)
  <2>1. \A w \in World : r4[w] = r3[w] \o p4[w]
    BY <1>0, <1>2
  <2> QED BY <1>12, <1>7, <2>1, LeadsThen
<1>14. Leads(In(World, r5), s0, s5, steps)
  <2>1. \A w \in World : r5[w] = r4[w] \o p5[w]
    BY <1>0, <1>2
  <2> QED BY <1>13, <1>8, <2>1, LeadsThen
<1>15. Leads(In(World, r6), s0, s6, steps)
  <2>1. \A w \in World : r6[w] = r5[w] \o p6[w]
    BY <1>0, <1>2
  <2> QED BY <1>14, <1>9, <2>1, LeadsThen
<1>16. Leads(In(World, r7), s0, s7, steps)
  <2>1. \A w \in World : r7[w] = r6[w] \o p7[w]
    BY <1>0, <1>2
  <2> QED BY <1>15, <1>10, <2>1, LeadsThen
<1>17. ASSUME NEW w \in World PROVE r7[w] = MT5Batch(w, job.micros, TRUE)
  <2>1. r7[w] = (((((p1[w] \o p2[w]) \o p3[w]) \o p4[w]) \o p5[w]) \o p6[w]) \o p7[w]
    <3>2. r2[w] = p1[w] \o p2[w]
      BY <1>2, Zenon
    <3>3. r3[w] = (p1[w] \o p2[w]) \o p3[w]
      BY <1>2, <3>2, Zenon
    <3>4. r4[w] = ((p1[w] \o p2[w]) \o p3[w]) \o p4[w]
      BY <1>2, <3>3, Zenon
    <3>5. r5[w] = (((p1[w] \o p2[w]) \o p3[w]) \o p4[w]) \o p5[w]
      BY <1>2, <3>4, Zenon
    <3>6. r6[w] = ((((p1[w] \o p2[w]) \o p3[w]) \o p4[w]) \o p5[w]) \o p6[w]
      BY <1>2, <3>5, Zenon
    <3>7. r7[w] = (((((p1[w] \o p2[w]) \o p3[w]) \o p4[w]) \o p5[w]) \o p6[w]) \o p7[w]
      BY <1>2, <3>6, Zenon
    <3> QED BY <3>7
  <2>2. MT5Batch(w, job.micros, TRUE) = (((((p1[w] \o p2[w]) \o p3[w]) \o p4[w]) \o p5[w]) \o p6[w]) \o p7[w]
    BY <1>1, Zenon DEF MT5Batch
  <2> QED BY <2>1, <2>2
<1>18. \A w \in World : In(World, r7)[w] = [v \in World |-> MT5Batch(v, job.micros, TRUE)][w]
  BY <1>17 DEF In
<1>19. Leads([v \in World |-> MT5Batch(v, job.micros, TRUE)], s0, s7, steps)
  BY <1>16, <1>18, LeadsSame
<1>99. (({} \cup {"counted"}) \cup {"heard"}) \cup {"lossAll"} = {"counted", "lossAll", "heard"}
  OBVIOUS
<1> QED BY <1>3, <1>99, <1>19

\* A validation batch of the mt5 runner.
LEMMA MT5Validates ==
  ASSUME job \in Jobs, NEW steps, NEW D, NEW b \in Int, NEW X, IntSets(X)
  PROVE  Leads([v \in World |-> MT5Batch(v, job.micros, FALSE)], Ongoing(World, D, b, X, {}, {}, {}),
               Ongoing(World, D, b, X, Slots, {}, {"counted", "lossAll", "heard"}), steps)
<1> DEFINE p1 == [w \in World |-> Pipe(w, "header")]
           p2 == [w \in World |-> <<Alone("tokens", 0)>>]
           p3 == [w \in World |-> Data(w, "count")]
           p4 == [w \in World |-> Pipe(w, "mask")]
           p5 == [w \in World |-> FlattenSeq([i \in 1 .. job.micros |-> Forward(w, i) \o When(FALSE, Backward(w, i))])]
           p6 == [w \in World |-> Pipe(w, "report")]
           p7 == [w \in World |-> Data(w, "loss")]
           r2 == [w \in World |-> p1[w] \o p2[w]]
           r3 == [w \in World |-> r2[w] \o p3[w]]
           r4 == [w \in World |-> r3[w] \o p4[w]]
           r5 == [w \in World |-> r4[w] \o p5[w]]
           r6 == [w \in World |-> r5[w] \o p6[w]]
           r7 == [w \in World |-> r6[w] \o p7[w]]
           s0 == Ongoing(World, D, b, X, {}, {}, {})
           s3 == Ongoing(World, D, b, X, {}, {}, {} \cup {"counted"})
           s5 == Ongoing(World, D, b, X, Slots, {}, {} \cup {"counted"})
           s6 == Ongoing(World, D, b, X, Slots, {}, ({} \cup {"counted"}) \cup {"heard"})
           s7 == Ongoing(World, D, b, X, Slots, {}, (({} \cup {"counted"}) \cup {"heard"}) \cup {"lossAll"})
<1>1. /\ \A w \in World : p1[w] = Pipe(w, "header")
      /\ \A w \in World : p2[w] = <<Alone("tokens", 0)>>
      /\ \A w \in World : p3[w] = Data(w, "count")
      /\ \A w \in World : p4[w] = Pipe(w, "mask")
      /\ \A w \in World : p5[w] = FlattenSeq([i \in 1 .. job.micros |-> Forward(w, i) \o When(FALSE, Backward(w, i))])
      /\ \A w \in World : p6[w] = Pipe(w, "report")
      /\ \A w \in World : p7[w] = Data(w, "loss")
  OBVIOUS
<1>2. /\ \A w \in World : r2[w] = p1[w] \o p2[w]
      /\ \A w \in World : r3[w] = r2[w] \o p3[w]
      /\ \A w \in World : r4[w] = r3[w] \o p4[w]
      /\ \A w \in World : r5[w] = r4[w] \o p5[w]
      /\ \A w \in World : r6[w] = r5[w] \o p6[w]
      /\ \A w \in World : r7[w] = r6[w] \o p7[w]
  OBVIOUS
<1>3. /\ s0 = Ongoing(World, D, b, X, {}, {}, {})
      /\ s3 = Ongoing(World, D, b, X, {}, {}, {} \cup {"counted"})
      /\ s5 = Ongoing(World, D, b, X, Slots, {}, {} \cup {"counted"})
      /\ s6 = Ongoing(World, D, b, X, Slots, {}, ({} \cup {"counted"}) \cup {"heard"})
      /\ s7 = Ongoing(World, D, b, X, Slots, {}, (({} \cup {"counted"}) \cup {"heard"}) \cup {"lossAll"})
  OBVIOUS
<1> HIDE DEF p1, p2, p3, p4, p5, p6, p7, r2, r3, r4, r5, r6, r7, s0, s3, s5, s6, s7
<1>0. Closed(World) /\ World \subseteq World /\ {} \in SUBSET Slots /\ Slots \in SUBSET Slots
      /\ 1 .. job.micros = Slots /\ job.micros \in 1 .. job.micros
  <2>1. job.micros \in 1 .. job.micros
    BY JobSizes DEF Sizes
  <2> QED BY <2>1, Groups DEF Closed, Slots
<1>4. Leads(In(World, p1), s0, s0, steps)
  <2>1. \A w \in World : In(World, p1)[w] = IF w \in World THEN Pipe(w, "header") ELSE <<>>
    BY <1>1 DEF In
  <2> QED BY <1>0, <2>1, PipeIsSilent
<1>5. Leads(In(World, p2), s0, s0, steps)
  <2>1. \A w \in World : In(World, p2)[w] = IF w \in World THEN <<Alone("tokens", 0)>> ELSE <<>>
    BY <1>1 DEF In
  <2>2. \A w \in World : In(World, p2)[w] = <<>> \/ In(World, p2)[w] = <<Alone("tokens", 0)>>
    BY <2>1
  <2> QED BY <2>2, TokensSilent
<1>6. Leads(In(World, p3), s0, s3, steps)
  <2>1. \A w \in World : In(World, p3)[w] = IF w \in World THEN Data(w, "count") ELSE <<>>
    BY <1>1 DEF In
  <2>2. \A w \in World : In(World, p3)[w] = Data(w, "count")
    BY <2>1 DEF When
  <2>3. "counted" \notin {}
    OBVIOUS
  <2> QED BY <1>0, <1>3, <2>2, <2>3, OngoingCount
<1>7. Leads(In(World, p4), s3, s3, steps)
  <2>1. \A w \in World : In(World, p4)[w] = IF w \in World THEN Pipe(w, "mask") ELSE <<>>
    BY <1>1 DEF In
  <2> QED BY <1>0, <2>1, PipeIsSilent
<1>8. Leads(In(World, p5), s3, s5, steps)
  <2>1. \A w \in World : In(World, p5)[w] = IF w \in World THEN FlattenSeq([i \in 1 .. job.micros |-> Forward(w, i) \o When(FALSE, Backward(w, i))]) ELSE <<>>
    BY <1>1 DEF In
  <2>2. \A w \in World : In(World, p5)[w] = IF w \in World THEN FlattenSeq([i \in 1 .. job.micros |-> Forward(w, i)]) ELSE <<>>
    BY <2>1, ForwardAlone
  <2>3. "heard" \notin {} \cup {"counted"} /\ "lossAll" \notin {} \cup {"counted"}
    OBVIOUS
  <2> QED BY <1>0, <1>3, <2>2, <2>3, OngoingForwards
<1>9. Leads(In(World, p6), s5, s6, steps)
  <2>1. \A w \in World : In(World, p6)[w] = IF w \in World THEN Pipe(w, "report") ELSE <<>>
    BY <1>1 DEF In
  <2> QED BY <1>0, <1>3, <2>1, OngoingReport
<1>10. Leads(In(World, p7), s6, s7, steps)
  <2>1. \A w \in World : In(World, p7)[w] = IF w \in World THEN Data(w, "loss") ELSE <<>>
    BY <1>1 DEF In
  <2>2. \A w \in World : In(World, p7)[w] = IF Final(w) \/ "heard" \in ({} \cup {"counted"}) \cup {"heard"} THEN Data(w, "loss") ELSE <<>>
    BY <2>1 DEF When
  <2>3. "lossAll" \notin ({} \cup {"counted"}) \cup {"heard"}
    OBVIOUS
  <2> QED BY <1>0, <1>3, <2>2, <2>3, OngoingLoss
<1>11. Leads(In(World, r2), s0, s0, steps)
  <2>1. \A w \in World : r2[w] = p1[w] \o p2[w]
    BY <1>0, <1>2
  <2> QED BY <1>4, <1>5, <2>1, LeadsThen
<1>12. Leads(In(World, r3), s0, s3, steps)
  <2>1. \A w \in World : r3[w] = r2[w] \o p3[w]
    BY <1>0, <1>2
  <2> QED BY <1>11, <1>6, <2>1, LeadsThen
<1>13. Leads(In(World, r4), s0, s3, steps)
  <2>1. \A w \in World : r4[w] = r3[w] \o p4[w]
    BY <1>0, <1>2
  <2> QED BY <1>12, <1>7, <2>1, LeadsThen
<1>14. Leads(In(World, r5), s0, s5, steps)
  <2>1. \A w \in World : r5[w] = r4[w] \o p5[w]
    BY <1>0, <1>2
  <2> QED BY <1>13, <1>8, <2>1, LeadsThen
<1>15. Leads(In(World, r6), s0, s6, steps)
  <2>1. \A w \in World : r6[w] = r5[w] \o p6[w]
    BY <1>0, <1>2
  <2> QED BY <1>14, <1>9, <2>1, LeadsThen
<1>16. Leads(In(World, r7), s0, s7, steps)
  <2>1. \A w \in World : r7[w] = r6[w] \o p7[w]
    BY <1>0, <1>2
  <2> QED BY <1>15, <1>10, <2>1, LeadsThen
<1>17. ASSUME NEW w \in World PROVE r7[w] = MT5Batch(w, job.micros, FALSE)
  <2>1. r7[w] = (((((p1[w] \o p2[w]) \o p3[w]) \o p4[w]) \o p5[w]) \o p6[w]) \o p7[w]
    <3>2. r2[w] = p1[w] \o p2[w]
      BY <1>2, Zenon
    <3>3. r3[w] = (p1[w] \o p2[w]) \o p3[w]
      BY <1>2, <3>2, Zenon
    <3>4. r4[w] = ((p1[w] \o p2[w]) \o p3[w]) \o p4[w]
      BY <1>2, <3>3, Zenon
    <3>5. r5[w] = (((p1[w] \o p2[w]) \o p3[w]) \o p4[w]) \o p5[w]
      BY <1>2, <3>4, Zenon
    <3>6. r6[w] = ((((p1[w] \o p2[w]) \o p3[w]) \o p4[w]) \o p5[w]) \o p6[w]
      BY <1>2, <3>5, Zenon
    <3>7. r7[w] = (((((p1[w] \o p2[w]) \o p3[w]) \o p4[w]) \o p5[w]) \o p6[w]) \o p7[w]
      BY <1>2, <3>6, Zenon
    <3> QED BY <3>7
  <2>2. MT5Batch(w, job.micros, FALSE) = (((((p1[w] \o p2[w]) \o p3[w]) \o p4[w]) \o p5[w]) \o p6[w]) \o p7[w]
    BY <1>1, Zenon DEF MT5Batch
  <2> QED BY <2>1, <2>2
<1>18. \A w \in World : In(World, r7)[w] = [v \in World |-> MT5Batch(v, job.micros, FALSE)][w]
  BY <1>17 DEF In
<1>19. Leads([v \in World |-> MT5Batch(v, job.micros, FALSE)], s0, s7, steps)
  BY <1>16, <1>18, LeadsSame
<1>99. (({} \cup {"counted"}) \cup {"heard"}) \cup {"lossAll"} = {"counted", "lossAll", "heard"}
  OBVIOUS
<1> QED BY <1>3, <1>99, <1>19

\* Between the batches only the number of the batch and the answers are known.
Between(b, x) ==
  [batch |-> b, answers |-> x, loaded |-> FALSE, got |-> {}, fwd |-> {}, back |-> {}, bwd |-> {}, counted |-> FALSE,
   lossAll |-> FALSE, heard |-> FALSE, gradAll |-> FALSE, normed |-> FALSE]
Resting(B, X) == [w \in World |-> Between(B[w], X[w])]

LEMMA BetweenFields ==
  ASSUME NEW b, NEW x
  PROVE  Between(b, x).batch = b /\ Between(b, x).answers = x /\ ~Between(b, x).loaded
BY DEF Between

LEMMA RestLeads ==
  ASSUME NEW steps, NEW P, NEW E, NEW F, Leads(P, E, F, steps), NEW B, NEW X,
         \A w \in World : F[w].batch = B[w] /\ F[w].answers = X[w]
  PROVE  Leads(P, E, Resting(B, X), steps)
<1>1. ASSUME NEW N, Fits(N, F), NEW w \in World PROVE Known(w, N[w], Resting(B, X)[w])
  <2> DEFINE n == N[w]
             e == F[w]
             f == Between(B[w], X[w])
  <2>1. Known(w, n, e)
    BY <1>1 DEF Fits
  <2>2. e.batch = B[w] /\ e.answers = X[w] /\ f.batch = B[w] /\ f.answers = X[w] /\ ~f.loaded
    BY BetweenFields
  <2>3. Resting(B, X)[w] = f
    BY DEF Resting
  <2> HIDE DEF n, e, f
  <2>4. Known(w, n, f)
    BY <2>1, <2>2 DEF Known
  <2> QED BY <2>3, <2>4 DEF n
<1>2. \A N : Fits(N, F) => Fits(N, Resting(B, X))
  BY <1>1 DEF Fits
<1> QED BY <1>2, LeadsToLess

LEMMA ProgressBatch ==
  ASSUME NEW V, NEW b, NEW X, NEW got, NEW back, NEW done, NEW E, AreProgress(E, V, b, X, got, back, done)
  PROVE  \A w \in V : E[w].batch = b /\ E[w].answers = X[w]
<1> TAKE w \in V
<1> DEFINE e == E[w]
           x == X[w]
<1>1. IsProgress(e, b, x, got, back, done)
  BY DEF AreProgress
<1> HIDE DEF e, x
<1>2. e.batch = b /\ e.answers = x
  BY <1>1 DEF IsProgress
<1> QED BY <1>2 DEF e, x

\* A training batch of either runner.
LEMMA BatchTrains ==
  ASSUME job \in Jobs, NEW steps, NEW E, NEW b \in Int, NEW X, IntSets(X),
         \A w \in World : E[w].batch + 1 = b /\ E[w].answers = X[w]
  PROVE  Leads([w \in World |-> Batch(w, TRUE)], E, Ongoing(World, E, b, X, Slots, Slots, {"counted", "lossAll", "heard"}), steps)
<1> DEFINE p == [w \in World |-> <<Alone("load", 0)>>]
           q == [w \in World |-> IF job.task = "qa" THEN QABatch(w, job.micros, TRUE) ELSE MT5Batch(w, job.micros, TRUE)]
           qa == [v \in World |-> QABatch(v, job.micros, TRUE)]
           mt == [v \in World |-> MT5Batch(v, job.micros, TRUE)]
           r == [w \in World |-> Batch(w, TRUE)]
           F == Ongoing(World, E, b, X, {}, {}, {})
           G == Ongoing(World, E, b, X, Slots, Slots, {"counted", "lossAll", "heard"})
<1>1. Leads(p, E, F, steps)
  <2>1. \A w \in World : p[w] = IF w \in World THEN <<Alone("load", 0)>> ELSE <<>>
    OBVIOUS
  <2>2. Closed(World)
    BY Groups DEF Closed
  <2>3. F = Ongoing(World, E, b, X, {}, {}, {})
    OBVIOUS
  <2> HIDE DEF p, F
  <2> QED BY <2>1, <2>2, <2>3, OngoingLoad
<1>2. Leads(q, F, G, steps)
  <2>1. Leads(qa, F, G, steps) /\ Leads(mt, F, G, steps)
    BY QATrains, MT5Trains
  <2>2. CASE job.task = "qa"
    <3>1. \A w \in World : qa[w] = q[w]
      BY <2>2
    <3> HIDE DEF qa, q, F, G
    <3> QED BY <2>1, <3>1, LeadsSame
  <2>3. CASE job.task # "qa"
    <3>1. \A w \in World : mt[w] = q[w]
      BY <2>3
    <3> HIDE DEF mt, q, F, G
    <3> QED BY <2>1, <3>1, LeadsSame
  <2> QED BY <2>2, <2>3
<1>3. \A w \in World : r[w] = p[w] \o q[w]
  BY DEF Batch
<1> HIDE DEF p, q, r, F, G
<1>4. Leads(r, E, G, steps)
  BY <1>1, <1>2, <1>3, LeadsOn DEF Joins
<1> QED BY <1>4 DEF r, G

\* A training step.
LEMMA StepTrains ==
  ASSUME job \in Jobs, NEW steps, NEW E, NEW b \in Int, NEW X, IntSets(X),
         \A w \in World : E[w].batch + 1 = b /\ E[w].answers = X[w]
  PROVE  Leads([w \in World |-> TrainingStep(w)], E, [w \in World |-> Between(b, X[w])], steps)
<1> DEFINE p1 == [w \in World |-> Batch(w, TRUE)]
           p2 == [w \in World |-> Data(w, "gradients")]
           p3 == [w \in World |-> Pipe(w, "norm")]
           p4 == [w \in World |-> <<Alone("update", 0)>>]
           p5 == [w \in World |-> When(job.task = "qa", All("collect") \o All("collect"))]
           c1 == [w \in World |-> When(job.task = "qa", All("collect"))]
           r2 == [w \in World |-> p1[w] \o p2[w]]
           r3 == [w \in World |-> r2[w] \o p3[w]]
           r4 == [w \in World |-> r3[w] \o p4[w]]
           r5 == [w \in World |-> r4[w] \o p5[w]]
           d1 == {"counted", "lossAll", "heard"}
           d2 == d1 \cup {"gradAll"}
           d3 == d2 \cup {"normed"}
           s1 == Ongoing(World, E, b, X, Slots, Slots, d1)
           s2 == Ongoing(World, E, b, X, Slots, Slots, d2)
           s3 == Ongoing(World, E, b, X, Slots, Slots, d3)
<1>0. World \subseteq World /\ Slots \in SUBSET Slots
  OBVIOUS
<1>1. Leads(p1, E, s1, steps)
  BY BatchTrains
<1>2. Leads(p2, s1, s2, steps)
  <2>1. "gradAll" \notin d1 /\ \A w \in World : p2[w] = Data(w, "gradients")
    OBVIOUS
  <2>2. s1 = Ongoing(World, E, b, X, Slots, Slots, d1) /\ s2 = Ongoing(World, E, b, X, Slots, Slots, d1 \cup {"gradAll"})
    OBVIOUS
  <2> HIDE DEF p2, s1, s2, d1
  <2> QED BY <1>0, <2>1, <2>2, OngoingSum
<1>3. Leads(p3, s2, s3, steps)
  <2>1. "gradAll" \in d2 /\ \A w \in World : p3[w] = Pipe(w, "norm")
    OBVIOUS
  <2>2. s2 = Ongoing(World, E, b, X, Slots, Slots, d2) /\ s3 = Ongoing(World, E, b, X, Slots, Slots, d2 \cup {"normed"})
    OBVIOUS
  <2> HIDE DEF p3, s3, s2, d2
  <2> QED BY <1>0, <2>1, <2>2, OngoingNorm
<1>4. Leads(p4, s3, s3, steps)
  <2>1. "lossAll" \in d3 /\ "heard" \in d3 /\ "gradAll" \in d3 /\ "normed" \in d3 /\ "counted" \in d3
    OBVIOUS
  <2>2. \A w \in World : p4[w] = <<Alone("update", 0)>>
    OBVIOUS
  <2>3. s3 = Ongoing(World, E, b, X, Slots, Slots, d3)
    OBVIOUS
  <2> HIDE DEF p4, s3, d3
  <2>4. AreProgress(s3, World, b, X, Slots, Slots, d3)
    BY <1>0, <2>3, OngoingGoesOn
  <2>5. ASSUME NEW w \in World PROVE s3[w].loaded /\ s3[w].lossAll /\ s3[w].heard /\ s3[w].gradAll /\ s3[w].normed /\ s3[w].counted
    <3> DEFINE e == s3[w]
               x == X[w]
    <3>1. IsProgress(e, b, x, Slots, Slots, d3)
      BY <2>4 DEF AreProgress
    <3> HIDE DEF e, x
    <3>2. e.loaded /\ e.lossAll /\ e.heard /\ e.gradAll /\ e.normed /\ e.counted
      BY <2>1, <3>1 DEF IsProgress
    <3> QED BY <3>2 DEF e
  <2> QED BY <2>2, <2>5, UpdateLeads
<1>5. Leads(p5, s3, s3, steps)
  <2>1. CASE job.task = "qa"
    <3>1. \A w \in World : c1[w] = All("collect") /\ p5[w] = c1[w] \o c1[w]
      BY <2>1 DEF When
    <3> HIDE DEF c1, p5, s3
    <3>2. "collect" \in CallKinds \ Joined
      BY DEF CallKinds, TaskKinds, Compared, Joined
    <3>3. Leads(c1, s3, s3, steps)
      <4>1. Silent(c1)
        BY <3>1, <3>2, AllSilent
      <4> QED BY <4>1, SilentLeads
    <3> QED BY <3>1, <3>3, LeadsOn DEF Joins
  <2>2. CASE job.task # "qa"
    <3>1. \A w \in World : p5[w] = <<>>
      BY <2>2 DEF When
    <3> HIDE DEF p5, s3
    <3> QED BY <3>1, NothingLeads
  <2> QED BY <2>1, <2>2
<1>6. /\ \A w \in World : r2[w] = p1[w] \o p2[w]
      /\ \A w \in World : r3[w] = r2[w] \o p3[w]
      /\ \A w \in World : r4[w] = r3[w] \o p4[w]
      /\ \A w \in World : r5[w] = r4[w] \o p5[w]
  OBVIOUS
<1>7. \A w \in World : r5[w] = TrainingStep(w)
  <2> TAKE w \in World
  <2>1. r5[w] = (((p1[w] \o p2[w]) \o p3[w]) \o p4[w]) \o p5[w]
    OBVIOUS
  <2>2. /\ p1[w] = Batch(w, TRUE) /\ p2[w] = Data(w, "gradients") /\ p3[w] = Pipe(w, "norm") /\ p4[w] = <<Alone("update", 0)>>
        /\ p5[w] = When(job.task = "qa", All("collect") \o All("collect"))
    OBVIOUS
  <2> HIDE DEF p1, p2, p3, p4, p5, r5
  <2> QED BY <2>1, <2>2, Zenon DEF TrainingStep
<1>8. s3 = Ongoing(World, E, b, X, Slots, Slots, d3)
  OBVIOUS
<1> HIDE DEF p1, p2, p3, p4, p5, r2, r3, r4, r5, s1, s2, s3, d1, d2, d3
<1>9. Leads(r2, E, s2, steps)
  BY <1>1, <1>2, <1>6, LeadsOn DEF Joins
<1>10. Leads(r3, E, s3, steps)
  BY <1>3, <1>9, <1>6, LeadsOn DEF Joins
<1>11. Leads(r4, E, s3, steps)
  BY <1>4, <1>10, <1>6, LeadsOn DEF Joins
<1>12. Leads(r5, E, s3, steps)
  BY <1>5, <1>11, <1>6, LeadsOn DEF Joins
<1>13. \A w \in World : s3[w].batch = b /\ s3[w].answers = X[w]
  <2>1. AreProgress(s3, World, b, X, Slots, Slots, d3)
    BY <1>0, <1>8, OngoingGoesOn
  <2> QED BY <2>1, ProgressBatch
<1> DEFINE B == [w \in World |-> b]
<1>14. Leads(r5, E, Resting(B, X), steps)
  <2>1. \A w \in World : B[w] = b
    OBVIOUS
  <2> HIDE DEF B
  <2>2. \A w \in World : s3[w].batch = B[w] /\ s3[w].answers = X[w]
    BY <1>13, <2>1
  <2> QED BY <1>12, <2>2, RestLeads
<1>15. Resting(B, X) = [w \in World |-> Between(b, X[w])]
  BY DEF Resting
<1>16. \A w \in World : r5[w] = [v \in World |-> TrainingStep(v)][w]
  BY <1>7
<1> QED BY <1>14, <1>15, <1>16, LeadsSame

\* Repeating once more.
LEMMA TimesGrow ==
  ASSUME NEW S, NEW n \in Nat, NEW p \in Seq(S)
  PROVE  FlattenSeq(Times(0, p)) = <<>> /\ FlattenSeq(Times(n + 1, p)) = FlattenSeq(Times(n, p)) \o p
<1> DEFINE g == [i \in 1 .. n + 1 |-> p]
<1>1. \A i \in 1 .. n + 1 : g[i] = p /\ g[i] \in Seq(S)
  OBVIOUS
<1>2. /\ [i \in 1 .. 0 |-> g[i]] = Times(0, p) /\ [i \in 1 .. n |-> g[i]] = Times(n, p)
      /\ [i \in 1 .. n + 1 |-> g[i]] = Times(n + 1, p)
  BY DEF Times
<1>3. n + 1 \in 1 .. n + 1
  OBVIOUS
<1> HIDE DEF g
<1>4. /\ FlattenSeq([i \in 1 .. 0 |-> g[i]]) = <<>>
      /\ FlattenSeq([i \in 1 .. n + 1 |-> g[i]]) = FlattenSeq([i \in 1 .. n |-> g[i]]) \o g[n + 1]
  BY <1>1, FlattenGrows
<1> QED BY <1>1, <1>2, <1>3, <1>4

LEMMA SameRounds ==
  ASSUME NEW steps, NEW n \in Nat, NEW p, \A w \in World : p[w] \in Seq(TaskCalls),
         NEW E, \A i \in 1 .. n : Leads(p, E[i - 1], E[i], steps),
         NEW P, \A w \in World : P[w] = FlattenSeq(Times(n, p[w]))
  PROVE  Leads(P, E[0], E[n], steps)
<1> DEFINE R == [k \in 0 .. n |-> [w \in World |-> FlattenSeq(Times(k, p[w]))]]
           B == [k \in 1 .. n |-> p]
<1>1. (\A k \in 0 .. n : \A w \in World : R[k][w] = FlattenSeq(Times(k, p[w]))) /\ \A k \in 1 .. n : B[k] = p
  OBVIOUS
<1> HIDE DEF R, B
<1>2. \A w \in World : R[0][w] = <<>>
  <2> TAKE w \in World
  <2>1. R[0][w] = FlattenSeq(Times(0, p[w]))
    <3>1. 0 \in 0 .. n
      OBVIOUS
    <3> QED BY <1>1, <3>1
  <2> QED BY <2>1, TimesGrow
<1>3. ASSUME NEW k \in 1 .. n PROVE Joins(R[k], R[k - 1], B[k])
  <2> SUFFICES ASSUME NEW w \in World PROVE R[k][w] = R[k - 1][w] \o p[w]
    BY <1>1 DEF Joins
  <2> DEFINE m == k - 1
  <2>1. m \in Nat /\ m \in 0 .. n /\ k \in 0 .. n /\ k = m + 1
    OBVIOUS
  <2> HIDE DEF m
  <2>2. R[k][w] = FlattenSeq(Times(m + 1, p[w])) /\ R[m][w] = FlattenSeq(Times(m, p[w]))
    BY <1>1, <2>1
  <2>3. p[w] \in Seq(TaskCalls)
    OBVIOUS
  <2>4. FlattenSeq(Times(m + 1, p[w])) = FlattenSeq(Times(m, p[w])) \o p[w]
    BY <2>1, <2>3, TimesGrow
  <2> QED BY <2>2, <2>4 DEF m
<1>4. \A k \in 1 .. n : Leads(B[k], E[k - 1], E[k], steps)
  BY <1>1
<1>5. Leads(R[n], E[0], E[n], steps)
  BY <1>2, <1>3, <1>4, LoopLeads
<1>6. \A w \in World : R[n][w] = P[w]
  <2>1. n \in 0 .. n
    OBVIOUS
  <2> QED BY <1>1, <2>1
<1> QED BY <1>5, <1>6, LeadsSame

\* All training steps.
LEMMA TrainingLeads ==
  ASSUME job \in Jobs, NEW steps, NEW n \in Nat, NEW X, IntSets(X),
         NEW P, \A w \in World : P[w] = FlattenSeq(Times(n, TrainingStep(w)))
  PROVE  Leads(P, [w \in World |-> Between(0, X[w])], [w \in World |-> Between(n, X[w])], steps)
<1> DEFINE E == [i \in 0 .. n |-> [w \in World |-> Between(i, X[w])]]
           p == [w \in World |-> TrainingStep(w)]
<1>1. ASSUME NEW i \in 1 .. n PROVE Leads(p, E[i - 1], E[i], steps)
  <2>1. i - 1 \in 0 .. n /\ i \in 0 .. n /\ i \in Int /\ (i - 1) + 1 = i
    OBVIOUS
  <2> DEFINE e == E[i - 1]
  <2>2. ASSUME NEW w \in World PROVE e[w].batch + 1 = i /\ e[w].answers = X[w]
    <3>1. e[w] = Between(i - 1, X[w])
      BY <2>1
    <3> HIDE DEF e
    <3>2. e[w].batch = i - 1 /\ e[w].answers = X[w]
      BY <3>1, BetweenFields
    <3> QED BY <2>1, <3>2
  <2>3. E[i] = [w \in World |-> Between(i, X[w])]
    BY <2>1
  <2> HIDE DEF e, E
  <2>4. Leads(p, e, E[i], steps)
    BY <2>1, <2>2, <2>3, StepTrains
  <2> QED BY <2>4 DEF e
<1>2. \A w \in World : p[w] \in Seq(TaskCalls) /\ P[w] = FlattenSeq(Times(n, p[w]))
  <2> TAKE w \in World
  <2>1. TrainingStep(w) \in Seq(TaskCalls)
    BY TrainingStepCalls, TaskCallSets
  <2> QED BY <2>1
<1>3. E[0] = [w \in World |-> Between(0, X[w])] /\ E[n] = [w \in World |-> Between(n, X[w])]
  <2>1. 0 \in 0 .. n /\ n \in 0 .. n
    OBVIOUS
  <2> QED BY <2>1
<1> HIDE DEF E, p
<1>4. Leads(P, E[0], E[n], steps)
  BY <1>1, <1>2, SameRounds
<1> QED BY <1>3, <1>4

\* A validation batch.
LEMMA MT5BatchValidates ==
  ASSUME job \in Jobs, job.task = "mt5", NEW steps, NEW E, NEW b \in Int, NEW X, IntSets(X),
         \A w \in World : E[w].batch + 1 = b /\ E[w].answers = X[w]
  PROVE  Leads([w \in World |-> Batch(w, FALSE)], E, [w \in World |-> Between(b, X[w])], steps)
<1> DEFINE p == [w \in World |-> <<Alone("load", 0)>>]
           q == [v \in World |-> MT5Batch(v, job.micros, FALSE)]
           r == [w \in World |-> Batch(w, FALSE)]
           d == {"counted", "lossAll", "heard"}
           F == Ongoing(World, E, b, X, {}, {}, {})
           G == Ongoing(World, E, b, X, Slots, {}, d)
<1>0. World \subseteq World /\ Slots \in SUBSET Slots /\ {} \in SUBSET Slots
  OBVIOUS
<1>1. Leads(p, E, F, steps)
  <2>1. \A w \in World : p[w] = IF w \in World THEN <<Alone("load", 0)>> ELSE <<>>
    OBVIOUS
  <2>2. Closed(World)
    BY Groups DEF Closed
  <2>3. F = Ongoing(World, E, b, X, {}, {}, {})
    OBVIOUS
  <2> HIDE DEF p, F
  <2> QED BY <2>1, <2>2, <2>3, OngoingLoad
<1>2. Leads(q, F, G, steps)
  BY MT5Validates
<1>3. \A w \in World : r[w] = p[w] \o q[w]
  BY DEF Batch
<1>4. G = Ongoing(World, E, b, X, Slots, {}, d)
  OBVIOUS
<1> HIDE DEF p, q, r, F, G, d
<1>5. Leads(r, E, G, steps)
  BY <1>1, <1>2, <1>3, LeadsOn DEF Joins
<1>6. \A w \in World : G[w].batch = b /\ G[w].answers = X[w]
  <2>1. AreProgress(G, World, b, X, Slots, {}, d)
    BY <1>0, <1>4, OngoingGoesOn
  <2> QED BY <2>1, ProgressBatch
<1> DEFINE B == [w \in World |-> b]
<1>7. Leads(r, E, Resting(B, X), steps)
  <2>1. \A w \in World : B[w] = b
    OBVIOUS
  <2> HIDE DEF B
  <2>2. \A w \in World : G[w].batch = B[w] /\ G[w].answers = X[w]
    BY <1>6, <2>1
  <2> QED BY <1>5, <2>2, RestLeads
<1>8. Resting(B, X) = [w \in World |-> Between(b, X[w])]
  BY DEF Resting
<1> QED BY <1>7, <1>8 DEF r

\* of the replicas that have one.
ValidationRound(V, E, b, X, B, Y, steps) ==
  /\ \A w \in V : E[w].batch + 1 = b
  /\ \A w \in World : E[w].answers = X[w]
  /\ \A w \in World : B[w] = IF w \in V THEN b ELSE E[w].batch
  /\ \A w \in World : Y[w] = IF w \in V /\ w = Leader(w) THEN X[w] \cup {Answer(w, b, steps)} ELSE X[w]

LEMMA QABatchValidates ==
  ASSUME job \in Jobs, job.task = "qa", NEW steps \in Int, NEW V, Closed(V), NEW E, NEW b \in Int, NEW X, IntSets(X),
         NEW B, NEW Y, ValidationRound(V, E, b, X, B, Y, steps)
  PROVE  Leads([w \in World |-> IF w \in V THEN Batch(w, FALSE) ELSE <<>>], E, Resting(B, Y), steps)
<1> USE DEF ValidationRound
<1> DEFINE p == [w \in World |-> <<Alone("load", 0)>>]
           q == [v \in World |-> QABatch(v, 1, FALSE)]
           r == [w \in World |-> Batch(w, FALSE)]
           Z == [w \in World |-> IF w = Leader(w) THEN X[w] \cup {Answer(w, b, steps)} ELSE X[w]]
           F == Ongoing(V, E, b, X, {}, {}, {})
           G == Ongoing(V, E, b, Z, 1 .. 1, {}, {"heard"})
<1>0. V \subseteq World /\ 1 .. 1 \in SUBSET Slots /\ {} \in SUBSET Slots
  <2>1. 1 \in 1 .. job.micros
    BY JobSizes DEF Sizes
  <2>2. 1 .. 1 \subseteq 1 .. job.micros
    BY <2>1
  <2> QED BY <2>2 DEF Closed, Slots
<1>1. Leads(In(V, p), E, F, steps)
  <2>1. \A w \in World : In(V, p)[w] = IF w \in V THEN <<Alone("load", 0)>> ELSE <<>>
    BY DEF In
  <2>2. \A w \in V : E[w].batch + 1 = b /\ E[w].answers = X[w]
    BY <1>0
  <2>3. F = Ongoing(V, E, b, X, {}, {}, {})
    OBVIOUS
  <2> HIDE DEF p, F
  <2> QED BY <2>1, <2>2, <2>3, OngoingLoad
<1>2. \A w \in World : Z[w] = IF w = Leader(w) THEN X[w] \cup {Answer(w, b, steps)} ELSE X[w]
  OBVIOUS
<1>3. Leads(In(V, q), F, G, steps)
  <2> HIDE DEF Z
  <2> QED BY <1>2, QAValidates
<1>4. \A w \in V : r[w] = p[w] \o q[w]
  BY <1>0 DEF Batch
<1>5. G = Ongoing(V, E, b, Z, 1 .. 1, {}, {"heard"}) /\ \A w \in World : r[w] = Batch(w, FALSE)
  OBVIOUS
<1> HIDE DEF p, q, r, F, G, Z
<1>6. Leads(In(V, r), E, G, steps)
  BY <1>1, <1>3, <1>4, LeadsThen
<1>7. IntSets(Z)
  <2> SUFFICES ASSUME NEW w \in World PROVE Z[w] \in SUBSET Int
    BY DEF IntSets
  <2>1. X[w] \in SUBSET Int /\ Answer(w, b, steps) \in Int
    BY AnswerIsInt DEF IntSets
  <2> QED BY <1>2, <2>1
<1>8. \A w \in World : G[w].batch = B[w] /\ G[w].answers = Y[w]
  <2>1. AreProgress(G, V, b, Z, 1 .. 1, {}, {"heard"}) /\ AllGoOn(G, V, E, b, Z, 1 .. 1, {}, {"heard"})
    BY <1>0, <1>5, <1>7, OngoingGoesOn
  <2>2. \A w \in V : G[w].batch = b /\ G[w].answers = Z[w]
    BY <2>1, ProgressBatch
  <2>3. \A w \in World : w \notin V => G[w] = E[w]
    BY <1>5, <2>1 DEF AllGoOn
  <2> TAKE w \in World
  <2>4. CASE w \in V
    BY <1>2, <2>2, <2>4
  <2>5. CASE w \notin V
    BY <2>3, <2>5
  <2> QED BY <2>4, <2>5
<1>9. Leads(In(V, r), E, Resting(B, Y), steps)
  BY <1>6, <1>8, RestLeads
<1>10. In(V, r) = [w \in World |-> IF w \in V THEN Batch(w, FALSE) ELSE <<>>]
  BY <1>5 DEF In
<1> QED BY <1>9, <1>10

(* Validation of the qa runner: a replica's k-th batch.                     *)
Taken(w, k) == IF k <= Batches(w) THEN k ELSE Batches(w)
TakenAnswers(w, k) == IF w = Leader(w) THEN {Replica(w) + j * job.replicas : j \in 0 .. Taken(w, k) - 1} ELSE {}

LEMMA SharesAreSmall ==
  ASSUME job \in Jobs, NEW w \in World
  PROVE  Batches(w) \in Nat /\ Batches(w) <= job.validation
<1>1. job.validation \in Nat
  BY TaskAssumption
<1>2. IsFiniteSet(0 .. job.validation - 1) /\ Cardinality(0 .. job.validation - 1) = job.validation
  <2>1. IsFiniteSet(0 .. job.validation - 1)
        /\ Cardinality(0 .. job.validation - 1) = IF 0 > job.validation - 1 THEN 0 ELSE (job.validation - 1) - 0 + 1
    <3> DEFINE m == job.validation - 1
    <3>1. m \in Int /\ 0 \in Int
      BY <1>1
    <3> HIDE DEF m
    <3>2. IsFiniteSet(0 .. m) /\ Cardinality(0 .. m) = IF 0 > m THEN 0 ELSE m - 0 + 1
      BY <3>1, FS_Interval
    <3> QED BY <3>2 DEF m
  <2> QED BY <1>1, <2>1
<1>3. Share(w) \subseteq 0 .. job.validation - 1
  BY DEF Share
<1>4. Cardinality(Share(w)) <= job.validation
  BY <1>2, <1>3, FS_Subset
<1> QED BY <1>1, <1>4, BatchesAreNat DEF Batches

LEMMA SharesAreOfReplicas ==
  ASSUME job \in Jobs, NEW k
  PROVE  Closed({w \in World : k <= Batches(w)})
<1> DEFINE V == {w \in World : k <= Batches(w)}
<1>1. ASSUME NEW w \in V, NEW v \in Pipeline(w) PROVE v \in V
  <2>1. w \in World /\ k <= Batches(w)
    OBVIOUS
  <2>2. v \in World /\ Replica(v) = Replica(w)
    BY <2>1, Groups
  <2>3. Batches(v) = Batches(w)
    BY <2>2 DEF Batches, Share
  <2> QED BY <2>1, <2>2, <2>3
<1>2. V \subseteq World
  OBVIOUS
<1> HIDE DEF V
<1>3. Closed(V)
  BY <1>1, <1>2 DEF Closed
<1> QED BY <1>3 DEF V

LEMMA TakenGrow ==
  ASSUME job \in Jobs, NEW steps \in Nat, NEW w \in World, NEW k \in Nat, k > 0
  PROVE  /\ Taken(w, 0) = 0 /\ TakenAnswers(w, 0) = {} /\ Taken(w, k) \in Nat /\ TakenAnswers(w, k) \in SUBSET Int
         /\ k <= Batches(w) => Taken(w, k - 1) = k - 1 /\ Taken(w, k) = k
         /\ ~(k <= Batches(w)) => Taken(w, k) = Taken(w, k - 1)
         /\ TakenAnswers(w, k) =
              IF k <= Batches(w) /\ w = Leader(w)
              THEN TakenAnswers(w, k - 1) \cup {Answer(w, steps + k, steps)} ELSE TakenAnswers(w, k - 1)
<1> DEFINE n == Batches(w)
           d == Replica(w)
           m == job.replicas
           A(t) == {d + j * m : j \in 0 .. t - 1}
<1>1. n \in Nat /\ d \in Nat /\ m \in Nat
  BY SharesAreSmall, RankCoordinates, JobSizes DEF Sizes
<1>2. \A t : Taken(w, t) = IF t <= n THEN t ELSE n
  BY DEF Taken
<1>3. \A t : TakenAnswers(w, t) = IF w = Leader(w) THEN A(Taken(w, t)) ELSE {}
  BY DEF TakenAnswers
<1>4. Answer(w, steps + k, steps) = d + ((steps + k) - steps - 1) * m
  BY DEF Answer
<1>5. (steps + k) - steps - 1 = k - 1
  OBVIOUS
<1> HIDE DEF n, d, m
<1>6. Taken(w, 0) = 0 /\ Taken(w, k) \in Nat /\ (k <= n => Taken(w, k - 1) = k - 1 /\ Taken(w, k) = k)
      /\ (~(k <= n) => Taken(w, k) = Taken(w, k - 1))
  BY <1>1, <1>2
<1>7. A(0) = {} /\ A(k) = A(k - 1) \cup {d + (k - 1) * m}
  <2>1. \A j \in 0 .. k - 1 : j \in 0 .. (k - 1) - 1 \/ j = k - 1
    OBVIOUS
  <2>2. k - 1 \in 0 .. k - 1 /\ 0 .. (k - 1) - 1 \subseteq 0 .. k - 1 /\ 0 .. 0 - 1 = {}
    OBVIOUS
  <2> QED BY <2>1, <2>2
<1>8. ASSUME NEW t \in Nat PROVE A(t) \in SUBSET Int
  <2>1. ASSUME NEW j \in 0 .. t - 1 PROVE d + j * m \in Int
    <3>1. j \in Int /\ d \in Int /\ m \in Int
      BY <1>1
    <3>2. j * m \in Int
      BY <3>1
    <3> QED BY <3>1, <3>2
  <2> QED BY <2>1
<1>9. TakenAnswers(w, k) \in SUBSET Int
  <2>1. A(Taken(w, k)) \in SUBSET Int
    BY <1>6, <1>8
  <2> HIDE DEF A
  <2> QED BY <1>3, <2>1
<1> DEFINE y == Answer(w, steps + k, steps)
<1>10. y = d + (k - 1) * m
  BY <1>4, <1>5
<1> HIDE DEF A, y
<1>11. TakenAnswers(w, k) = IF k <= n /\ w = Leader(w) THEN TakenAnswers(w, k - 1) \cup {y} ELSE TakenAnswers(w, k - 1)
  <2>1. CASE ~(k <= n)
    BY <1>3, <1>6, <2>1
  <2>2. CASE k <= n
    <3>1. Taken(w, k) = k /\ Taken(w, k - 1) = k - 1
      BY <1>6, <2>2
    <3>2. CASE w = Leader(w)
      <4>1. TakenAnswers(w, k) = A(k) /\ TakenAnswers(w, k - 1) = A(k - 1)
        BY <1>3, <3>1, <3>2, Zenon
      <4>2. A(k) = A(k - 1) \cup {y}
        BY <1>7, <1>10
      <4> QED BY <2>2, <3>2, <4>1, <4>2
    <3>3. CASE w # Leader(w)
      BY <1>3, <3>3
    <3> QED BY <3>2, <3>3
  <2> QED BY <2>1, <2>2
<1>12. TakenAnswers(w, 0) = {}
  BY <1>3, <1>6, <1>7
<1> QED BY <1>6, <1>9, <1>11, <1>12 DEF n, y

\* All validation batches.
LEMMA QAValidationLeads ==
  ASSUME job \in Jobs, job.task = "qa", NEW steps \in Nat,
         NEW P, \A w \in World : P[w] = FlattenSeq(Times(Batches(w), Batch(w, FALSE)))
  PROVE  \E B : Leads(P, [w \in World |-> Between(steps, {})], Resting(B, [w \in World |-> TakenAnswers(w, job.validation)]), steps)
<1> DEFINE n == job.validation
           V(k) == {w \in World : k <= Batches(w)}
           R == [k \in 0 .. n |-> [w \in World |-> FlattenSeq(Times(Taken(w, k), Batch(w, FALSE)))]]
           Q == [k \in 1 .. n |-> [w \in World |-> IF w \in V(k) THEN Batch(w, FALSE) ELSE <<>>]]
           N(k) == [w \in World |-> steps + Taken(w, k)]
           X(k) == [w \in World |-> TakenAnswers(w, k)]
           E == [k \in 0 .. n |-> Resting(N(k), X(k))]
<1>1. n \in Nat /\ \A w \in World : Batches(w) \in Nat /\ Batches(w) <= n
  BY SharesAreSmall, JobSizes
<1>2. \A k \in 0 .. n : \A w \in World : R[k][w] = FlattenSeq(Times(Taken(w, k), Batch(w, FALSE)))
  OBVIOUS
<1>3. \A k \in 1 .. n : Q[k] = [w \in World |-> IF w \in V(k) THEN Batch(w, FALSE) ELSE <<>>]
  OBVIOUS
<1>4. \A k \in 0 .. n : E[k] = Resting(N(k), X(k))
  OBVIOUS
<1>5. \A w \in World : Batch(w, FALSE) \in Seq(TaskCalls)
  BY BatchCalls, TaskCallSets
<1>6. \A k \in 1 .. n : \A w \in World :
         Q[k][w] = IF k <= Batches(w) THEN Batch(w, FALSE) ELSE <<>>
  BY <1>3
<1> HIDE DEF R, Q, E
<1>7. ASSUME NEW k \in 1 .. n PROVE Joins(R[k], R[k - 1], Q[k])
  <2> SUFFICES ASSUME NEW w \in World PROVE R[k][w] = R[k - 1][w] \o Q[k][w]
    BY DEF Joins
  <2> DEFINE m == k - 1
             p == Batch(w, FALSE)
  <2>1. m \in Nat /\ m \in 0 .. n /\ k \in 0 .. n /\ k = m + 1 /\ k \in Nat /\ k > 0
    BY <1>1
  <2>2. R[k][w] = FlattenSeq(Times(Taken(w, k), p)) /\ R[m][w] = FlattenSeq(Times(Taken(w, m), p)) /\ p \in Seq(TaskCalls)
    BY <1>2, <1>5, <2>1
  <2>3. Q[k][w] = IF k <= Batches(w) THEN p ELSE <<>>
    BY <1>6
  <2> HIDE DEF m, p
  <2>4. CASE k <= Batches(w)
    <3>1. Taken(w, k) = m + 1 /\ Taken(w, m) = m
      BY <1>1, <2>1, <2>4 DEF Taken
    <3>2. FlattenSeq(Times(m + 1, p)) = FlattenSeq(Times(m, p)) \o p
      BY <2>1, <2>2, TimesGrow
    <3> QED BY <2>2, <2>3, <2>4, <3>1, <3>2 DEF m
  <2>5. CASE ~(k <= Batches(w))
    <3>1. Taken(w, k) = Taken(w, m) /\ Taken(w, m) \in Nat
      BY <1>1, <2>1, <2>5 DEF Taken
    <3>2. FlattenSeq(Times(Taken(w, m), p)) \in Seq(TaskCalls)
      BY <2>2, <3>1, TimesIsSeq
    <3>3. R[m][w] \in Seq(TaskCalls) /\ R[k][w] = R[m][w] /\ Q[k][w] = <<>>
      BY <2>2, <2>3, <2>5, <3>1, <3>2
    <3>4. R[m][w] \o <<>> = R[m][w]
      BY <3>3
    <3> QED BY <3>3, <3>4 DEF m
  <2> QED BY <2>4, <2>5
<1>8. ASSUME NEW k \in 1 .. n PROVE Leads(Q[k], E[k - 1], E[k], steps)
  <2> DEFINE m == k - 1
             b == steps + k
             v == V(k)
             e == E[m]
             x == X(m)
             y == X(k)
             c == N(k)
             a == N(m)
  <2>1. m \in 0 .. n /\ k \in 0 .. n /\ k \in Nat /\ k > 0 /\ b \in Int /\ steps \in Int /\ m \in Nat
    BY <1>1
  <2>2. e = Resting(a, x) /\ E[k] = Resting(c, y)
    BY <1>4, <2>1
  <2>3. Closed(v)
    BY SharesAreOfReplicas
  <2>4. ASSUME NEW w \in World
        PROVE  /\ a[w] = steps + Taken(w, m) /\ x[w] = TakenAnswers(w, m) /\ c[w] = steps + Taken(w, k) /\ y[w] = TakenAnswers(w, k)
               /\ w \in v <=> k <= Batches(w)
    OBVIOUS
  <2>5. Q[k] = [w \in World |-> IF w \in v THEN Batch(w, FALSE) ELSE <<>>]
    BY <1>3
  <2> HIDE DEF m, b, v, e, x, y, c, a
  <2>6. IntSets(x)
    <3> SUFFICES ASSUME NEW w \in World PROVE x[w] \in SUBSET Int
      BY DEF IntSets
    <3>1. CASE m = 0
      BY <2>1, <2>4, <3>1, TakenGrow
    <3>2. CASE m # 0
      BY <2>1, <2>4, <3>2, TakenGrow
    <3> QED BY <3>1, <3>2
  <2>7. \A w \in World : e[w].batch = a[w] /\ e[w].answers = x[w]
    <3> TAKE w \in World
    <3>1. e[w] = Between(a[w], x[w])
      BY <2>2 DEF Resting
    <3> QED BY <3>1, BetweenFields
  <2>8. \A w \in v : e[w].batch + 1 = b
    <3> TAKE w \in v
    <3>1. w \in World /\ k <= Batches(w)
      BY <2>3, <2>4 DEF Closed
    <3>2. Taken(w, m) = m
      BY <2>1, <3>1, TakenGrow DEF m
    <3> QED BY <2>1, <2>4, <2>7, <3>1, <3>2 DEF m, b
  <2>9. \A w \in World : c[w] = IF w \in v THEN b ELSE e[w].batch
    <3> TAKE w \in World
    <3>1. CASE w \in v
      <4>1. Taken(w, k) = k
        BY <2>1, <2>4, <3>1, TakenGrow
      <4> QED BY <2>4, <3>1, <4>1 DEF b
    <3>2. CASE w \notin v
      <4>1. Taken(w, k) = Taken(w, k - 1)
        BY <2>1, <2>4, <3>2, TakenGrow
      <4> QED BY <2>4, <2>7, <3>2, <4>1 DEF m
    <3> QED BY <3>1, <3>2
  <2>10. \A w \in World : y[w] = IF w \in v /\ w = Leader(w) THEN x[w] \cup {Answer(w, b, steps)} ELSE x[w]
    <3> TAKE w \in World
    <3>1. TakenAnswers(w, k) =
            IF k <= Batches(w) /\ w = Leader(w)
            THEN TakenAnswers(w, k - 1) \cup {Answer(w, steps + k, steps)} ELSE TakenAnswers(w, k - 1)
      BY <2>1, TakenGrow
    <3> QED BY <2>4, <3>1 DEF m, b
  <2>11. \A w \in World : e[w].answers = x[w]
    BY <2>7
  <2>12. Leads([w \in World |-> IF w \in v THEN Batch(w, FALSE) ELSE <<>>], e, Resting(c, y), steps)
    <3>1. ValidationRound(v, e, b, x, c, y, steps)
      BY <2>8, <2>9, <2>10, <2>11 DEF ValidationRound
    <3> QED BY <2>1, <2>3, <2>6, <3>1, QABatchValidates
  <2> QED BY <2>2, <2>5, <2>12 DEF e, m
<1>9. \A w \in World : R[0][w] = <<>>
  <2> TAKE w \in World
  <2>1. R[0][w] = FlattenSeq(Times(Taken(w, 0), Batch(w, FALSE))) /\ Taken(w, 0) = 0
    <3>1. 0 \in 0 .. n
      BY <1>1
    <3>2. R[0][w] = FlattenSeq(Times(Taken(w, 0), Batch(w, FALSE)))
      BY <1>2, <3>1, Zenon
    <3>3. Taken(w, 0) = 0
      BY <1>1 DEF Taken
    <3> QED BY <3>2, <3>3
  <2> QED BY <1>5, <2>1, TimesGrow
<1>10. Leads(R[n], E[0], E[n], steps)
  <2> HIDE DEF n
  <2> QED BY <1>1, <1>7, <1>8, <1>9, LoopLeads
<1>11. \A w \in World : R[n][w] = P[w]
  <2> TAKE w \in World
  <2>1. n \in 0 .. n /\ Taken(w, n) = Batches(w)
    BY <1>1 DEF Taken
  <2> QED BY <1>2, <2>1
<1>12. E[0] = [w \in World |-> Between(steps, {})]
  <2>1. E[0] = Resting(N(0), X(0))
    <3>1. 0 \in 0 .. n
      BY <1>1
    <3> QED BY <1>4, <3>1
  <2>2. ASSUME NEW w \in World PROVE N(0)[w] = steps /\ X(0)[w] = {}
    <3>1. Taken(w, 0) = 0 /\ TakenAnswers(w, 0) = {}
      <4>1. 1 \in Nat /\ 1 > 0
        OBVIOUS
      <4> QED BY <4>1, TakenGrow
    <3> QED BY <3>1
  <2>3. Resting(N(0), X(0)) = [w \in World |-> Between(N(0)[w], X(0)[w])]
    BY DEF Resting
  <2> HIDE DEF N, X
  <2> QED BY <2>1, <2>2, <2>3
<1>13. E[n] = Resting(N(n), [w \in World |-> TakenAnswers(w, job.validation)])
  <2>1. n \in 0 .. n
    BY <1>1
  <2> QED BY <1>4, <2>1
<1> HIDE DEF N, n
<1>14. Leads(P, E[0], E[n], steps)
  BY <1>10, <1>11, LeadsSame
<1> QED BY <1>12, <1>13, <1>14

(* Together the shares are all validation features.                         *)

Numbers(d, m, k) == {d + j * m : j \in 0 .. k - 1}

LEMMA NumbersCount ==
  ASSUME NEW d \in Nat, NEW m \in Nat, m > 0, NEW k \in Nat
  PROVE  IsFiniteSet(Numbers(d, m, k)) /\ Cardinality(Numbers(d, m, k)) = k
<1> DEFINE Good(i) == IsFiniteSet(Numbers(d, m, i)) /\ Cardinality(Numbers(d, m, i)) = i
           Bad == {i \in Nat : ~Good(i)}
<1>1. SUFFICES ASSUME Bad # {} PROVE FALSE
  OBVIOUS
<1>2. Bad \in SUBSET Nat
  OBVIOUS
<1>3. PICK n \in Bad : \A x \in Bad : n <= x
  BY <1>1, <1>2, LeastOfSet
<1>4. n \in Nat /\ ~Good(n)
  OBVIOUS
<1>5. n # 0
  <2>1. Numbers(d, m, 0) = {}
    BY DEF Numbers
  <2>2. Good(0)
    BY <2>1, FS_EmptySet
  <2> QED BY <1>4, <2>2
<1>6. n - 1 \in Nat /\ n - 1 \notin Bad
  BY <1>3, <1>4, <1>5
<1>7. Good(n - 1)
  BY <1>6
<1> DEFINE x == d + (n - 1) * m
           S == Numbers(d, m, n - 1)
<1>8. Numbers(d, m, n) = S \cup {x}
  <2>1. \A j \in 0 .. n - 1 : j \in 0 .. (n - 1) - 1 \/ j = n - 1
    BY <1>4
  <2>2. n - 1 \in 0 .. n - 1 /\ 0 .. (n - 1) - 1 \subseteq 0 .. n - 1
    BY <1>6
  <2> QED BY <2>1, <2>2 DEF Numbers
<1>9. x \notin S
  <2> SUFFICES ASSUME NEW j \in 0 .. (n - 1) - 1, d + j * m = d + (n - 1) * m PROVE FALSE
    BY DEF Numbers
  <2> DEFINE a == m * j
             b == m * (n - 1)
  <2>1. a \in Int /\ b \in Int /\ a + m <= b
    BY <1>6, Factors
  <2>2. j * m = a /\ (n - 1) * m = b
    BY <1>6
  <2>3. d + a = d + b
    BY <2>2
  <2> HIDE DEF a, b
  <2> QED BY <2>1, <2>3
<1> HIDE DEF S, x
<1>10. IsFiniteSet(S) /\ Cardinality(S) = n - 1
  BY <1>7 DEF S
<1>11. IsFiniteSet(S \cup {x}) /\ Cardinality(S \cup {x}) = (n - 1) + 1
  BY <1>9, <1>10, FS_AddElement
<1>12. (n - 1) + 1 = n
  BY <1>4
<1> QED BY <1>4, <1>8, <1>11, <1>12

LEMMA ShareIs ==
  ASSUME job \in Jobs, job.task = "qa", NEW w \in World
  PROVE  Share(w) = Numbers(Replica(w), job.replicas, Batches(w))
<1> DEFINE d == Replica(w)
           m == job.replicas
           n == job.validation
           c == Batches(w)
           S == Share(w)
<1>1. d \in Nat /\ d \in 0 .. m - 1 /\ m \in Nat /\ m > 0 /\ n \in Nat /\ c \in Nat
  BY RankCoordinates, JobSizes, SharesAreSmall DEF Sizes
<1>2. S = {f \in 0 .. n - 1 : f % m = d} /\ c = Cardinality(S) /\ IsFiniteSet(S)
  <2>1. IsFiniteSet(0 .. n - 1)
    <3> DEFINE k == n - 1
    <3>1. k \in Int /\ 0 \in Int
      BY <1>1
    <3> HIDE DEF k
    <3>2. IsFiniteSet(0 .. k)
      BY <3>1, FS_Interval
    <3> QED BY <3>2 DEF k
  <2>2. S \in SUBSET (0 .. n - 1)
    BY DEF Share
  <2> QED BY <2>1, <2>2, FS_Subset DEF Share, Batches
<1> HIDE DEF d, m, n, c, S
<1>3. ASSUME NEW f \in S
      PROVE  f \div m \in Nat /\ f = d + (f \div m) * m /\ f \in 0 .. n - 1
  <2>1. f \in Nat /\ f % m = d /\ f \in 0 .. n - 1
    BY <1>2
  <2> DEFINE q == f \div m
  <2>2. q \in Nat /\ f = m * q + (f % m)
    BY <1>1, <2>1, Dividing
  <2> HIDE DEF q
  <2>3. m * q = q * m /\ q * m \in Int
    BY <1>1, <2>2
  <2>4. f = d + q * m
    BY <1>1, <2>1, <2>2, <2>3
  <2> QED BY <2>1, <2>2, <2>4 DEF q
<1>4. ASSUME NEW j \in Nat, d + j * m <= n - 1 PROVE d + j * m \in S
  <2> DEFINE a == m * j
  <2>1. a \in Nat /\ j * m = a /\ (m * j + d) % m = d
    BY <1>1, DividedBack
  <2>2. d + j * m = m * j + d
    BY <1>1
  <2>3. d + j * m \in 0 .. n - 1
    <3>1. j * m \in Nat
      BY <2>1
    <3> HIDE DEF a
    <3> QED BY <1>1, <1>4, <3>1
  <2>4. (d + j * m) % m = d
    BY <2>1, <2>2
  <2> HIDE DEF a
  <2> QED BY <1>2, <2>3, <2>4
<1>5. ASSUME NEW i \in Nat, NEW j \in Nat, i <= j PROVE d + i * m \in Int /\ d + j * m \in Int /\ d + i * m <= d + j * m
  <2> DEFINE a == m * i
             b == m * j
  <2>1. a \in Int /\ b \in Int /\ i * m = a /\ j * m = b
    BY <1>1
  <2>2. a <= b
    <3>1. CASE i = j
      BY <2>1, <3>1
    <3>2. CASE i < j
      <4>1. a + m <= b
        BY <1>1, <3>2, Factors
      <4> HIDE DEF a, b
      <4> QED BY <1>1, <2>1, <4>1
    <3> QED BY <1>5, <3>1, <3>2
  <2> HIDE DEF a, b
  <2> QED BY <1>1, <2>1, <2>2
<1>6. ASSUME NEW f \in S PROVE f \in Numbers(d, m, c)
  <2> DEFINE q == f \div m
  <2>1. q \in Nat /\ f = d + q * m /\ f \in 0 .. n - 1
    BY <1>3
  <2> HIDE DEF q
  <2>2. Numbers(d, m, q + 1) \subseteq S
    <3> SUFFICES ASSUME NEW i \in 0 .. (q + 1) - 1 PROVE d + i * m \in S
      BY DEF Numbers
    <3>1. i \in Nat /\ i <= q
      BY <2>1
    <3>2. d + i * m \in Int /\ d + q * m \in Int /\ d + i * m <= d + q * m
      BY <1>5, <2>1, <3>1
    <3>3. d + i * m <= n - 1
      <4> DEFINE x == d + i * m
      <4>1. x \in Int /\ x <= f
        BY <2>1, <3>2
      <4> HIDE DEF x
      <4>2. x <= n - 1
        BY <1>1, <2>1, <4>1
      <4> QED BY <4>2 DEF x
    <3> QED BY <1>4, <3>1, <3>3
  <2>3. Cardinality(Numbers(d, m, q + 1)) = q + 1
    <3>1. q + 1 \in Nat
      BY <2>1
    <3> QED BY <1>1, <3>1, NumbersCount
  <2>4. q + 1 <= c
    <3> DEFINE T == Numbers(d, m, q + 1)
    <3>1. T \in SUBSET S
      BY <2>2
    <3>2. Cardinality(T) <= Cardinality(S)
      <4> HIDE DEF T
      <4> QED BY <1>2, <3>1, FS_Subset
    <3> QED BY <1>2, <2>3, <3>2
  <2>5. q \in 0 .. c - 1
    BY <1>1, <2>1, <2>4
  <2> QED BY <2>1, <2>5 DEF Numbers
<1>7. ASSUME NEW j \in 0 .. c - 1 PROVE d + j * m \in S
  <2>0. j \in Nat /\ j < c
    BY <1>1
  <2>1. SUFFICES ASSUME ~(d + j * m <= n - 1) PROVE FALSE
    BY <1>4, <2>0
  <2>2. S \subseteq Numbers(d, m, j)
    <3> SUFFICES ASSUME NEW f \in S PROVE f \in Numbers(d, m, j)
      OBVIOUS
    <3> DEFINE q == f \div m
    <3>1. q \in Nat /\ f = d + q * m /\ f \in 0 .. n - 1
      BY <1>3
    <3> HIDE DEF q
    <3>2. ~(j <= q)
      <4>1. SUFFICES ASSUME j <= q PROVE FALSE
        OBVIOUS
      <4> DEFINE x == d + j * m
      <4>2. x \in Int /\ x <= f
        BY <1>5, <2>0, <3>1, <4>1
      <4> HIDE DEF x
      <4>3. x <= n - 1
        BY <1>1, <3>1, <4>2
      <4> QED BY <2>1, <4>3 DEF x
    <3>3. q \in 0 .. j - 1
      BY <2>0, <3>1, <3>2
    <3> QED BY <3>1, <3>3 DEF Numbers
  <2> DEFINE T == Numbers(d, m, j)
  <2>3. IsFiniteSet(T) /\ Cardinality(T) = j
    BY <1>1, <2>0, NumbersCount
  <2>4. S \in SUBSET T
    BY <2>2
  <2> HIDE DEF T
  <2>5. Cardinality(S) <= Cardinality(T)
    BY <2>3, <2>4, FS_Subset
  <2> QED BY <1>1, <1>2, <2>0, <2>3, <2>5
<1>8. S = Numbers(d, m, c)
  BY <1>6, <1>7 DEF Numbers
<1> QED BY <1>8 DEF S, d, m, c

LEMMA AnswersAreWhole ==
  ASSUME job \in Jobs, job.task = "qa"
  PROVE  UNION {TakenAnswers(u, job.validation) : u \in World} = 0 .. job.validation - 1
<1> DEFINE n == job.validation
           m == job.replicas
<1>1. n \in Nat /\ m \in Nat /\ m > 0
  BY JobSizes DEF Sizes
<1>2. ASSUME NEW u \in World PROVE TakenAnswers(u, n) = IF u = Leader(u) THEN Share(u) ELSE {}
  <2>1. Taken(u, n) = Batches(u)
    <3>1. Batches(u) \in Nat /\ Batches(u) <= n
      BY SharesAreSmall
    <3> QED BY <1>1, <3>1 DEF Taken
  <2>2. Share(u) = Numbers(Replica(u), job.replicas, Batches(u))
    BY ShareIs
  <2> QED BY <2>1, <2>2 DEF TakenAnswers, Numbers
<1>3. \A u \in World : Share(u) \subseteq 0 .. n - 1
  BY DEF Share
<1>4. ASSUME NEW f \in 0 .. n - 1 PROVE \E u \in World : f \in TakenAnswers(u, n)
  <2> DEFINE d == f % m
             u == RankOf(d, 0)
  <2>1. d \in 0 .. m - 1 /\ d \in Nat
    <3>1. f \in Nat
      BY <1>1
    <3> HIDE DEF m
    <3> QED BY <1>1, <3>1, Dividing
  <2>2. 0 \in 0 .. job.stages - 1 /\ job.stages \in Nat
    BY JobSizes DEF Sizes
  <2> HIDE DEF d
  <2>3. u \in World /\ Replica(u) = d
    BY <2>1, <2>2, RankCoordinates
  <2>4. Leader(u) = u
    <3>1. Leader(u) = d * job.stages
      BY <2>3 DEF Leader
    <3>2. u = job.stages * d + 0
      BY DEF RankOf
    <3> DEFINE a == job.stages * d
    <3>3. d * job.stages = a /\ a \in Int
      BY <2>1, <2>2
    <3> HIDE DEF a, u
    <3>4. u = a + 0
      BY <3>2 DEF a
    <3> QED BY <3>1, <3>3, <3>4
  <2>5. f \in Share(u)
    BY <2>3 DEF Share, d
  <2> HIDE DEF u
  <2> QED BY <1>2, <2>3, <2>4, <2>5
<1>5. \A u \in World : TakenAnswers(u, n) \subseteq 0 .. n - 1
  BY <1>2, <1>3
<1> QED BY <1>4, <1>5

(* The programs of both runners have schedules.                             *)

LEMMA AllIsSilent ==
  ASSUME job \in Jobs, NEW steps, NEW what \in CallKinds \ Joined, NEW act, \A v \in World : act[v] = All(what), NEW E
  PROVE  Leads(act, E, E, steps)
<1>1. Silent(act)
  BY AllSilent
<1> QED BY <1>1, SilentLeads

LEMMA AloneIsSilent ==
  ASSUME job \in Jobs, NEW steps, NEW what \in TaskKinds \ ({"load", "loss", "backward", "update"} \cup Compared),
         NEW act, \A v \in World : act[v] = <<>> \/ act[v] = <<Alone(what, 0)>>, NEW E
  PROVE  Leads(act, E, E, steps)
<1>1. Silent(act)
  BY AloneSilent
<1> QED BY <1>1, SilentLeads

\* All validation batches of the mt5 runner.
LEMMA MT5ValidationLeads ==
  ASSUME job \in Jobs, job.task = "mt5", NEW steps, NEW n \in Nat,
         NEW P, \A w \in World : P[w] = FlattenSeq(Times(Batches(w), Batch(w, FALSE)))
  PROVE  Leads(P, [w \in World |-> Between(n, {})], [w \in World |-> Between(n + job.validation, {})], steps)
<1> DEFINE m == job.validation
           E == [i \in 0 .. m |-> [w \in World |-> Between(n + i, {})]]
           p == [w \in World |-> Batch(w, FALSE)]
           X == [w \in World |-> {}]
<1>0. m \in Nat /\ \A w \in World : Batches(w) = m
  BY JobSizes DEF Batches
<1>1. ASSUME NEW i \in 1 .. m PROVE Leads(p, E[i - 1], E[i], steps)
  <2>1. i - 1 \in 0 .. m /\ i \in 0 .. m /\ n + i \in Int /\ (n + (i - 1)) + 1 = n + i
    BY <1>0
  <2> DEFINE e == E[i - 1]
             b == n + i
  <2>2. ASSUME NEW w \in World PROVE e[w].batch + 1 = b /\ e[w].answers = X[w]
    <3>1. e[w] = Between(n + (i - 1), {}) /\ X[w] = {}
      BY <2>1
    <3> HIDE DEF e, b, X
    <3>2. e[w].batch = n + (i - 1) /\ e[w].answers = {}
      BY <3>1, BetweenFields
    <3> QED BY <2>1, <3>1, <3>2 DEF b
  <2>3. E[i] = [w \in World |-> Between(b, X[w])]
    BY <2>1
  <2>4. IntSets(X)
    BY DEF IntSets
  <2>5. p = [w \in World |-> Batch(w, FALSE)] /\ b \in Int
    BY <2>1
  <2> HIDE DEF e, E, b, X, p
  <2>6. Leads(p, e, [w \in World |-> Between(b, X[w])], steps)
    BY <2>2, <2>4, <2>5, MT5BatchValidates
  <2> QED BY <2>3, <2>6 DEF e
<1>2. \A w \in World : p[w] \in Seq(TaskCalls) /\ P[w] = FlattenSeq(Times(m, p[w]))
  <2> TAKE w \in World
  <2>1. Batch(w, FALSE) \in Seq(TaskCalls)
    BY BatchCalls, TaskCallSets
  <2> QED BY <1>0, <2>1
<1>3. E[0] = [w \in World |-> Between(n, {})] /\ E[m] = [w \in World |-> Between(n + job.validation, {})]
  <2>1. 0 \in 0 .. m /\ m \in 0 .. m /\ n + 0 = n
    BY <1>0
  <2> QED BY <2>1
<1> HIDE DEF E, p, m
<1>4. Leads(P, E[0], E[m], steps)
  BY <1>0, <1>1, <1>2, SameRounds
<1> QED BY <1>3, <1>4

LEMMA TrainingFromNothing ==
  ASSUME job \in Jobs, NEW steps, NEW n \in Nat, NEW P, \A w \in World : P[w] = FlattenSeq(Times(n, TrainingStep(w))),
         NEW E, E = [w \in World |-> Between(0, {})], NEW F, F = [w \in World |-> Between(n, {})]
  PROVE  Leads(P, E, F, steps)
<1> DEFINE X == [w \in World |-> {}]
<1>1. IntSets(X)
  BY DEF IntSets
<1>2. E = [w \in World |-> Between(0, X[w])] /\ F = [w \in World |-> Between(n, X[w])]
  OBVIOUS
<1> HIDE DEF X
<1> QED BY <1>1, <1>2, TrainingLeads

\* The qa runner, given how its validation goes.
LEMMA QAProgramGoes ==
  ASSUME job \in Jobs, NEW steps, NEW n \in Nat, NEW B, NEW X,
         Leads([w \in World |-> FlattenSeq(Times(Batches(w), Batch(w, FALSE)))], [w \in World |-> Between(n, {})], Resting(B, X), steps),
         NEW Y, \A w \in World : Y[w] = IF w = 0 THEN UNION {X[u] : u \in World} ELSE X[w]
  PROVE  Leads([v \in World |-> QAProgram(v, n)], [w \in World |-> Between(0, {})], Resting(B, Y), steps)
<1> DEFINE p1 == [w \in World |-> <<Alone("device", 0)>>]
           p2 == [w \in World |-> All("join")]
           p3 == [w \in World |-> All("groups")]
           p4 == [w \in World |-> All("settings")]
           p5 == [w \in World |-> When(First(w), <<Alone("data", 0)>>)]
           p6 == [w \in World |-> All("data_errors")]
           p7 == [w \in World |-> Pipe(w, "counts")]
           p8 == [w \in World |-> All("lengths")]
           p9 == [w \in World |-> All("run_id")]
           p10 == [w \in World |-> Pipe(w, "hash")]
           p11 == [w \in World |-> All("identities")]
           p12 == [w \in World |-> <<Alone("directory", 0)>>]
           p13 == [w \in World |-> All("collect")]
           p14 == [w \in World |-> FlattenSeq(Times(n, TrainingStep(w)))]
           p15 == [w \in World |-> All("wall")]
           p16 == [w \in World |-> Pipe(w, "batches")]
           p17 == [w \in World |-> FlattenSeq(Times(Batches(w), Batch(w, FALSE)))]
           p18 == [w \in World |-> All("gather")]
           p19 == [w \in World |-> When(w = 0, <<Alone("score", 0)>>)]
           p20 == [w \in World |-> All("scores")]
           r2 == [w \in World |-> p1[w] \o p2[w]]
           r3 == [w \in World |-> r2[w] \o p3[w]]
           r4 == [w \in World |-> r3[w] \o p4[w]]
           r5 == [w \in World |-> r4[w] \o p5[w]]
           r6 == [w \in World |-> r5[w] \o p6[w]]
           r7 == [w \in World |-> r6[w] \o p7[w]]
           r8 == [w \in World |-> r7[w] \o p8[w]]
           r9 == [w \in World |-> r8[w] \o p9[w]]
           r10 == [w \in World |-> r9[w] \o p10[w]]
           r11 == [w \in World |-> r10[w] \o p11[w]]
           r12 == [w \in World |-> r11[w] \o p12[w]]
           r13 == [w \in World |-> r12[w] \o p13[w]]
           r14 == [w \in World |-> r13[w] \o p14[w]]
           r15 == [w \in World |-> r14[w] \o p15[w]]
           r16 == [w \in World |-> r15[w] \o p16[w]]
           r17 == [w \in World |-> r16[w] \o p17[w]]
           r18 == [w \in World |-> r17[w] \o p18[w]]
           r19 == [w \in World |-> r18[w] \o p19[w]]
           r20 == [w \in World |-> r19[w] \o p20[w]]
           s0 == [w \in World |-> Between(0, {})]
           s14 == [w \in World |-> Between(n, {})]
           s17 == Resting(B, X)
           s18 == Resting(B, Y)
<1>1. /\ \A w \in World : p1[w] = <<Alone("device", 0)>>
      /\ \A w \in World : p2[w] = All("join")
      /\ \A w \in World : p3[w] = All("groups")
      /\ \A w \in World : p4[w] = All("settings")
      /\ \A w \in World : p5[w] = When(First(w), <<Alone("data", 0)>>)
      /\ \A w \in World : p6[w] = All("data_errors")
      /\ \A w \in World : p7[w] = Pipe(w, "counts")
      /\ \A w \in World : p8[w] = All("lengths")
      /\ \A w \in World : p9[w] = All("run_id")
      /\ \A w \in World : p10[w] = Pipe(w, "hash")
      /\ \A w \in World : p11[w] = All("identities")
      /\ \A w \in World : p12[w] = <<Alone("directory", 0)>>
      /\ \A w \in World : p13[w] = All("collect")
      /\ \A w \in World : p14[w] = FlattenSeq(Times(n, TrainingStep(w)))
      /\ \A w \in World : p15[w] = All("wall")
      /\ \A w \in World : p16[w] = Pipe(w, "batches")
      /\ \A w \in World : p17[w] = FlattenSeq(Times(Batches(w), Batch(w, FALSE)))
      /\ \A w \in World : p18[w] = All("gather")
      /\ \A w \in World : p19[w] = When(w = 0, <<Alone("score", 0)>>)
      /\ \A w \in World : p20[w] = All("scores")
  OBVIOUS
<1>2. /\ \A w \in World : r2[w] = p1[w] \o p2[w]
      /\ \A w \in World : r3[w] = r2[w] \o p3[w]
      /\ \A w \in World : r4[w] = r3[w] \o p4[w]
      /\ \A w \in World : r5[w] = r4[w] \o p5[w]
      /\ \A w \in World : r6[w] = r5[w] \o p6[w]
      /\ \A w \in World : r7[w] = r6[w] \o p7[w]
      /\ \A w \in World : r8[w] = r7[w] \o p8[w]
      /\ \A w \in World : r9[w] = r8[w] \o p9[w]
      /\ \A w \in World : r10[w] = r9[w] \o p10[w]
      /\ \A w \in World : r11[w] = r10[w] \o p11[w]
      /\ \A w \in World : r12[w] = r11[w] \o p12[w]
      /\ \A w \in World : r13[w] = r12[w] \o p13[w]
      /\ \A w \in World : r14[w] = r13[w] \o p14[w]
      /\ \A w \in World : r15[w] = r14[w] \o p15[w]
      /\ \A w \in World : r16[w] = r15[w] \o p16[w]
      /\ \A w \in World : r17[w] = r16[w] \o p17[w]
      /\ \A w \in World : r18[w] = r17[w] \o p18[w]
      /\ \A w \in World : r19[w] = r18[w] \o p19[w]
      /\ \A w \in World : r20[w] = r19[w] \o p20[w]
  OBVIOUS
<1>3. /\ s0 = [w \in World |-> Between(0, {})]
      /\ s14 = [w \in World |-> Between(n, {})]
      /\ s17 = Resting(B, X)
      /\ s18 = Resting(B, Y)
  OBVIOUS
<1> HIDE DEF p1, p2, p3, p4, p5, p6, p7, p8, p9, p10, p11, p12, p13, p14, p15, p16, p17, p18, p19, p20, r2, r3, r4, r5, r6, r7, r8, r9, r10, r11, r12, r13, r14, r15, r16, r17, r18, r19, r20, s0, s14, s17, s18
<1>0. Closed(World)
  BY Groups DEF Closed
<1>4. Leads(In(World, p1), s0, s0, steps)
  <2>1. \A w \in World : In(World, p1)[w] = IF w \in World THEN <<Alone("device", 0)>> ELSE <<>>
    BY <1>1 DEF In
  <2>2. "device" \in TaskKinds \ ({"load", "loss", "backward", "update"} \cup Compared)
    BY DEF TaskKinds, Compared
  <2>3. \A w \in World : In(World, p1)[w] = <<>> \/ In(World, p1)[w] = <<Alone("device", 0)>>
    BY <2>1
  <2> QED BY <2>2, <2>3, AloneIsSilent
<1>5. Leads(In(World, p2), s0, s0, steps)
  <2>1. \A w \in World : In(World, p2)[w] = IF w \in World THEN All("join") ELSE <<>>
    BY <1>1 DEF In
  <2>2. "join" \in CallKinds \ Joined
    BY DEF CallKinds, TaskKinds, Compared, Joined
  <2>3. \A w \in World : In(World, p2)[w] = All("join")
    BY <2>1
  <2> QED BY <2>2, <2>3, AllIsSilent
<1>6. Leads(In(World, p3), s0, s0, steps)
  <2>1. \A w \in World : In(World, p3)[w] = IF w \in World THEN All("groups") ELSE <<>>
    BY <1>1 DEF In
  <2>2. "groups" \in CallKinds \ Joined
    BY DEF CallKinds, TaskKinds, Compared, Joined
  <2>3. \A w \in World : In(World, p3)[w] = All("groups")
    BY <2>1
  <2> QED BY <2>2, <2>3, AllIsSilent
<1>7. Leads(In(World, p4), s0, s0, steps)
  <2>1. \A w \in World : In(World, p4)[w] = IF w \in World THEN All("settings") ELSE <<>>
    BY <1>1 DEF In
  <2>2. "settings" \in CallKinds \ Joined
    BY DEF CallKinds, TaskKinds, Compared, Joined
  <2>3. \A w \in World : In(World, p4)[w] = All("settings")
    BY <2>1
  <2> QED BY <2>2, <2>3, AllIsSilent
<1>8. Leads(In(World, p5), s0, s0, steps)
  <2>1. \A w \in World : In(World, p5)[w] = IF w \in World THEN When(First(w), <<Alone("data", 0)>>) ELSE <<>>
    BY <1>1 DEF In
  <2>2. "data" \in TaskKinds \ ({"load", "loss", "backward", "update"} \cup Compared)
    BY DEF TaskKinds, Compared
  <2>3. \A w \in World : In(World, p5)[w] = <<>> \/ In(World, p5)[w] = <<Alone("data", 0)>>
    BY <2>1 DEF When
  <2> QED BY <2>2, <2>3, AloneIsSilent
<1>9. Leads(In(World, p6), s0, s0, steps)
  <2>1. \A w \in World : In(World, p6)[w] = IF w \in World THEN All("data_errors") ELSE <<>>
    BY <1>1 DEF In
  <2>2. "data_errors" \in CallKinds \ Joined
    BY DEF CallKinds, TaskKinds, Compared, Joined
  <2>3. \A w \in World : In(World, p6)[w] = All("data_errors")
    BY <2>1
  <2> QED BY <2>2, <2>3, AllIsSilent
<1>10. Leads(In(World, p7), s0, s0, steps)
  <2>1. \A w \in World : In(World, p7)[w] = IF w \in World THEN Pipe(w, "counts") ELSE <<>>
    BY <1>1 DEF In
  <2> QED BY <1>0, <2>1, PipeIsSilent
<1>11. Leads(In(World, p8), s0, s0, steps)
  <2>1. \A w \in World : In(World, p8)[w] = IF w \in World THEN All("lengths") ELSE <<>>
    BY <1>1 DEF In
  <2>2. "lengths" \in CallKinds \ Joined
    BY DEF CallKinds, TaskKinds, Compared, Joined
  <2>3. \A w \in World : In(World, p8)[w] = All("lengths")
    BY <2>1
  <2> QED BY <2>2, <2>3, AllIsSilent
<1>12. Leads(In(World, p9), s0, s0, steps)
  <2>1. \A w \in World : In(World, p9)[w] = IF w \in World THEN All("run_id") ELSE <<>>
    BY <1>1 DEF In
  <2>2. "run_id" \in CallKinds \ Joined
    BY DEF CallKinds, TaskKinds, Compared, Joined
  <2>3. \A w \in World : In(World, p9)[w] = All("run_id")
    BY <2>1
  <2> QED BY <2>2, <2>3, AllIsSilent
<1>13. Leads(In(World, p10), s0, s0, steps)
  <2>1. \A w \in World : In(World, p10)[w] = IF w \in World THEN Pipe(w, "hash") ELSE <<>>
    BY <1>1 DEF In
  <2> QED BY <1>0, <2>1, PipeIsSilent
<1>14. Leads(In(World, p11), s0, s0, steps)
  <2>1. \A w \in World : In(World, p11)[w] = IF w \in World THEN All("identities") ELSE <<>>
    BY <1>1 DEF In
  <2>2. "identities" \in CallKinds \ Joined
    BY DEF CallKinds, TaskKinds, Compared, Joined
  <2>3. \A w \in World : In(World, p11)[w] = All("identities")
    BY <2>1
  <2> QED BY <2>2, <2>3, AllIsSilent
<1>15. Leads(In(World, p12), s0, s0, steps)
  <2>1. \A w \in World : In(World, p12)[w] = IF w \in World THEN <<Alone("directory", 0)>> ELSE <<>>
    BY <1>1 DEF In
  <2>2. "directory" \in TaskKinds \ ({"load", "loss", "backward", "update"} \cup Compared)
    BY DEF TaskKinds, Compared
  <2>3. \A w \in World : In(World, p12)[w] = <<>> \/ In(World, p12)[w] = <<Alone("directory", 0)>>
    BY <2>1
  <2> QED BY <2>2, <2>3, AloneIsSilent
<1>16. Leads(In(World, p13), s0, s0, steps)
  <2>1. \A w \in World : In(World, p13)[w] = IF w \in World THEN All("collect") ELSE <<>>
    BY <1>1 DEF In
  <2>2. "collect" \in CallKinds \ Joined
    BY DEF CallKinds, TaskKinds, Compared, Joined
  <2>3. \A w \in World : In(World, p13)[w] = All("collect")
    BY <2>1
  <2> QED BY <2>2, <2>3, AllIsSilent
<1>17. Leads(In(World, p14), s0, s14, steps)
  <2>1. \A w \in World : In(World, p14)[w] = IF w \in World THEN FlattenSeq(Times(n, TrainingStep(w))) ELSE <<>>
    BY <1>1 DEF In
  <2>2. \A w \in World : In(World, p14)[w] = FlattenSeq(Times(n, TrainingStep(w)))
    BY <2>1
  <2> QED BY <1>3, <2>2, TrainingFromNothing
<1>18. Leads(In(World, p15), s14, s14, steps)
  <2>1. \A w \in World : In(World, p15)[w] = IF w \in World THEN All("wall") ELSE <<>>
    BY <1>1 DEF In
  <2>2. "wall" \in CallKinds \ Joined
    BY DEF CallKinds, TaskKinds, Compared, Joined
  <2>3. \A w \in World : In(World, p15)[w] = All("wall")
    BY <2>1
  <2> QED BY <2>2, <2>3, AllIsSilent
<1>19. Leads(In(World, p16), s14, s14, steps)
  <2>1. \A w \in World : In(World, p16)[w] = IF w \in World THEN Pipe(w, "batches") ELSE <<>>
    BY <1>1 DEF In
  <2> QED BY <1>0, <2>1, PipeIsSilent
<1>20. Leads(In(World, p17), s14, s17, steps)
  <2>1. \A w \in World : In(World, p17)[w] = IF w \in World THEN FlattenSeq(Times(Batches(w), Batch(w, FALSE))) ELSE <<>>
    BY <1>1 DEF In
  <2>2. \A w \in World : In(World, p17)[w] = FlattenSeq(Times(Batches(w), Batch(w, FALSE)))
    BY <2>1
  <2>3. Leads([w \in World |-> FlattenSeq(Times(Batches(w), Batch(w, FALSE)))], s14, s17, steps)
    BY <1>3
  <2>4. \A w \in World : [v \in World |-> FlattenSeq(Times(Batches(v), Batch(v, FALSE)))][w] = In(World, p17)[w]
    BY <2>2
  <2> QED BY <2>3, <2>4, LeadsSame
<1>21. Leads(In(World, p18), s17, s18, steps)
  <2>1. \A w \in World : In(World, p18)[w] = IF w \in World THEN All("gather") ELSE <<>>
    BY <1>1 DEF In
  <2>2. \A w \in World : In(World, p18)[w] = All("gather")
    BY <2>1
  <2>3. \A w \in World : ~s17[w].loaded /\ s17[w].batch = B[w] /\ s17[w].answers = X[w]
    <3> TAKE w \in World
    <3>1. s17[w] = Between(B[w], X[w])
      BY <1>3 DEF Resting
    <3> QED BY <3>1, BetweenFields
  <2>4. \A w \in World : ~s18[w].loaded /\ s18[w].batch = B[w] /\ s18[w].answers = Y[w]
    <3> TAKE w \in World
    <3>1. s18[w] = Between(B[w], Y[w])
      BY <1>3 DEF Resting
    <3> QED BY <3>1, BetweenFields
  <2>5. \A w \in World : Y[w] = IF w = 0 THEN UNION {s17[u].answers : u \in World} ELSE s17[w].answers
    <3>1. UNION {s17[u].answers : u \in World} = UNION {X[u] : u \in World}
      BY <2>3
    <3> QED BY <2>3, <3>1
  <2> QED BY <2>2, <2>3, <2>4, <2>5, GatherLeads
<1>22. Leads(In(World, p19), s18, s18, steps)
  <2>1. \A w \in World : In(World, p19)[w] = IF w \in World THEN When(w = 0, <<Alone("score", 0)>>) ELSE <<>>
    BY <1>1 DEF In
  <2>2. "score" \in TaskKinds \ ({"load", "loss", "backward", "update"} \cup Compared)
    BY DEF TaskKinds, Compared
  <2>3. \A w \in World : In(World, p19)[w] = <<>> \/ In(World, p19)[w] = <<Alone("score", 0)>>
    BY <2>1 DEF When
  <2> QED BY <2>2, <2>3, AloneIsSilent
<1>23. Leads(In(World, p20), s18, s18, steps)
  <2>1. \A w \in World : In(World, p20)[w] = IF w \in World THEN All("scores") ELSE <<>>
    BY <1>1 DEF In
  <2>2. "scores" \in CallKinds \ Joined
    BY DEF CallKinds, TaskKinds, Compared, Joined
  <2>3. \A w \in World : In(World, p20)[w] = All("scores")
    BY <2>1
  <2> QED BY <2>2, <2>3, AllIsSilent
<1>24. Leads(In(World, r2), s0, s0, steps)
  <2>1. \A w \in World : r2[w] = p1[w] \o p2[w]
    BY <1>0, <1>2
  <2> QED BY <1>4, <1>5, <2>1, LeadsThen
<1>25. Leads(In(World, r3), s0, s0, steps)
  <2>1. \A w \in World : r3[w] = r2[w] \o p3[w]
    BY <1>0, <1>2
  <2> QED BY <1>24, <1>6, <2>1, LeadsThen
<1>26. Leads(In(World, r4), s0, s0, steps)
  <2>1. \A w \in World : r4[w] = r3[w] \o p4[w]
    BY <1>0, <1>2
  <2> QED BY <1>25, <1>7, <2>1, LeadsThen
<1>27. Leads(In(World, r5), s0, s0, steps)
  <2>1. \A w \in World : r5[w] = r4[w] \o p5[w]
    BY <1>0, <1>2
  <2> QED BY <1>26, <1>8, <2>1, LeadsThen
<1>28. Leads(In(World, r6), s0, s0, steps)
  <2>1. \A w \in World : r6[w] = r5[w] \o p6[w]
    BY <1>0, <1>2
  <2> QED BY <1>27, <1>9, <2>1, LeadsThen
<1>29. Leads(In(World, r7), s0, s0, steps)
  <2>1. \A w \in World : r7[w] = r6[w] \o p7[w]
    BY <1>0, <1>2
  <2> QED BY <1>28, <1>10, <2>1, LeadsThen
<1>30. Leads(In(World, r8), s0, s0, steps)
  <2>1. \A w \in World : r8[w] = r7[w] \o p8[w]
    BY <1>0, <1>2
  <2> QED BY <1>29, <1>11, <2>1, LeadsThen
<1>31. Leads(In(World, r9), s0, s0, steps)
  <2>1. \A w \in World : r9[w] = r8[w] \o p9[w]
    BY <1>0, <1>2
  <2> QED BY <1>30, <1>12, <2>1, LeadsThen
<1>32. Leads(In(World, r10), s0, s0, steps)
  <2>1. \A w \in World : r10[w] = r9[w] \o p10[w]
    BY <1>0, <1>2
  <2> QED BY <1>31, <1>13, <2>1, LeadsThen
<1>33. Leads(In(World, r11), s0, s0, steps)
  <2>1. \A w \in World : r11[w] = r10[w] \o p11[w]
    BY <1>0, <1>2
  <2> QED BY <1>32, <1>14, <2>1, LeadsThen
<1>34. Leads(In(World, r12), s0, s0, steps)
  <2>1. \A w \in World : r12[w] = r11[w] \o p12[w]
    BY <1>0, <1>2
  <2> QED BY <1>33, <1>15, <2>1, LeadsThen
<1>35. Leads(In(World, r13), s0, s0, steps)
  <2>1. \A w \in World : r13[w] = r12[w] \o p13[w]
    BY <1>0, <1>2
  <2> QED BY <1>34, <1>16, <2>1, LeadsThen
<1>36. Leads(In(World, r14), s0, s14, steps)
  <2>1. \A w \in World : r14[w] = r13[w] \o p14[w]
    BY <1>0, <1>2
  <2> QED BY <1>35, <1>17, <2>1, LeadsThen
<1>37. Leads(In(World, r15), s0, s14, steps)
  <2>1. \A w \in World : r15[w] = r14[w] \o p15[w]
    BY <1>0, <1>2
  <2> QED BY <1>36, <1>18, <2>1, LeadsThen
<1>38. Leads(In(World, r16), s0, s14, steps)
  <2>1. \A w \in World : r16[w] = r15[w] \o p16[w]
    BY <1>0, <1>2
  <2> QED BY <1>37, <1>19, <2>1, LeadsThen
<1>39. Leads(In(World, r17), s0, s17, steps)
  <2>1. \A w \in World : r17[w] = r16[w] \o p17[w]
    BY <1>0, <1>2
  <2> QED BY <1>38, <1>20, <2>1, LeadsThen
<1>40. Leads(In(World, r18), s0, s18, steps)
  <2>1. \A w \in World : r18[w] = r17[w] \o p18[w]
    BY <1>0, <1>2
  <2> QED BY <1>39, <1>21, <2>1, LeadsThen
<1>41. Leads(In(World, r19), s0, s18, steps)
  <2>1. \A w \in World : r19[w] = r18[w] \o p19[w]
    BY <1>0, <1>2
  <2> QED BY <1>40, <1>22, <2>1, LeadsThen
<1>42. Leads(In(World, r20), s0, s18, steps)
  <2>1. \A w \in World : r20[w] = r19[w] \o p20[w]
    BY <1>0, <1>2
  <2> QED BY <1>41, <1>23, <2>1, LeadsThen
<1>43. ASSUME NEW w \in World PROVE r20[w] = QAProgram(w, n)
  <2>1. r20[w] = ((((((((((((((((((p1[w] \o p2[w]) \o p3[w]) \o p4[w]) \o p5[w]) \o p6[w]) \o p7[w]) \o p8[w]) \o p9[w]) \o p10[w]) \o p11[w]) \o p12[w]) \o p13[w]) \o p14[w]) \o p15[w]) \o p16[w]) \o p17[w]) \o p18[w]) \o p19[w]) \o p20[w]
    <3>2. r2[w] = p1[w] \o p2[w]
      BY <1>2
    <3>3. r3[w] = (p1[w] \o p2[w]) \o p3[w]
      <4>1. r3[w] = r2[w] \o p3[w]
        BY <1>2
      <4> QED BY <3>2, <4>1, Zenon
    <3>4. r4[w] = ((p1[w] \o p2[w]) \o p3[w]) \o p4[w]
      <4>1. r4[w] = r3[w] \o p4[w]
        BY <1>2
      <4> QED BY <3>3, <4>1, Zenon
    <3>5. r5[w] = (((p1[w] \o p2[w]) \o p3[w]) \o p4[w]) \o p5[w]
      <4>1. r5[w] = r4[w] \o p5[w]
        BY <1>2
      <4> QED BY <3>4, <4>1, Zenon
    <3>6. r6[w] = ((((p1[w] \o p2[w]) \o p3[w]) \o p4[w]) \o p5[w]) \o p6[w]
      <4>1. r6[w] = r5[w] \o p6[w]
        BY <1>2
      <4> QED BY <3>5, <4>1, Zenon
    <3>7. r7[w] = (((((p1[w] \o p2[w]) \o p3[w]) \o p4[w]) \o p5[w]) \o p6[w]) \o p7[w]
      <4>1. r7[w] = r6[w] \o p7[w]
        BY <1>2
      <4> QED BY <3>6, <4>1, Zenon
    <3>8. r8[w] = ((((((p1[w] \o p2[w]) \o p3[w]) \o p4[w]) \o p5[w]) \o p6[w]) \o p7[w]) \o p8[w]
      <4>1. r8[w] = r7[w] \o p8[w]
        BY <1>2
      <4> QED BY <3>7, <4>1, Zenon
    <3>9. r9[w] = (((((((p1[w] \o p2[w]) \o p3[w]) \o p4[w]) \o p5[w]) \o p6[w]) \o p7[w]) \o p8[w]) \o p9[w]
      <4>1. r9[w] = r8[w] \o p9[w]
        BY <1>2
      <4> QED BY <3>8, <4>1, Zenon
    <3>10. r10[w] = ((((((((p1[w] \o p2[w]) \o p3[w]) \o p4[w]) \o p5[w]) \o p6[w]) \o p7[w]) \o p8[w]) \o p9[w]) \o p10[w]
      <4>1. r10[w] = r9[w] \o p10[w]
        BY <1>2
      <4> QED BY <3>9, <4>1, Zenon
    <3>11. r11[w] = (((((((((p1[w] \o p2[w]) \o p3[w]) \o p4[w]) \o p5[w]) \o p6[w]) \o p7[w]) \o p8[w]) \o p9[w]) \o p10[w]) \o p11[w]
      <4>1. r11[w] = r10[w] \o p11[w]
        BY <1>2
      <4> QED BY <3>10, <4>1, Zenon
    <3>12. r12[w] = ((((((((((p1[w] \o p2[w]) \o p3[w]) \o p4[w]) \o p5[w]) \o p6[w]) \o p7[w]) \o p8[w]) \o p9[w]) \o p10[w]) \o p11[w]) \o p12[w]
      <4>1. r12[w] = r11[w] \o p12[w]
        BY <1>2
      <4> QED BY <3>11, <4>1, Zenon
    <3>13. r13[w] = (((((((((((p1[w] \o p2[w]) \o p3[w]) \o p4[w]) \o p5[w]) \o p6[w]) \o p7[w]) \o p8[w]) \o p9[w]) \o p10[w]) \o p11[w]) \o p12[w]) \o p13[w]
      <4>1. r13[w] = r12[w] \o p13[w]
        BY <1>2
      <4> QED BY <3>12, <4>1, Zenon
    <3>14. r14[w] = ((((((((((((p1[w] \o p2[w]) \o p3[w]) \o p4[w]) \o p5[w]) \o p6[w]) \o p7[w]) \o p8[w]) \o p9[w]) \o p10[w]) \o p11[w]) \o p12[w]) \o p13[w]) \o p14[w]
      <4>1. r14[w] = r13[w] \o p14[w]
        BY <1>2
      <4> QED BY <3>13, <4>1, Zenon
    <3>15. r15[w] = (((((((((((((p1[w] \o p2[w]) \o p3[w]) \o p4[w]) \o p5[w]) \o p6[w]) \o p7[w]) \o p8[w]) \o p9[w]) \o p10[w]) \o p11[w]) \o p12[w]) \o p13[w]) \o p14[w]) \o p15[w]
      <4>1. r15[w] = r14[w] \o p15[w]
        BY <1>2
      <4> QED BY <3>14, <4>1, Zenon
    <3>16. r16[w] = ((((((((((((((p1[w] \o p2[w]) \o p3[w]) \o p4[w]) \o p5[w]) \o p6[w]) \o p7[w]) \o p8[w]) \o p9[w]) \o p10[w]) \o p11[w]) \o p12[w]) \o p13[w]) \o p14[w]) \o p15[w]) \o p16[w]
      <4>1. r16[w] = r15[w] \o p16[w]
        BY <1>2
      <4> QED BY <3>15, <4>1, Zenon
    <3>17. r17[w] = (((((((((((((((p1[w] \o p2[w]) \o p3[w]) \o p4[w]) \o p5[w]) \o p6[w]) \o p7[w]) \o p8[w]) \o p9[w]) \o p10[w]) \o p11[w]) \o p12[w]) \o p13[w]) \o p14[w]) \o p15[w]) \o p16[w]) \o p17[w]
      <4>1. r17[w] = r16[w] \o p17[w]
        BY <1>2
      <4> QED BY <3>16, <4>1, Zenon
    <3>18. r18[w] = ((((((((((((((((p1[w] \o p2[w]) \o p3[w]) \o p4[w]) \o p5[w]) \o p6[w]) \o p7[w]) \o p8[w]) \o p9[w]) \o p10[w]) \o p11[w]) \o p12[w]) \o p13[w]) \o p14[w]) \o p15[w]) \o p16[w]) \o p17[w]) \o p18[w]
      <4>1. r18[w] = r17[w] \o p18[w]
        BY <1>2
      <4> QED BY <3>17, <4>1, Zenon
    <3>19. r19[w] = (((((((((((((((((p1[w] \o p2[w]) \o p3[w]) \o p4[w]) \o p5[w]) \o p6[w]) \o p7[w]) \o p8[w]) \o p9[w]) \o p10[w]) \o p11[w]) \o p12[w]) \o p13[w]) \o p14[w]) \o p15[w]) \o p16[w]) \o p17[w]) \o p18[w]) \o p19[w]
      <4>1. r19[w] = r18[w] \o p19[w]
        BY <1>2
      <4> QED BY <3>18, <4>1, Zenon
    <3>20. r20[w] = ((((((((((((((((((p1[w] \o p2[w]) \o p3[w]) \o p4[w]) \o p5[w]) \o p6[w]) \o p7[w]) \o p8[w]) \o p9[w]) \o p10[w]) \o p11[w]) \o p12[w]) \o p13[w]) \o p14[w]) \o p15[w]) \o p16[w]) \o p17[w]) \o p18[w]) \o p19[w]) \o p20[w]
      <4>1. r20[w] = r19[w] \o p20[w]
        BY <1>2
      <4> QED BY <3>19, <4>1, Zenon
    <3> QED BY <3>20
  <2>2. QAProgram(w, n) = ((((((((((((((((((p1[w] \o p2[w]) \o p3[w]) \o p4[w]) \o p5[w]) \o p6[w]) \o p7[w]) \o p8[w]) \o p9[w]) \o p10[w]) \o p11[w]) \o p12[w]) \o p13[w]) \o p14[w]) \o p15[w]) \o p16[w]) \o p17[w]) \o p18[w]) \o p19[w]) \o p20[w]
    BY <1>1, Zenon DEF QAProgram
  <2> QED BY <2>1, <2>2
<1>44. \A w \in World : In(World, r20)[w] = [v \in World |-> QAProgram(v, n)][w]
  BY <1>43 DEF In
<1>45. Leads([v \in World |-> QAProgram(v, n)], s0, s18, steps)
  BY <1>42, <1>44, LeadsSame
<1> QED BY <1>3, <1>45

LEMMA QAProgramLeads ==
  ASSUME job \in Jobs, job.task = "qa", NEW n \in Nat
  PROVE  \E F : /\ Leads([v \in World |-> QAProgram(v, n)], [w \in World |-> Between(0, {})], F, n)
                /\ F[0].answers = 0 .. job.validation - 1
<1> DEFINE X == [w \in World |-> TakenAnswers(w, job.validation)]
           Y == [w \in World |-> IF w = 0 THEN UNION {X[u] : u \in World} ELSE X[w]]
           P == [w \in World |-> FlattenSeq(Times(Batches(w), Batch(w, FALSE)))]
<1>1. \A w \in World : P[w] = FlattenSeq(Times(Batches(w), Batch(w, FALSE)))
  OBVIOUS
<1>2. X = [w \in World |-> TakenAnswers(w, job.validation)]
  OBVIOUS
<1>3. \A w \in World : Y[w] = IF w = 0 THEN UNION {X[u] : u \in World} ELSE X[w]
  OBVIOUS
<1>4. UNION {X[u] : u \in World} = UNION {TakenAnswers(u, job.validation) : u \in World}
  OBVIOUS
<1>5. P = [w \in World |-> FlattenSeq(Times(Batches(w), Batch(w, FALSE)))]
  OBVIOUS
<1> HIDE DEF X, Y, P
<1>6. PICK B : Leads(P, [w \in World |-> Between(n, {})], Resting(B, X), n)
  BY <1>1, <1>2, QAValidationLeads
<1>7. Leads([v \in World |-> QAProgram(v, n)], [w \in World |-> Between(0, {})], Resting(B, Y), n)
  BY <1>3, <1>5, <1>6, QAProgramGoes
<1>8. 0 \in World
  BY WorldRanks
<1>9. Resting(B, Y)[0].answers = Y[0]
  <2>1. Resting(B, Y)[0] = Between(B[0], Y[0])
    BY <1>8 DEF Resting
  <2> QED BY <2>1, BetweenFields
<1>10. Y[0] = 0 .. job.validation - 1
  BY <1>3, <1>4, <1>8, AnswersAreWhole
<1> QED BY <1>7, <1>9, <1>10

\* The mt5 runner.
LEMMA MT5ProgramLeads ==
  ASSUME job \in Jobs, job.task = "mt5", NEW steps, NEW n \in Nat, NEW resume
  PROVE  Leads([v \in World |-> MT5Program(v, resume, n)], [w \in World |-> Between(0, {})],
               [w \in World |-> Between(n + job.validation, {})], steps)
<1> DEFINE p1 == [w \in World |-> <<Alone("device", 0)>>]
           p2 == [w \in World |-> All("join")]
           p3 == [w \in World |-> All("layout")]
           p4 == [w \in World |-> All("groups")]
           p5 == [w \in World |-> When(First(w), <<Alone("data", 0)>>)]
           p6 == [w \in World |-> When(resume, <<Alone("load_checkpoint", 0)>>)]
           p7 == [w \in World |-> All("signature")]
           p8 == [w \in World |-> All("run_id")]
           p9 == [w \in World |-> FlattenSeq(Times(n, TrainingStep(w)))]
           p10 == [w \in World |-> Pipe(w, "batches")]
           p11 == [w \in World |-> FlattenSeq(Times(Batches(w), Batch(w, FALSE)))]
           p12 == [w \in World |-> <<Alone("save", 0)>>]
           p13 == [w \in World |-> All("barrier")]
           r2 == [w \in World |-> p1[w] \o p2[w]]
           r3 == [w \in World |-> r2[w] \o p3[w]]
           r4 == [w \in World |-> r3[w] \o p4[w]]
           r5 == [w \in World |-> r4[w] \o p5[w]]
           r6 == [w \in World |-> r5[w] \o p6[w]]
           r7 == [w \in World |-> r6[w] \o p7[w]]
           r8 == [w \in World |-> r7[w] \o p8[w]]
           r9 == [w \in World |-> r8[w] \o p9[w]]
           r10 == [w \in World |-> r9[w] \o p10[w]]
           r11 == [w \in World |-> r10[w] \o p11[w]]
           r12 == [w \in World |-> r11[w] \o p12[w]]
           r13 == [w \in World |-> r12[w] \o p13[w]]
           s0 == [w \in World |-> Between(0, {})]
           s9 == [w \in World |-> Between(n, {})]
           s11 == [w \in World |-> Between(n + job.validation, {})]
<1>1. /\ \A w \in World : p1[w] = <<Alone("device", 0)>>
      /\ \A w \in World : p2[w] = All("join")
      /\ \A w \in World : p3[w] = All("layout")
      /\ \A w \in World : p4[w] = All("groups")
      /\ \A w \in World : p5[w] = When(First(w), <<Alone("data", 0)>>)
      /\ \A w \in World : p6[w] = When(resume, <<Alone("load_checkpoint", 0)>>)
      /\ \A w \in World : p7[w] = All("signature")
      /\ \A w \in World : p8[w] = All("run_id")
      /\ \A w \in World : p9[w] = FlattenSeq(Times(n, TrainingStep(w)))
      /\ \A w \in World : p10[w] = Pipe(w, "batches")
      /\ \A w \in World : p11[w] = FlattenSeq(Times(Batches(w), Batch(w, FALSE)))
      /\ \A w \in World : p12[w] = <<Alone("save", 0)>>
      /\ \A w \in World : p13[w] = All("barrier")
  OBVIOUS
<1>2. /\ \A w \in World : r2[w] = p1[w] \o p2[w]
      /\ \A w \in World : r3[w] = r2[w] \o p3[w]
      /\ \A w \in World : r4[w] = r3[w] \o p4[w]
      /\ \A w \in World : r5[w] = r4[w] \o p5[w]
      /\ \A w \in World : r6[w] = r5[w] \o p6[w]
      /\ \A w \in World : r7[w] = r6[w] \o p7[w]
      /\ \A w \in World : r8[w] = r7[w] \o p8[w]
      /\ \A w \in World : r9[w] = r8[w] \o p9[w]
      /\ \A w \in World : r10[w] = r9[w] \o p10[w]
      /\ \A w \in World : r11[w] = r10[w] \o p11[w]
      /\ \A w \in World : r12[w] = r11[w] \o p12[w]
      /\ \A w \in World : r13[w] = r12[w] \o p13[w]
  OBVIOUS
<1>3. /\ s0 = [w \in World |-> Between(0, {})]
      /\ s9 = [w \in World |-> Between(n, {})]
      /\ s11 = [w \in World |-> Between(n + job.validation, {})]
  OBVIOUS
<1> HIDE DEF p1, p2, p3, p4, p5, p6, p7, p8, p9, p10, p11, p12, p13, r2, r3, r4, r5, r6, r7, r8, r9, r10, r11, r12, r13, s0, s9, s11
<1>0. Closed(World)
  BY Groups DEF Closed
<1>4. Leads(In(World, p1), s0, s0, steps)
  <2>1. \A w \in World : In(World, p1)[w] = IF w \in World THEN <<Alone("device", 0)>> ELSE <<>>
    BY <1>1 DEF In
  <2>2. "device" \in TaskKinds \ ({"load", "loss", "backward", "update"} \cup Compared)
    BY DEF TaskKinds, Compared
  <2>3. \A w \in World : In(World, p1)[w] = <<>> \/ In(World, p1)[w] = <<Alone("device", 0)>>
    BY <2>1
  <2> QED BY <2>2, <2>3, AloneIsSilent
<1>5. Leads(In(World, p2), s0, s0, steps)
  <2>1. \A w \in World : In(World, p2)[w] = IF w \in World THEN All("join") ELSE <<>>
    BY <1>1 DEF In
  <2>2. "join" \in CallKinds \ Joined
    BY DEF CallKinds, TaskKinds, Compared, Joined
  <2>3. \A w \in World : In(World, p2)[w] = All("join")
    BY <2>1
  <2> QED BY <2>2, <2>3, AllIsSilent
<1>6. Leads(In(World, p3), s0, s0, steps)
  <2>1. \A w \in World : In(World, p3)[w] = IF w \in World THEN All("layout") ELSE <<>>
    BY <1>1 DEF In
  <2>2. "layout" \in CallKinds \ Joined
    BY DEF CallKinds, TaskKinds, Compared, Joined
  <2>3. \A w \in World : In(World, p3)[w] = All("layout")
    BY <2>1
  <2> QED BY <2>2, <2>3, AllIsSilent
<1>7. Leads(In(World, p4), s0, s0, steps)
  <2>1. \A w \in World : In(World, p4)[w] = IF w \in World THEN All("groups") ELSE <<>>
    BY <1>1 DEF In
  <2>2. "groups" \in CallKinds \ Joined
    BY DEF CallKinds, TaskKinds, Compared, Joined
  <2>3. \A w \in World : In(World, p4)[w] = All("groups")
    BY <2>1
  <2> QED BY <2>2, <2>3, AllIsSilent
<1>8. Leads(In(World, p5), s0, s0, steps)
  <2>1. \A w \in World : In(World, p5)[w] = IF w \in World THEN When(First(w), <<Alone("data", 0)>>) ELSE <<>>
    BY <1>1 DEF In
  <2>2. "data" \in TaskKinds \ ({"load", "loss", "backward", "update"} \cup Compared)
    BY DEF TaskKinds, Compared
  <2>3. \A w \in World : In(World, p5)[w] = <<>> \/ In(World, p5)[w] = <<Alone("data", 0)>>
    BY <2>1 DEF When
  <2> QED BY <2>2, <2>3, AloneIsSilent
<1>9. Leads(In(World, p6), s0, s0, steps)
  <2>1. \A w \in World : In(World, p6)[w] = IF w \in World THEN When(resume, <<Alone("load_checkpoint", 0)>>) ELSE <<>>
    BY <1>1 DEF In
  <2>2. "load_checkpoint" \in TaskKinds \ ({"load", "loss", "backward", "update"} \cup Compared)
    BY DEF TaskKinds, Compared
  <2>3. \A w \in World : In(World, p6)[w] = <<>> \/ In(World, p6)[w] = <<Alone("load_checkpoint", 0)>>
    BY <2>1 DEF When
  <2> QED BY <2>2, <2>3, AloneIsSilent
<1>10. Leads(In(World, p7), s0, s0, steps)
  <2>1. \A w \in World : In(World, p7)[w] = IF w \in World THEN All("signature") ELSE <<>>
    BY <1>1 DEF In
  <2>2. "signature" \in CallKinds \ Joined
    BY DEF CallKinds, TaskKinds, Compared, Joined
  <2>3. \A w \in World : In(World, p7)[w] = All("signature")
    BY <2>1
  <2> QED BY <2>2, <2>3, AllIsSilent
<1>11. Leads(In(World, p8), s0, s0, steps)
  <2>1. \A w \in World : In(World, p8)[w] = IF w \in World THEN All("run_id") ELSE <<>>
    BY <1>1 DEF In
  <2>2. "run_id" \in CallKinds \ Joined
    BY DEF CallKinds, TaskKinds, Compared, Joined
  <2>3. \A w \in World : In(World, p8)[w] = All("run_id")
    BY <2>1
  <2> QED BY <2>2, <2>3, AllIsSilent
<1>12. Leads(In(World, p9), s0, s9, steps)
  <2>1. \A w \in World : In(World, p9)[w] = IF w \in World THEN FlattenSeq(Times(n, TrainingStep(w))) ELSE <<>>
    BY <1>1 DEF In
  <2>2. \A w \in World : In(World, p9)[w] = FlattenSeq(Times(n, TrainingStep(w)))
    BY <2>1
  <2> QED BY <1>3, <2>2, TrainingFromNothing
<1>13. Leads(In(World, p10), s9, s9, steps)
  <2>1. \A w \in World : In(World, p10)[w] = IF w \in World THEN Pipe(w, "batches") ELSE <<>>
    BY <1>1 DEF In
  <2> QED BY <1>0, <2>1, PipeIsSilent
<1>14. Leads(In(World, p11), s9, s11, steps)
  <2>1. \A w \in World : In(World, p11)[w] = IF w \in World THEN FlattenSeq(Times(Batches(w), Batch(w, FALSE))) ELSE <<>>
    BY <1>1 DEF In
  <2>2. \A w \in World : In(World, p11)[w] = FlattenSeq(Times(Batches(w), Batch(w, FALSE)))
    BY <2>1
  <2>3. Leads(In(World, p11), [w \in World |-> Between(n, {})], [w \in World |-> Between(n + job.validation, {})], steps)
    BY <2>2, MT5ValidationLeads
  <2> QED BY <1>3, <2>3
<1>15. Leads(In(World, p12), s11, s11, steps)
  <2>1. \A w \in World : In(World, p12)[w] = IF w \in World THEN <<Alone("save", 0)>> ELSE <<>>
    BY <1>1 DEF In
  <2>2. "save" \in TaskKinds \ ({"load", "loss", "backward", "update"} \cup Compared)
    BY DEF TaskKinds, Compared
  <2>3. \A w \in World : In(World, p12)[w] = <<>> \/ In(World, p12)[w] = <<Alone("save", 0)>>
    BY <2>1
  <2> QED BY <2>2, <2>3, AloneIsSilent
<1>16. Leads(In(World, p13), s11, s11, steps)
  <2>1. \A w \in World : In(World, p13)[w] = IF w \in World THEN All("barrier") ELSE <<>>
    BY <1>1 DEF In
  <2>2. "barrier" \in CallKinds \ Joined
    BY DEF CallKinds, TaskKinds, Compared, Joined
  <2>3. \A w \in World : In(World, p13)[w] = All("barrier")
    BY <2>1
  <2> QED BY <2>2, <2>3, AllIsSilent
<1>17. Leads(In(World, r2), s0, s0, steps)
  <2>1. \A w \in World : r2[w] = p1[w] \o p2[w]
    BY <1>0, <1>2
  <2> QED BY <1>4, <1>5, <2>1, LeadsThen
<1>18. Leads(In(World, r3), s0, s0, steps)
  <2>1. \A w \in World : r3[w] = r2[w] \o p3[w]
    BY <1>0, <1>2
  <2> QED BY <1>17, <1>6, <2>1, LeadsThen
<1>19. Leads(In(World, r4), s0, s0, steps)
  <2>1. \A w \in World : r4[w] = r3[w] \o p4[w]
    BY <1>0, <1>2
  <2> QED BY <1>18, <1>7, <2>1, LeadsThen
<1>20. Leads(In(World, r5), s0, s0, steps)
  <2>1. \A w \in World : r5[w] = r4[w] \o p5[w]
    BY <1>0, <1>2
  <2> QED BY <1>19, <1>8, <2>1, LeadsThen
<1>21. Leads(In(World, r6), s0, s0, steps)
  <2>1. \A w \in World : r6[w] = r5[w] \o p6[w]
    BY <1>0, <1>2
  <2> QED BY <1>20, <1>9, <2>1, LeadsThen
<1>22. Leads(In(World, r7), s0, s0, steps)
  <2>1. \A w \in World : r7[w] = r6[w] \o p7[w]
    BY <1>0, <1>2
  <2> QED BY <1>21, <1>10, <2>1, LeadsThen
<1>23. Leads(In(World, r8), s0, s0, steps)
  <2>1. \A w \in World : r8[w] = r7[w] \o p8[w]
    BY <1>0, <1>2
  <2> QED BY <1>22, <1>11, <2>1, LeadsThen
<1>24. Leads(In(World, r9), s0, s9, steps)
  <2>1. \A w \in World : r9[w] = r8[w] \o p9[w]
    BY <1>0, <1>2
  <2> QED BY <1>23, <1>12, <2>1, LeadsThen
<1>25. Leads(In(World, r10), s0, s9, steps)
  <2>1. \A w \in World : r10[w] = r9[w] \o p10[w]
    BY <1>0, <1>2
  <2> QED BY <1>24, <1>13, <2>1, LeadsThen
<1>26. Leads(In(World, r11), s0, s11, steps)
  <2>1. \A w \in World : r11[w] = r10[w] \o p11[w]
    BY <1>0, <1>2
  <2> QED BY <1>25, <1>14, <2>1, LeadsThen
<1>27. Leads(In(World, r12), s0, s11, steps)
  <2>1. \A w \in World : r12[w] = r11[w] \o p12[w]
    BY <1>0, <1>2
  <2> QED BY <1>26, <1>15, <2>1, LeadsThen
<1>28. Leads(In(World, r13), s0, s11, steps)
  <2>1. \A w \in World : r13[w] = r12[w] \o p13[w]
    BY <1>0, <1>2
  <2> QED BY <1>27, <1>16, <2>1, LeadsThen
<1>29. ASSUME NEW w \in World PROVE r13[w] = MT5Program(w, resume, n)
  <2>1. r13[w] = (((((((((((p1[w] \o p2[w]) \o p3[w]) \o p4[w]) \o p5[w]) \o p6[w]) \o p7[w]) \o p8[w]) \o p9[w]) \o p10[w]) \o p11[w]) \o p12[w]) \o p13[w]
    <3>2. r2[w] = p1[w] \o p2[w]
      BY <1>2, Zenon
    <3>3. r3[w] = (p1[w] \o p2[w]) \o p3[w]
      BY <1>2, <3>2, Zenon
    <3>4. r4[w] = ((p1[w] \o p2[w]) \o p3[w]) \o p4[w]
      BY <1>2, <3>3, Zenon
    <3>5. r5[w] = (((p1[w] \o p2[w]) \o p3[w]) \o p4[w]) \o p5[w]
      BY <1>2, <3>4, Zenon
    <3>6. r6[w] = ((((p1[w] \o p2[w]) \o p3[w]) \o p4[w]) \o p5[w]) \o p6[w]
      BY <1>2, <3>5, Zenon
    <3>7. r7[w] = (((((p1[w] \o p2[w]) \o p3[w]) \o p4[w]) \o p5[w]) \o p6[w]) \o p7[w]
      BY <1>2, <3>6, Zenon
    <3>8. r8[w] = ((((((p1[w] \o p2[w]) \o p3[w]) \o p4[w]) \o p5[w]) \o p6[w]) \o p7[w]) \o p8[w]
      BY <1>2, <3>7, Zenon
    <3>9. r9[w] = (((((((p1[w] \o p2[w]) \o p3[w]) \o p4[w]) \o p5[w]) \o p6[w]) \o p7[w]) \o p8[w]) \o p9[w]
      BY <1>2, <3>8, Zenon
    <3>10. r10[w] = ((((((((p1[w] \o p2[w]) \o p3[w]) \o p4[w]) \o p5[w]) \o p6[w]) \o p7[w]) \o p8[w]) \o p9[w]) \o p10[w]
      BY <1>2, <3>9, Zenon
    <3>11. r11[w] = (((((((((p1[w] \o p2[w]) \o p3[w]) \o p4[w]) \o p5[w]) \o p6[w]) \o p7[w]) \o p8[w]) \o p9[w]) \o p10[w]) \o p11[w]
      BY <1>2, <3>10, Zenon
    <3>12. r12[w] = ((((((((((p1[w] \o p2[w]) \o p3[w]) \o p4[w]) \o p5[w]) \o p6[w]) \o p7[w]) \o p8[w]) \o p9[w]) \o p10[w]) \o p11[w]) \o p12[w]
      BY <1>2, <3>11, Zenon
    <3>13. r13[w] = (((((((((((p1[w] \o p2[w]) \o p3[w]) \o p4[w]) \o p5[w]) \o p6[w]) \o p7[w]) \o p8[w]) \o p9[w]) \o p10[w]) \o p11[w]) \o p12[w]) \o p13[w]
      BY <1>2, <3>12, Zenon
    <3> QED BY <3>13
  <2>2. MT5Program(w, resume, n) = (((((((((((p1[w] \o p2[w]) \o p3[w]) \o p4[w]) \o p5[w]) \o p6[w]) \o p7[w]) \o p8[w]) \o p9[w]) \o p10[w]) \o p11[w]) \o p12[w]) \o p13[w]
    BY <1>1, Zenon DEF MT5Program
  <2> QED BY <2>1, <2>2
<1>30. \A w \in World : In(World, r13)[w] = [v \in World |-> MT5Program(v, resume, n)][w]
  BY <1>29 DEF In
<1>31. Leads([v \in World |-> MT5Program(v, resume, n)], s0, s11, steps)
  BY <1>28, <1>30, LeadsSame
<1> QED BY <1>3, <1>31

------------------------------------------------------------------------------
(* Following a schedule.  Rank w has come to moment now[w] of schedule z: a  *)
(* rank that waits may be behind others, but meetings and transfers keep     *)
(* ranks together.                                                           *)

\* The next moment after m in which w does something is t.
Next(z, w, m, t) == t \in m + 1 .. z.len /\ z.at[t][w] # <<>> /\ \A s \in m + 1 .. t - 1 : z.at[s][w] = <<>>
Due(z, steps, w, m, t) ==
  /\ Next(z, w, m, t)
  /\ z.note[t - 1][w] = z.note[m][w] /\ z.rest[t][w] = Tail(z.rest[m][w])
  /\ z.at[t][w] = <<Head(z.rest[m][w])>> /\ Head(z.rest[m][w]) \in TaskCalls
  /\ Makes(w, Head(z.rest[m][w]), z.at[t], z.note[t - 1], steps, z.note[t][w])

LEMMA IdleKeeps ==
  ASSUME NEW z, NEW steps, Scheduled(z, steps), NEW w \in World, NEW m \in 0 .. z.len, NEW t \in m .. z.len,
         \A s \in m + 1 .. t : z.at[s][w] = <<>>
  PROVE  z.rest[t][w] = z.rest[m][w] /\ z.note[t][w] = z.note[m][w]
<1> DEFINE Same(s) == z.rest[s][w] = z.rest[m][w] /\ z.note[s][w] = z.note[m][w]
           S == {s \in m .. t : ~Same(s)}
<1> SUFFICES ASSUME S # {} PROVE FALSE
  OBVIOUS
<1>0. z.len \in Nat /\ m \in Nat /\ t \in Nat
  BY DEF Scheduled
<1>1. PICK s \in S : \A x \in S : s <= x
  <2>1. S \in SUBSET Nat
    BY <1>0
  <2> QED BY <2>1, LeastOfSet
<1>2. s \in m .. t /\ ~Same(s)
  OBVIOUS
<1>3. s # m
  BY <1>2
<1>4. s \in m + 1 .. t /\ s \in 1 .. z.len /\ s - 1 \in m .. t /\ s - 1 < s
  BY <1>0, <1>2, <1>3
<1>5. Same(s - 1)
  BY <1>1, <1>4
<1>6. z.at[s][w] = <<>>
  BY <1>4
<1>7. Moment(z.at[s], z.note[s - 1], z.note[s], steps) /\ z.rest[s - 1][w] = z.at[s][w] \o z.rest[s][w]
  BY <1>4 DEF Scheduled
<1>8. z.rest[s][w] \in Seq(TaskCalls)
  BY <1>4 DEF Scheduled
<1>9. z.rest[s - 1][w] = z.rest[s][w]
  BY <1>6, <1>7, <1>8
<1>10. z.note[s][w] = z.note[s - 1][w]
  <2>1. Plays(w, z.at[s], z.note[s - 1], z.note[s], steps)
    BY <1>7 DEF Moment
  <2>2. \A c : <<c>> # <<>>
    OBVIOUS
  <2> QED BY <1>6, <2>1, <2>2 DEF Plays
<1> QED BY <1>2, <1>5, <1>9, <1>10

\* A rank that has calls to make is due,
LEMMA NextCall ==
  ASSUME NEW z, NEW steps, Scheduled(z, steps), NEW w \in World, NEW m \in 0 .. z.len, z.rest[m][w] # <<>>
  PROVE  \E t \in 1 .. z.len : Due(z, steps, w, m, t)
<1> DEFINE S == {t \in m + 1 .. z.len : z.at[t][w] # <<>>}
<1>0. z.len \in Nat /\ m \in Nat
  BY DEF Scheduled
<1>1. S # {}
  <2> SUFFICES ASSUME \A t \in m + 1 .. z.len : z.at[t][w] = <<>> PROVE FALSE
    OBVIOUS
  <2>1. z.len \in m .. z.len
    BY <1>0
  <2>2. z.rest[z.len][w] = z.rest[m][w]
    BY <2>1, IdleKeeps
  <2> QED BY <2>2 DEF Scheduled
<1>2. PICK t \in S : \A x \in S : t <= x
  <2>1. S \in SUBSET Nat
    BY <1>0
  <2> QED BY <1>1, <2>1, LeastOfSet
<1>3. t \in m + 1 .. z.len /\ t \in 1 .. z.len /\ t - 1 \in m .. z.len /\ z.at[t][w] # <<>>
  BY <1>0, <1>2
<1>4. \A s \in m + 1 .. t - 1 : z.at[s][w] = <<>>
  <2> TAKE s \in m + 1 .. t - 1
  <2>1. s \in m + 1 .. z.len /\ ~(t <= s)
    BY <1>0, <1>3
  <2> QED BY <1>2, <2>1
<1>5. z.rest[t - 1][w] = z.rest[m][w] /\ z.note[t - 1][w] = z.note[m][w]
  BY <1>3, <1>4, IdleKeeps
<1>6. Moment(z.at[t], z.note[t - 1], z.note[t], steps) /\ z.rest[t - 1][w] = z.at[t][w] \o z.rest[t][w]
  BY <1>3 DEF Scheduled
<1>7. z.rest[t][w] \in Seq(TaskCalls)
  BY <1>3 DEF Scheduled
<1>8. PICK c \in TaskCalls : z.at[t][w] = <<c>> /\ Makes(w, c, z.at[t], z.note[t - 1], steps, z.note[t][w])
  BY <1>3, <1>6 DEF Moment, Plays
<1>9. z.rest[m][w] = <<c>> \o z.rest[t][w]
  BY <1>5, <1>6, <1>8
<1>10. Head(z.rest[m][w]) = c /\ Tail(z.rest[m][w]) = z.rest[t][w]
  BY <1>7, <1>9
<1>11. Next(z, w, m, t)
  BY <1>3, <1>4 DEF Next
<1> QED BY <1>3, <1>5, <1>8, <1>10, <1>11 DEF Due

\* and one that has none to make has come to its last note.
LEMMA LastNote ==
  ASSUME NEW z, NEW steps, Scheduled(z, steps), NEW w \in World, NEW m \in 0 .. z.len, z.rest[m][w] = <<>>
  PROVE  z.note[z.len][w] = z.note[m][w]
<1> DEFINE S == {t \in m + 1 .. z.len : z.at[t][w] # <<>>}
<1>0. z.len \in Nat /\ m \in Nat /\ z.len \in m .. z.len
  BY DEF Scheduled
<1>1. CASE S = {}
  <2>1. \A t \in m + 1 .. z.len : z.at[t][w] = <<>>
    BY <1>1
  <2> QED BY <1>0, <2>1, IdleKeeps
<1>2. CASE S # {}
  <2>2. PICK t \in S : \A x \in S : t <= x
    <3>1. S \in SUBSET Nat
      BY <1>0
    <3> QED BY <1>2, <3>1, LeastOfSet
  <2>3. t \in m + 1 .. z.len /\ t \in 1 .. z.len /\ t - 1 \in m .. z.len /\ z.at[t][w] # <<>>
    BY <1>0, <2>2
  <2>4. \A s \in m + 1 .. t - 1 : z.at[s][w] = <<>>
    <3> TAKE s \in m + 1 .. t - 1
    <3>1. s \in m + 1 .. z.len /\ ~(t <= s)
      BY <1>0, <2>3
    <3> QED BY <2>2, <3>1
  <2>5. z.rest[t - 1][w] = <<>>
    BY <2>3, <2>4, IdleKeeps
  <2>6. Moment(z.at[t], z.note[t - 1], z.note[t], steps) /\ z.rest[t - 1][w] = z.at[t][w] \o z.rest[t][w]
    BY <2>3 DEF Scheduled
  <2>7. z.rest[t][w] \in Seq(TaskCalls)
    BY <2>3 DEF Scheduled
  <2>8. PICK c \in TaskCalls : z.at[t][w] = <<c>>
    BY <2>3, <2>6 DEF Moment, Plays
  <2>9. <<c>> \o z.rest[t][w] # <<>>
    BY <2>7
  <2> QED BY <2>5, <2>6, <2>8, <2>9
<1> QED BY <1>1, <1>2

\* In moment t of schedule z ranks u and v meet, or u sends to v.
Meets(z, t, u, v) == \E c : z.at[t][u] = <<c>> /\ z.at[t][v] = <<c>> /\ c.do = "meet" /\ v \in c.with
Carries(z, t, u, v) == \E what, i : z.at[t][u] = <<SendTo(v, what, i)>> /\ z.at[t][v] = <<RecvFrom(u, what, i)>>

\* Who meets has come there or not with all that do; who received has been sent to.
Clocks(z, now) ==
  /\ z.len \in Nat /\ \A w \in World : now[w] \in 0 .. z.len
  /\ \A u, v \in World : \A t \in 1 .. z.len :
       /\ Meets(z, t, u, v) /\ t <= now[u] => t <= now[v]
       /\ Carries(z, t, u, v) /\ t <= now[v] => t <= now[u]

\* l are the moments of what u sent to v and v has still to receive.
Sent(z, now, u, v, l) ==
  /\ l \in Seq(1 .. z.len)
  /\ \A k \in 1 .. Len(l) : Carries(z, l[k], u, v) /\ now[v] < l[k] /\ l[k] <= now[u]
  /\ \A j \in 1 .. Len(l) : \A k \in 1 .. j - 1 : l[k] < l[j]
  /\ \A t \in 1 .. z.len : Carries(z, t, u, v) /\ now[v] < t /\ t <= now[u] => \E k \in 1 .. Len(l) : l[k] = t

\* The ranks of G go on to moment t, the next of each.
Moved(now, G, t) == [w \in World |-> IF w \in G THEN t ELSE now[w]]
Advance(z, now, G, t) == G \subseteq World /\ t \in 1 .. z.len /\ \A w \in G : Next(z, w, now[w], t)

LEMMA BothBusy ==
  ASSUME NEW z, NEW t, NEW u, NEW v
  PROVE  /\ Meets(z, t, u, v) => z.at[t][u] # <<>> /\ z.at[t][v] # <<>>
         /\ Carries(z, t, u, v) => z.at[t][u] # <<>> /\ z.at[t][v] # <<>>
<1>1. \A c : <<c>> # <<>>
  OBVIOUS
<1> QED BY <1>1 DEF Meets, Carries

LEMMA TermOf ==
  ASSUME NEW S, NEW l \in Seq(S), NEW k \in 1 .. Len(l)
  PROVE  l[k] \in S
OBVIOUS

\* A moment that is not past, and not the next one, is later.
LEMMA LaterMoment ==
  ASSUME NEW z, NEW now, Clocks(z, now), NEW G, NEW t, Advance(z, now, G, t), NEW w \in G, NEW s \in 1 .. z.len,
         z.at[s][w] # <<>>
  PROVE  (s <= now[w] \/ s = t \/ s > t) /\ now[w] < t /\ (s <= t <=> s <= now[w] \/ s = t)
<1>1. z.len \in Nat /\ now[w] \in 0 .. z.len /\ Next(z, w, now[w], t)
  BY DEF Advance, Clocks
<1>2. t \in now[w] + 1 .. z.len /\ s \notin now[w] + 1 .. t - 1
  BY <1>1 DEF Next
<1> QED BY <1>1, <1>2

LEMMA ClocksAdvance ==
  ASSUME NEW z, NEW now, Clocks(z, now), NEW G, NEW t, Advance(z, now, G, t),
         \A u \in G : \A v \in World : Meets(z, t, u, v) => v \in G,
         \A v \in G : \A u \in World : Carries(z, t, u, v) => u \in G \/ t <= now[u]
  PROVE  Clocks(z, Moved(now, G, t))
<1> DEFINE on == Moved(now, G, t)
<1>1. /\ \A w \in G : w \in World /\ on[w] = t
      /\ \A w \in World : w \notin G => on[w] = now[w]
  BY DEF Moved, Advance
<1>2. z.len \in Nat /\ t \in 1 .. z.len /\ \A w \in World : now[w] \in 0 .. z.len
  BY DEF Clocks, Advance
<1> HIDE DEF on
<1>3. \A w \in World : on[w] \in 0 .. z.len
  BY <1>1, <1>2
<1>4. ASSUME NEW u \in World, NEW v \in World, NEW s \in 1 .. z.len, Meets(z, s, u, v), s <= on[u] PROVE s <= on[v]
  <2>0. z.at[s][u] # <<>> /\ z.at[s][v] # <<>>
    BY <1>4, BothBusy
  <2>1. CASE s <= now[u]
    <3>1. s <= now[v]
      BY <1>4, <2>1 DEF Clocks
    <3>2. CASE v \in G
      <4>1. now[v] < t
        BY <2>0, <3>2, LaterMoment
      <4> QED BY <1>1, <1>2, <3>1, <3>2, <4>1
    <3> QED BY <1>1, <3>1, <3>2
  <2>2. CASE ~(s <= now[u])
    <3>1. u \in G
      BY <1>1, <1>4, <2>2
    <3>2. s = t
      BY <1>1, <1>4, <2>0, <2>2, <3>1, LaterMoment
    <3>3. v \in G
      BY <1>4, <3>1, <3>2
    <3> QED BY <1>1, <1>2, <3>2, <3>3
  <2> QED BY <2>1, <2>2
<1>5. ASSUME NEW u \in World, NEW v \in World, NEW s \in 1 .. z.len, Carries(z, s, u, v), s <= on[v] PROVE s <= on[u]
  <2>0. z.at[s][u] # <<>> /\ z.at[s][v] # <<>>
    BY <1>5, BothBusy
  <2>1. CASE s <= now[u]
    <3>1. CASE u \in G
      <4>1. now[u] < t
        BY <2>0, <3>1, LaterMoment
      <4> QED BY <1>1, <1>2, <2>1, <3>1, <4>1
    <3> QED BY <1>1, <2>1, <3>1
  <2>2. CASE ~(s <= now[u])
    <3>1. ~(s <= now[v])
      BY <1>5, <2>2 DEF Clocks
    <3>2. v \in G
      BY <1>1, <1>5, <3>1
    <3>3. s = t
      BY <1>1, <1>5, <2>0, <3>1, <3>2, LaterMoment
    <3>4. u \in G
      BY <1>5, <2>2, <3>2, <3>3
    <3> QED BY <1>1, <1>2, <3>3, <3>4
  <2> QED BY <2>1, <2>2
<1>6. \A u, v \in World : \A s \in 1 .. z.len : Meets(z, s, u, v) /\ s <= on[u] => s <= on[v]
  BY <1>4
<1>7. \A u, v \in World : \A s \in 1 .. z.len : Carries(z, s, u, v) /\ s <= on[v] => s <= on[u]
  BY <1>5
<1>8. Clocks(z, on)
  BY <1>2, <1>3, <1>6, <1>7 DEF Clocks
<1> QED BY <1>8 DEF on

\* What is on its way stays what it is, unless one of the two goes on without the other.
LEMMA SentStays ==
  ASSUME NEW z, NEW now, Clocks(z, now), NEW G, NEW t, Advance(z, now, G, t), NEW u \in World, NEW v \in World,
         Carries(z, t, u, v) => (u \in G <=> v \in G), NEW l, Sent(z, now, u, v, l)
  PROVE  Sent(z, Moved(now, G, t), u, v, l)
<1> DEFINE on == Moved(now, G, t)
<1>1. /\ \A w \in G : w \in World /\ on[w] = t
      /\ \A w \in World : w \notin G => on[w] = now[w]
  BY DEF Moved, Advance
<1>2. z.len \in Nat /\ t \in 1 .. z.len /\ now[u] \in 0 .. z.len /\ now[v] \in 0 .. z.len
  BY DEF Clocks, Advance
<1> HIDE DEF on
<1>3. ASSUME NEW k \in 1 .. Len(l) PROVE Carries(z, l[k], u, v) /\ on[v] < l[k] /\ l[k] <= on[u]
  <2> DEFINE s == l[k]
  <2>8. l \in Seq(1 .. z.len) /\ Carries(z, l[k], u, v) /\ now[v] < l[k] /\ l[k] <= now[u]
    BY DEF Sent
  <2>9. l[k] \in 1 .. z.len
    BY <2>8, TermOf
  <2>1. s \in 1 .. z.len /\ Carries(z, s, u, v) /\ now[v] < s /\ s <= now[u]
    BY <2>8, <2>9
  <2> HIDE DEF s
  <2>2. z.at[s][u] # <<>> /\ z.at[s][v] # <<>>
    BY <2>1, BothBusy
  <2>3. s <= on[u]
    <3>1. CASE u \in G
      <4>1. now[u] < t
        BY <2>1, <2>2, <3>1, LaterMoment
      <4> QED BY <1>1, <1>2, <2>1, <3>1, <4>1
    <3> QED BY <1>1, <2>1, <3>1
  <2>4. on[v] < s
    <3>1. CASE v \in G
      <4>1. s = t \/ s > t
        BY <1>2, <2>1, <2>2, <3>1, LaterMoment
      <4>2. s # t
        <5> SUFFICES ASSUME s = t PROVE FALSE
          OBVIOUS
        <5>1. u \in G
          BY <2>1, <3>1
        <5>2. now[u] < t
          BY <2>1, <2>2, <5>1, LaterMoment
        <5> QED BY <1>2, <2>1, <5>2
      <4> QED BY <1>1, <3>1, <4>1, <4>2
    <3> QED BY <1>1, <2>1, <3>1
  <2> QED BY <2>1, <2>3, <2>4 DEF s
<1>4. ASSUME NEW s \in 1 .. z.len, Carries(z, s, u, v), on[v] < s, s <= on[u] PROVE \E k \in 1 .. Len(l) : l[k] = s
  <2>0. z.at[s][u] # <<>> /\ z.at[s][v] # <<>>
    BY <1>4, BothBusy
  <2>1. now[v] < s
    <3>1. CASE v \in G
      <4>1. now[v] < t
        BY <2>0, <3>1, LaterMoment
      <4> QED BY <1>1, <1>2, <1>4, <3>1, <4>1
    <3> QED BY <1>1, <1>4, <3>1
  <2>2. s <= now[u]
    <3> SUFFICES ASSUME ~(s <= now[u]) PROVE FALSE
      OBVIOUS
    <3>1. u \in G
      BY <1>1, <1>4
    <3>2. s = t
      BY <1>1, <1>4, <2>0, <3>1, LaterMoment
    <3>3. v \in G
      BY <1>4, <3>1, <3>2
    <3> QED BY <1>1, <1>2, <1>4, <3>2, <3>3
  <2> QED BY <1>4, <2>1, <2>2 DEF Sent
<1>5. l \in Seq(1 .. z.len) /\ \A j \in 1 .. Len(l) : \A k \in 1 .. j - 1 : l[k] < l[j]
  BY DEF Sent
<1>6. Sent(z, on, u, v, l)
  BY <1>3, <1>4, <1>5 DEF Sent
<1> QED BY <1>6 DEF on

LEMMA NotBoth ==
  ASSUME NEW z, NEW t, NEW u, NEW v, Carries(z, t, u, v)
  PROVE  /\ u # v /\ z.at[t][u] # <<>> /\ z.at[t][v] # <<>>
         /\ Head(z.at[t][u]).do = "send" /\ Head(z.at[t][u]).with = {v}
         /\ Head(z.at[t][v]).do = "recv" /\ Head(z.at[t][v]).with = {u}
         /\ Head(z.at[t][u]).what = Head(z.at[t][v]).what /\ Head(z.at[t][u]).slot = Head(z.at[t][v]).slot
<1>1. PICK what, i : z.at[t][u] = <<SendTo(v, what, i)>> /\ z.at[t][v] = <<RecvFrom(u, what, i)>>
  BY DEF Carries
<1> DEFINE c == SendTo(v, what, i)
           d == RecvFrom(u, what, i)
<1>2. /\ c.do = "send" /\ c.with = {v} /\ c.what = what /\ c.slot = i
      /\ d.do = "recv" /\ d.with = {u} /\ d.what = what /\ d.slot = i
  BY DEF SendTo, RecvFrom, Call
<1>3. z.at[t][u] = <<c>> /\ z.at[t][v] = <<d>>
  BY <1>1
<1> HIDE DEF c, d
<1>4. Head(z.at[t][u]) = c /\ Head(z.at[t][v]) = d /\ z.at[t][u] # <<>> /\ z.at[t][v] # <<>>
  BY <1>3
<1>5. u # v
  BY <1>2, <1>4
<1> QED BY <1>2, <1>4, <1>5

\* A send that does not wait.
LEMMA PostSent ==
  ASSUME NEW z, NEW now, Clocks(z, now), NEW u \in World, NEW v \in World, NEW t, Advance(z, now, {u}, t),
         Carries(z, t, u, v), NEW l, Sent(z, now, u, v, l)
  PROVE  Sent(z, Moved(now, {u}, t), u, v, Append(l, t))
<1> DEFINE on == Moved(now, {u}, t)
           n == z.len
           m == Append(l, t)
<1>1. u # v /\ z.at[t][u] # <<>>
  BY NotBoth
<1>2. n \in Nat /\ t \in 1 .. n /\ now[u] \in 0 .. n /\ now[v] \in 0 .. n
  BY DEF Clocks, Advance
<1>3. now[u] < t
  BY <1>1, <1>2, LaterMoment
<1>4. now[v] < t
  BY <1>2, <1>3 DEF Clocks
<1>5. on[u] = t /\ on[v] = now[v]
  BY <1>1 DEF Moved
<1>6. /\ l \in Seq(1 .. n)
      /\ \A k \in 1 .. Len(l) : Carries(z, l[k], u, v) /\ now[v] < l[k] /\ l[k] <= now[u]
      /\ \A j \in 1 .. Len(l) : \A k \in 1 .. j - 1 : l[k] < l[j]
      /\ \A s \in 1 .. n : Carries(z, s, u, v) /\ now[v] < s /\ s <= now[u] => \E k \in 1 .. Len(l) : l[k] = s
  BY DEF Sent
<1> HIDE DEF on, n
<1>7. \A k \in 1 .. Len(l) : l[k] \in 1 .. n /\ l[k] \in Nat
  <2> TAKE k \in 1 .. Len(l)
  <2> DEFINE S == 1 .. n
  <2>1. l \in Seq(S) /\ S \subseteq Nat
    BY <1>2, <1>6
  <2> HIDE DEF S
  <2>2. l[k] \in S
    BY <2>1, TermOf
  <2> QED BY <2>1, <2>2 DEF S
<1>8. /\ Len(l) \in Nat /\ m \in Seq(1 .. n) /\ Len(m) = Len(l) + 1 /\ m[Len(l) + 1] = t
      /\ \A k \in 1 .. Len(l) : m[k] = l[k]
  <2> DEFINE S == 1 .. n
  <2>1. l \in Seq(S) /\ t \in S
    BY <1>2, <1>6
  <2> HIDE DEF S
  <2>2. /\ Len(l) \in Nat /\ m \in Seq(S) /\ Len(m) = Len(l) + 1 /\ m[Len(l) + 1] = t
        /\ \A k \in 1 .. Len(l) : m[k] = l[k]
    BY <2>1
  <2> QED BY <2>2 DEF S
<1> HIDE DEF m
<1>9. \A k \in 1 .. Len(m) : k \in 1 .. Len(l) \/ k = Len(m)
  BY <1>8
<1>10. ASSUME NEW k \in 1 .. Len(m) PROVE Carries(z, m[k], u, v) /\ on[v] < m[k] /\ m[k] <= on[u]
  <2>1. CASE k \in 1 .. Len(l)
    <3>1. m[k] = l[k] /\ Carries(z, l[k], u, v) /\ now[v] < l[k] /\ l[k] <= now[u] /\ l[k] \in Nat
      BY <1>6, <1>7, <1>8, <2>1
    <3> QED BY <1>2, <1>3, <1>5, <3>1
  <2>2. CASE k = Len(m)
    <3>1. m[k] = t
      BY <1>8, <2>2
    <3> QED BY <1>2, <1>4, <1>5, <3>1
  <2> QED BY <1>9, <2>1, <2>2
<1>11. ASSUME NEW j \in 1 .. Len(m), NEW k \in 1 .. j - 1 PROVE m[k] < m[j]
  <2>1. k \in 1 .. Len(l) /\ m[k] = l[k] /\ l[k] \in Nat
    BY <1>7, <1>8
  <2>2. CASE j \in 1 .. Len(l)
    BY <1>6, <1>8, <2>1, <2>2
  <2>3. CASE j = Len(m)
    <3>1. m[j] = t /\ l[k] <= now[u]
      BY <1>6, <1>8, <2>1, <2>3
    <3> QED BY <1>2, <1>3, <2>1, <3>1
  <2> QED BY <1>9, <2>2, <2>3
<1>12. ASSUME NEW s \in 1 .. n, Carries(z, s, u, v), on[v] < s, s <= on[u] PROVE \E k \in 1 .. Len(m) : m[k] = s
  <2>1. CASE s <= now[u]
    <3>1. PICK k \in 1 .. Len(l) : l[k] = s
      BY <1>5, <1>6, <1>12, <2>1
    <3>2. k \in 1 .. Len(m) /\ m[k] = s
      BY <1>8, <3>1
    <3> QED BY <3>2
  <2>2. CASE ~(s <= now[u])
    <3>1. z.at[s][u] # <<>> /\ s \in 1 .. z.len
      BY <1>12, NotBoth DEF n
    <3>2. s = t
      <4>1. u \in {u}
        OBVIOUS
      <4>2. s \leq t
        BY <1>5, <1>12
      <4>3. s <= now[u] \/ s = t
        BY <3>1, <4>1, <4>2, LaterMoment
      <4> QED BY <2>2, <4>3
    <3>3. Len(m) \in 1 .. Len(m) /\ m[Len(m)] = t
      BY <1>8
    <3> QED BY <3>2, <3>3
  <2> QED BY <2>1, <2>2
<1>13. Sent(z, on, u, v, m)
  <2>1. \A j \in 1 .. Len(m) : \A k \in 1 .. j - 1 : m[k] < m[j]
    BY <1>11
  <2>2. \A s \in 1 .. n : Carries(z, s, u, v) /\ on[v] < s /\ s <= on[u] => \E k \in 1 .. Len(m) : m[k] = s
    BY <1>12
  <2> QED BY <1>8, <1>10, <2>1, <2>2 DEF Sent, n
<1> QED BY <1>13 DEF on, m

\* A receive of what is on its way: the first letter is the one the receiver is due.
LEMMA TakeSent ==
  ASSUME NEW z, NEW now, Clocks(z, now), NEW u \in World, NEW v \in World, NEW t, Advance(z, now, {v}, t),
         Carries(z, t, u, v), NEW l, Sent(z, now, u, v, l), l # <<>>
  PROVE  l[1] = t /\ t <= now[u] /\ Sent(z, Moved(now, {v}, t), u, v, Tail(l))
<1> DEFINE on == Moved(now, {v}, t)
           n == z.len
           m == Tail(l)
<1>1. u # v /\ z.at[t][v] # <<>> /\ v \in {v}
  BY NotBoth
<1>2. n \in Nat /\ t \in 1 .. n /\ now[u] \in 0 .. n /\ now[v] \in 0 .. n
  BY DEF Clocks, Advance
<1>3. now[v] < t
  BY <1>1, <1>2, LaterMoment
<1>5. on[v] = t /\ on[u] = now[u]
  BY <1>1 DEF Moved
<1>6. /\ l \in Seq(1 .. n)
      /\ \A k \in 1 .. Len(l) : Carries(z, l[k], u, v) /\ now[v] < l[k] /\ l[k] <= now[u]
      /\ \A j \in 1 .. Len(l) : \A k \in 1 .. j - 1 : l[k] < l[j]
      /\ \A s \in 1 .. n : Carries(z, s, u, v) /\ now[v] < s /\ s <= now[u] => \E k \in 1 .. Len(l) : l[k] = s
  BY DEF Sent
<1> HIDE DEF on, n
<1>7. \A k \in 1 .. Len(l) : l[k] \in 1 .. n /\ l[k] \in Nat
  <2> TAKE k \in 1 .. Len(l)
  <2> DEFINE S == 1 .. n
  <2>1. l \in Seq(S) /\ S \subseteq Nat
    BY <1>2, <1>6
  <2> HIDE DEF S
  <2>2. l[k] \in S
    BY <2>1, TermOf
  <2> QED BY <2>1, <2>2 DEF S
<1>8. /\ Len(l) \in Nat /\ Len(l) > 0 /\ m \in Seq(1 .. n) /\ Len(m) = Len(l) - 1
      /\ \A k \in 1 .. Len(m) : m[k] = l[k + 1]
  <2> DEFINE S == 1 .. n
  <2>1. l \in Seq(S)
    BY <1>6
  <2> HIDE DEF S
  <2>2. /\ Len(l) \in Nat /\ Len(l) > 0 /\ m \in Seq(S) /\ Len(m) = Len(l) - 1
        /\ \A k \in 1 .. Len(m) : m[k] = l[k + 1]
    BY <2>1
  <2> QED BY <2>2 DEF S
<1> HIDE DEF m
<1>9. 1 \in 1 .. Len(l)
  BY <1>8
<1> DEFINE f == l[1]
<1>10. f \in 1 .. n /\ f \in Nat /\ Carries(z, f, u, v) /\ now[v] < f /\ f <= now[u]
  BY <1>6, <1>7, <1>9
<1>11. f = t
  <2> HIDE DEF f
  <2>1. z.at[f][v] # <<>> /\ f \in 1 .. z.len
    BY <1>10, NotBoth DEF n
  <2>2. f = t \/ f > t
    <3>1. f <= now[v] \/ f = t \/ f > t
      BY <1>1, <2>1, LaterMoment
    <3> QED BY <1>2, <1>10, <3>1
  <2>3. t <= now[u]
    BY <1>2, <1>10, <2>2
  <2>4. PICK k \in 1 .. Len(l) : l[k] = t
    BY <1>2, <1>3, <1>6, <2>3
  <2>5. CASE k = 1
    BY <2>4, <2>5 DEF f
  <2>6. CASE k # 1
    <3>1. 1 \in 1 .. k - 1
      BY <1>8, <2>6
    <3>2. f < t
      BY <1>6, <2>4, <3>1 DEF f
    <3> QED BY <1>2, <1>10, <2>2, <3>2
  <2> QED BY <2>5, <2>6
<1>12. t <= now[u] /\ l[1] = t
  BY <1>10, <1>11
<1> HIDE DEF f
<1>13. ASSUME NEW k \in 1 .. Len(m) PROVE Carries(z, m[k], u, v) /\ on[v] < m[k] /\ m[k] <= on[u]
  <2> DEFINE j == k + 1
  <2>1. j \in 1 .. Len(l) /\ m[k] = l[j] /\ 1 \in 1 .. j - 1
    BY <1>8
  <2> HIDE DEF j
  <2>2. Carries(z, l[j], u, v) /\ l[j] <= now[u] /\ l[1] < l[j]
    BY <1>6, <2>1
  <2> QED BY <1>5, <1>12, <2>1, <2>2
<1>14. ASSUME NEW j \in 1 .. Len(m), NEW k \in 1 .. j - 1 PROVE m[k] < m[j]
  <2> DEFINE i == j + 1
             h == k + 1
  <2>1. i \in 1 .. Len(l) /\ h \in 1 .. i - 1 /\ m[j] = l[i] /\ m[k] = l[h]
    BY <1>8
  <2> HIDE DEF i, h
  <2> QED BY <1>6, <2>1
<1>15. ASSUME NEW s \in 1 .. n, Carries(z, s, u, v), on[v] < s, s <= on[u] PROVE \E k \in 1 .. Len(m) : m[k] = s
  <2>1. now[v] < s /\ s <= now[u] /\ s # t
    BY <1>2, <1>3, <1>5, <1>15
  <2>2. PICK j \in 1 .. Len(l) : l[j] = s
    BY <1>6, <1>15, <2>1
  <2>3. j # 1
    BY <1>12, <2>1, <2>2
  <2> DEFINE k == j - 1
  <2>4. k \in 1 .. Len(m) /\ k + 1 = j
    BY <1>8, <2>3
  <2> HIDE DEF k
  <2>5. m[k] = s
    BY <1>8, <2>2, <2>4
  <2> QED BY <2>4, <2>5
<1>16. Sent(z, on, u, v, m)
  <2>1. \A j \in 1 .. Len(m) : \A k \in 1 .. j - 1 : m[k] < m[j]
    BY <1>14
  <2>2. \A s \in 1 .. n : Carries(z, s, u, v) /\ on[v] < s /\ s <= on[u] => \E k \in 1 .. Len(m) : m[k] = s
    BY <1>15
  <2> QED BY <1>8, <1>13, <2>1, <2>2 DEF Sent, n
<1> QED BY <1>12, <1>16 DEF on, m

\* What is carried.
Carried(z, t, u) == NotePayload(u, z.note[t - 1][u], Head(z.at[t][u]))
Letters(z, u, l) == [k \in 1 .. Len(l) |-> Carried(z, l[k], u)]

LEMMA LettersChange ==
  ASSUME NEW z, NEW u, NEW S, NEW l \in Seq(S)
  PROVE  /\ \A t \in S : Append(Letters(z, u, l), Carried(z, t, u)) = Letters(z, u, Append(l, t))
         /\ Letters(z, u, <<>>) = <<>> /\ (Letters(z, u, l) # <<>> => l # <<>>)
         /\ l # <<>> => /\ Head(Letters(z, u, l)) = Carried(z, l[1], u)
                        /\ Tail(Letters(z, u, l)) = Letters(z, u, Tail(l))
<1> DEFINE f(t) == Carried(z, t, u)
           L(x) == [k \in 1 .. Len(x) |-> f(x[k])]
<1>1. \A x : Letters(z, u, x) = L(x)
  BY DEF Letters
<1> HIDE DEF f
<1>2. ASSUME NEW t \in S PROVE Append(L(l), f(t)) = L(Append(l, t))
  <2> DEFINE T == {f(x) : x \in S}
  <2>1. L(l) \in Seq(T) /\ f(t) \in T /\ Len(L(l)) = Len(l) /\ L(Append(l, t)) \in Seq(T)
    OBVIOUS
  <2> QED BY <2>1
<1>3. L(<<>>) = <<>> /\ (L(l) # <<>> => l # <<>>)
  OBVIOUS
<1>4. ASSUME l # <<>> PROVE Head(L(l)) = f(l[1]) /\ Tail(L(l)) = L(Tail(l))
  <2> DEFINE T == {f(x) : x \in S}
  <2>1. L(l) \in Seq(T) /\ Len(L(l)) = Len(l) /\ Tail(l) \in Seq(S) /\ Len(l) > 0 /\ Len(l) \in Nat
    BY <1>4
  <2>2. L(Tail(l)) \in Seq(T) /\ Len(Tail(l)) = Len(l) - 1 /\ 1 \in 1 .. Len(l)
    BY <1>4
  <2> QED BY <1>4, <2>1, <2>2
<1> QED BY <1>1, <1>2, <1>3, <1>4 DEF f

\* The ranks that have not raised are where their clocks say, with the notes of
\* that moment; what is on its way was noted when it was sent.
Follows(z, now) ==
  \A w \in World :
    IF w \in raised THEN todo[w] = <<>>
    ELSE todo[w] = z.rest[now[w]][w] /\ View(mem[w]) = z.note[now[w]][w]
Wires == DOMAIN wire = World /\ \A u \in World : DOMAIN wire[u] = World
Mails(z, now, letters, u, v) ==
  /\ Sent(z, now, u, v, letters[u][v]) /\ wire[u][v] = Letters(z, u, letters[u][v])
  /\ ~buffered => letters[u][v] = <<>>
Wired(z, now, letters) == Wires /\ \A u, v \in World : Mails(z, now, letters, u, v)
Performs(z, now, letters) == Clocks(z, now) /\ Follows(z, now) /\ Wired(z, now, letters)

\* The job stays, and so does what is said of a schedule.
LEMMA ScheduleStays ==
  ASSUME job' = job, NEW z, NEW steps, Scheduled(z, steps)
  PROVE  Scheduled(z, steps)'
<1>1. World' = World /\ Slots' = Slots /\ TaskCalls' = TaskCalls
  BY DEF World, Slots, TaskCalls
<1>2. ASSUME NEW w PROVE Stage(w)' = Stage(w) /\ Replica(w)' = Replica(w) /\ First(w)' = First(w) /\ Final(w)' = Final(w)
                  /\ Leader(w)' = Leader(w) /\ LastOf(w)' = LastOf(w) /\ Pipeline(w)' = Pipeline(w) /\ Every(w)' = Every(w)
  BY DEF Stage, Replica, First, Final, Leader, LastOf, Pipeline, World, Every
<1>3. ASSUME NEW w, NEW n, NEW i PROVE NoteHeld(w, n, i)' = NoteHeld(w, n, i) /\ NoteGradient(w, n, i)' = NoteGradient(w, n, i)
  BY <1>2 DEF NoteHeld, NoteGradient, First, Final, Stage, Replica
<1>4. ASSUME NEW w, NEW n, NEW c PROVE NotePayload(w, n, c)' = NotePayload(w, n, c)
  BY <1>3 DEF NotePayload
<1>5. ASSUME NEW n PROVE IsNote(n)' = IsNote(n) /\ SharedNote(n)' = SharedNote(n)
  BY <1>1 DEF IsNote, SharedNote, Every
<1>6. ASSUME NEW w, NEW c, NEW n, NEW m PROVE Worked(w, c, n, m)' = Worked(w, c, n, m)
  BY <1>2, <1>3 DEF Worked
<1>7. ASSUME NEW w, NEW c, NEW N, NEW s, NEW m PROVE Met(w, c, N, s, m)' = Met(w, c, N, s, m)
  BY <1>1, <1>2 DEF Met
<1>8. ASSUME NEW w, NEW c, NEW act, NEW N, NEW s, NEW m PROVE Makes(w, c, act, N, s, m)' = Makes(w, c, act, N, s, m)
  BY <1>1, <1>4, <1>5, <1>6, <1>7 DEF Makes
<1>9. ASSUME NEW act, NEW N, NEW M, NEW s PROVE Moment(act, N, M, s)' = Moment(act, N, M, s)
  BY <1>1, <1>5, <1>8 DEF Moment, Plays
<1> QED BY <1>1, <1>5, <1>9 DEF Scheduled

LEMMA ClocksStay ==
  ASSUME job' = job, NEW z, NEW now, Clocks(z, now)
  PROVE  Clocks(z, now)'
BY DEF Clocks, World

LEMMA LettersStay ==
  ASSUME job' = job, NEW z, NEW u, NEW l
  PROVE  Letters(z, u, l)' = Letters(z, u, l)
BY DEF Letters, Carried, NotePayload, NoteHeld, First, Stage, Replica

\* Ranks make their next calls.
LEMMA RanksFollow ==
  ASSUME NEW z, NEW now, Clocks(z, now), Follows(z, now), NEW G, NEW t, Advance(z, now, G, t),
         \A u \in G : \A v \in World : Meets(z, t, u, v) => v \in G,
         \A v \in G : \A u \in World : Carries(z, t, u, v) => u \in G \/ t <= now[u],
         DOMAIN todo = World, todo' = Popped(G), UNCHANGED <<raised, job>>,
         \A w \in G : w \notin raised /\ z.rest[t][w] = Tail(todo[w]) /\ View(mem'[w]) = z.note[t][w],
         \A w \in World : w \notin G => View(mem'[w]) = View(mem[w]),
         NEW on, on = Moved(now, G, t)
  PROVE  Clocks(z, on)' /\ Follows(z, on)'
<1>0. G \subseteq World
  BY DEF Advance
<1>1. Clocks(z, on)
  BY ClocksAdvance
<1>2. Clocks(z, on)'
  BY <1>1, ClocksStay
<1>3. World' = World /\ \A w \in World : on[w] = IF w \in G THEN t ELSE now[w]
  BY DEF World, Moved
<1>4. \A w \in World : View(mem[w])' = View(mem'[w])
  BY DEF View
<1>5. \A w \in World : todo'[w] = IF w \in G THEN Tail(todo[w]) ELSE todo[w]
  BY DEF Popped, Peers
<1>6. ASSUME NEW w \in World
      PROVE  IF w \in raised THEN todo'[w] = <<>>
             ELSE todo'[w] = z.rest[on[w]][w] /\ View(mem[w])' = z.note[on[w]][w]
  <2>1. CASE w \in G
    BY <1>3, <1>4, <1>5, <2>1
  <2>2. CASE w \notin G
    <3>1. on[w] = now[w] /\ todo'[w] = todo[w] /\ View(mem'[w]) = View(mem[w])
      BY <1>3, <1>5, <2>2
    <3> QED BY <1>0, <1>4, <3>1 DEF Follows
  <2> QED BY <2>1, <2>2
<1>7. Follows(z, on)'
  BY <1>3, <1>6 DEF Follows
<1> QED BY <1>2, <1>7

\* Ranks make their next call together, or one makes its own.
LEMMA RanksMove ==
  ASSUME NEW z, NEW now, NEW letters, Performs(z, now, letters), NEW G, NEW t, Advance(z, now, G, t),
         \A u \in G : \A v \in World : Meets(z, t, u, v) => v \in G,
         \A u, v \in World : Carries(z, t, u, v) => (u \in G <=> v \in G),
         DOMAIN todo = World, todo' = Popped(G), UNCHANGED <<raised, wire, buffered, job>>,
         \A w \in G : w \notin raised /\ z.rest[t][w] = Tail(todo[w]) /\ View(mem'[w]) = z.note[t][w],
         \A w \in World : w \notin G => View(mem'[w]) = View(mem[w]),
         NEW on, on = Moved(now, G, t)
  PROVE  Performs(z, on, letters)'
<1>0. Clocks(z, now) /\ Follows(z, now) /\ Wired(z, now, letters) /\ G \subseteq World
  BY DEF Performs, Advance
<1>1. \A v \in G : \A u \in World : Carries(z, t, u, v) => u \in G \/ t <= now[u]
  BY <1>0
<1>2. Clocks(z, on)' /\ Follows(z, on)'
  BY <1>0, <1>1, RanksFollow
<1>3. World' = World
  BY DEF World
<1>5. Wired(z, on, letters)'
  <2>1. Wires'
    BY <1>0, <1>3 DEF Wires, Wired
  <2>2. ASSUME NEW u \in World, NEW v \in World PROVE Mails(z, on, letters, u, v)'
    <3>1. Mails(z, now, letters, u, v)
      BY <1>0 DEF Wired
    <3> DEFINE l == letters[u][v]
    <3>2. Sent(z, now, u, v, l) /\ wire[u][v] = Letters(z, u, l) /\ (~buffered => l = <<>>)
      BY <3>1 DEF Mails
    <3> HIDE DEF l
    <3>3. Sent(z, on, u, v, l)
      BY <1>0, <3>2, SentStays
    <3>4. Letters(z, u, l)' = Letters(z, u, l)
      BY LettersStay
    <3>5. Sent(z, on, u, v, l) /\ wire'[u][v] = Letters(z, u, l)' /\ (~buffered' => l = <<>>)
      BY <3>2, <3>3, <3>4
    <3> QED BY <3>5 DEF Mails, Sent, l
  <2> QED BY <1>3, <2>1, <2>2 DEF Wired
<1> QED BY <1>2, <1>5 DEF Performs

\* Ranks raise.
LEMMA RanksRaise ==
  ASSUME NEW z, NEW now, NEW letters, Performs(z, now, letters), NEW S, Raise(S), DOMAIN todo = World,
         UNCHANGED <<job, mem>>
  PROVE  Performs(z, now, letters)'
<1>0. Clocks(z, now) /\ Follows(z, now) /\ Wired(z, now, letters)
  BY DEF Performs
<1>1. Clocks(z, now)'
  BY <1>0, ClocksStay
<1>2. World' = World
  BY DEF World
<1>3. Follows(z, now)'
  <2>0. \A w \in World : View(mem[w])' = View(mem[w])
    BY DEF View
  <2>1. raised' = raised \cup S /\ \A w \in World : todo'[w] = IF w \in S THEN <<>> ELSE todo[w]
    BY DEF Raise, Peers
  <2> QED BY <1>0, <1>2, <2>0, <2>1 DEF Follows
<1>4. UNCHANGED <<wire, buffered>>
  BY DEF Raise
<1>5. Wired(z, now, letters)'
  <2>1. Wires'
    BY <1>0, <1>2, <1>4 DEF Wires, Wired
  <2>2. ASSUME NEW u \in World, NEW v \in World PROVE Mails(z, now, letters, u, v)'
    <3>1. Mails(z, now, letters, u, v)
      BY <1>0 DEF Wired
    <3>2. Letters(z, u, letters[u][v])' = Letters(z, u, letters[u][v])
      BY LettersStay
    <3> QED BY <1>4, <3>1, <3>2 DEF Mails, Sent
  <2> QED BY <1>2, <2>1, <2>2 DEF Wired
<1> QED BY <1>1, <1>3, <1>5 DEF Performs

NoteFields == {"batch", "act", "out", "grad", "loss", "count", "norm", "answers"}
MemHas == DOMAIN mem = World /\ \A w \in World : NoteFields \subseteq DOMAIN mem[w]
Standing(z, now, letters) == TaskShape /\ MemHas /\ Scheduled(z, launch.steps) /\ Performs(z, now, letters)

\* Rank w makes its next call in moment t.
Acts(z, now, w, t) ==
  /\ t \in 1 .. z.len /\ Next(z, w, now[w], t)
  /\ z.note[t - 1][w] = View(mem[w]) /\ z.rest[t][w] = Tail(todo[w]) /\ z.at[t][w] = <<Current(w)>>
  /\ Makes(w, Current(w), z.at[t], z.note[t - 1], launch.steps, z.note[t][w])

LEMMA RankActs ==
  ASSUME NEW z, NEW now, NEW letters, Standing(z, now, letters), NEW w \in World, todo[w] # <<>>
  PROVE  w \notin raised /\ \E t : Acts(z, now, w, t)
<1>1. Clocks(z, now) /\ Follows(z, now) /\ Scheduled(z, launch.steps)
  BY DEF Standing, Performs
<1>2. w \notin raised /\ todo[w] = z.rest[now[w]][w] /\ View(mem[w]) = z.note[now[w]][w]
  BY <1>1 DEF Follows
<1>3. now[w] \in 0 .. z.len
  BY <1>1 DEF Clocks
<1>4. PICK t \in 1 .. z.len : Due(z, launch.steps, w, now[w], t)
  BY <1>1, <1>2, <1>3, NextCall
<1>5. Acts(z, now, w, t)
  BY <1>2, <1>4 DEF Due, Acts, Current
<1> QED BY <1>2, <1>5

\* What a call is tells what it does in its moment.
LEMMA LocalActs ==
  ASSUME NEW z, NEW now, NEW w \in World, NEW t, Acts(z, now, w, t), Current(w).do = "local"
  PROVE  /\ Worked(w, Current(w), View(mem[w]), z.note[t][w])
         /\ Current(w) = Alone("update", 0) => SharedNote(View(mem[w]))
         /\ \A v \in World : ~Meets(z, t, w, v) /\ ~Carries(z, t, w, v) /\ ~Carries(z, t, v, w)
<1> DEFINE c == Current(w)
<1>1. z.at[t][w] = <<c>> /\ Makes(w, c, z.at[t], z.note[t - 1], launch.steps, z.note[t][w]) /\ z.note[t - 1][w] = View(mem[w])
  BY DEF Acts
<1>2. c.do = "local"
  OBVIOUS
<1> HIDE DEF c
<1>3. Worked(w, c, View(mem[w]), z.note[t][w]) /\ (c = Alone("update", 0) => SharedNote(View(mem[w])))
  BY <1>1, <1>2 DEF Makes
<1>4. Head(z.at[t][w]).do = "local"
  BY <1>1, <1>2
<1>5. ASSUME NEW v \in World PROVE ~Meets(z, t, w, v) /\ ~Carries(z, t, w, v) /\ ~Carries(z, t, v, w)
  <2>1. ~Carries(z, t, w, v) /\ ~Carries(z, t, v, w)
    BY <1>4, NotBoth
  <2>2. ASSUME NEW d, z.at[t][w] = <<d>>, d.do = "meet" PROVE FALSE
    <3>1. d = c
      BY <1>1, <2>2
    <3> QED BY <1>2, <2>2, <3>1
  <2> QED BY <2>1, <2>2 DEF Meets
<1> QED BY <1>3, <1>5 DEF c

MeetsWith(z, t, c) == c.with \subseteq World /\ \A v \in c.with : z.at[t][v] = <<c>>
LEMMA MeetActs ==
  ASSUME NEW z, NEW now, NEW w \in World, NEW t, Acts(z, now, w, t), Current(w).do = "meet"
  PROVE  /\ w \in Current(w).with /\ MeetsWith(z, t, Current(w))
         /\ Met(w, Current(w), z.note[t - 1], launch.steps, z.note[t][w])
         /\ \A v \in World : /\ Meets(z, t, w, v) <=> v \in Current(w).with
                             /\ ~Carries(z, t, w, v) /\ ~Carries(z, t, v, w)
<1> DEFINE c == Current(w)
<1>1. z.at[t][w] = <<c>> /\ Makes(w, c, z.at[t], z.note[t - 1], launch.steps, z.note[t][w])
  BY DEF Acts
<1>2. c.do = "meet"
  OBVIOUS
<1> HIDE DEF c
<1>3. w \in c.with /\ c.with \subseteq World /\ (\A v \in c.with : z.at[t][v] = <<c>>) /\ Met(w, c, z.note[t - 1], launch.steps, z.note[t][w])
  BY <1>1, <1>2 DEF Makes
<1>4. Head(z.at[t][w]).do = "meet"
  BY <1>1, <1>2
<1>5. ASSUME NEW v \in World PROVE (Meets(z, t, w, v) <=> v \in c.with) /\ ~Carries(z, t, w, v) /\ ~Carries(z, t, v, w)
  <2>1. ~Carries(z, t, w, v) /\ ~Carries(z, t, v, w)
    BY <1>4, NotBoth
  <2>2. ASSUME NEW d, z.at[t][w] = <<d>>, v \in d.with PROVE v \in c.with
    <3>1. d = c
      BY <1>1, <2>2
    <3> QED BY <2>2, <3>1
  <2>3. v \in c.with => Meets(z, t, w, v)
    BY <1>1, <1>2, <1>3 DEF Meets
  <2> QED BY <2>1, <2>2, <2>3 DEF Meets
<1>6. MeetsWith(z, t, c)
  BY <1>3 DEF MeetsWith
<1> QED BY <1>3, <1>5, <1>6 DEF c

LEMMA SendActs ==
  ASSUME NEW z, NEW now, NEW w \in World, NEW t, Acts(z, now, w, t), Current(w).do = "send"
  PROVE  /\ z.note[t][w] = View(mem[w])
         /\ \E q \in World : /\ Current(w).with = {q} /\ Carries(z, t, w, q)
                             /\ \A v \in World : Carries(z, t, w, v) => v = q
         /\ \A v \in World : ~Meets(z, t, w, v) /\ ~Carries(z, t, v, w)
<1> DEFINE c == Current(w)
<1>1. z.at[t][w] = <<c>> /\ Makes(w, c, z.at[t], z.note[t - 1], launch.steps, z.note[t][w]) /\ z.note[t - 1][w] = View(mem[w])
  BY DEF Acts
<1>2. c.do = "send"
  OBVIOUS
<1> HIDE DEF c
<1>3. z.note[t][w] = View(mem[w]) /\ \E q \in World : c = SendTo(q, c.what, c.slot) /\ z.at[t][q] = <<RecvFrom(w, c.what, c.slot)>>
  BY <1>1, <1>2 DEF Makes
<1>4. PICK q \in World : c = SendTo(q, c.what, c.slot) /\ z.at[t][q] = <<RecvFrom(w, c.what, c.slot)>>
  BY <1>3
<1>5. c.with = {q}
  BY <1>4 DEF SendTo, Call
<1>6. Carries(z, t, w, q)
  BY <1>1, <1>4 DEF Carries
<1>7. Head(z.at[t][w]) = c
  BY <1>1
<1>8. \A v \in World : Carries(z, t, w, v) => v = q
  <2> SUFFICES ASSUME NEW v \in World, Carries(z, t, w, v) PROVE v = q
    OBVIOUS
  <2>1. c.with = {v}
    BY <1>7, NotBoth
  <2> QED BY <1>5, <2>1
<1>9. \A v \in World : ~Carries(z, t, v, w)
  BY <1>2, <1>7, NotBoth
<1>10. \A v \in World : ~Meets(z, t, w, v)
  <2>1. ASSUME NEW d, z.at[t][w] = <<d>>, d.do = "meet" PROVE FALSE
    <3>1. d = c
      BY <1>1, <2>1
    <3> QED BY <1>2, <2>1, <3>1
  <2> QED BY <2>1 DEF Meets
<1> QED BY <1>3, <1>5, <1>6, <1>8, <1>9, <1>10 DEF c

LEMMA RecvActs ==
  ASSUME NEW z, NEW now, NEW w \in World, NEW t, Acts(z, now, w, t), Current(w).do = "recv"
  PROVE  /\ \E q \in World : /\ Current(w).with = {q} /\ Carries(z, t, q, w)
                             /\ z.note[t][w] = Got(View(mem[w]), Current(w), NotePayload(q, z.note[t - 1][q], Current(w)))
                             /\ \A v \in World : Carries(z, t, v, w) => v = q
         /\ \A v \in World : ~Meets(z, t, w, v) /\ ~Carries(z, t, w, v)
<1> DEFINE c == Current(w)
<1>1. z.at[t][w] = <<c>> /\ Makes(w, c, z.at[t], z.note[t - 1], launch.steps, z.note[t][w]) /\ z.note[t - 1][w] = View(mem[w])
  BY DEF Acts
<1>2. c.do = "recv"
  OBVIOUS
<1> HIDE DEF c
<1>4. PICK q \in World : /\ c = RecvFrom(q, c.what, c.slot) /\ z.at[t][q] = <<SendTo(w, c.what, c.slot)>>
                         /\ z.note[t][w] = Got(View(mem[w]), c, NotePayload(q, z.note[t - 1][q], c))
  BY <1>1, <1>2 DEF Makes
<1>5. c.with = {q}
  BY <1>4 DEF RecvFrom, Call
<1>6. Carries(z, t, q, w)
  BY <1>1, <1>4 DEF Carries
<1>7. Head(z.at[t][w]) = c
  BY <1>1
<1>8. \A v \in World : Carries(z, t, v, w) => v = q
  <2> SUFFICES ASSUME NEW v \in World, Carries(z, t, v, w) PROVE v = q
    OBVIOUS
  <2>1. c.with = {v}
    BY <1>7, NotBoth
  <2> QED BY <1>5, <2>1
<1>9. \A v \in World : ~Carries(z, t, w, v)
  BY <1>2, <1>7, NotBoth
<1>10. \A v \in World : ~Meets(z, t, w, v)
  <2>1. ASSUME NEW d, z.at[t][w] = <<d>>, d.do = "meet" PROVE FALSE
    <3>1. d = c
      BY <1>1, <2>1
    <3> QED BY <1>2, <2>1, <3>1
  <2> QED BY <2>1 DEF Meets
<1> QED BY <1>4, <1>5, <1>6, <1>8, <1>9, <1>10 DEF c

\* Everybody goes on as the schedule says.
LEMMA StandingFacts ==
  ASSUME NEW z, NEW now, NEW letters, Standing(z, now, letters)
  PROVE  /\ job \in Jobs /\ DOMAIN todo = World /\ Clocks(z, now) /\ Follows(z, now) /\ Wired(z, now, letters)
         /\ Performs(z, now, letters) /\ z.len \in Nat
         /\ \A w \in World : todo[w] \in Seq(TaskCalls) /\ now[w] \in 0 .. z.len
<1>1. TaskShape /\ Performs(z, now, letters) /\ Clocks(z, now) /\ Follows(z, now) /\ Wired(z, now, letters)
  BY DEF Standing, Performs
<1>2. job \in Jobs /\ DOMAIN todo = World /\ \A w \in World : todo[w] \in Seq(TaskCalls)
  BY <1>1 DEF TaskShape
<1>3. z.len \in Nat /\ \A w \in World : now[w] \in 0 .. z.len
  BY <1>1 DEF Clocks
<1> QED BY <1>1, <1>2, <1>3

LEMMA ActsAdvance ==
  ASSUME NEW z, NEW now, NEW G, G \subseteq World, NEW t \in 1 .. z.len, \A w \in G : Acts(z, now, w, t)
  PROVE  Advance(z, now, G, t) /\ \A w \in G : z.rest[t][w] = Tail(todo[w])
BY DEF Acts, Advance

LEMMA LocalMoves ==
  ASSUME NEW z, NEW now, NEW letters, Standing(z, now, letters), NEW w \in World,
         At(w, "local"), Leave({w}), job' = job,
         \A v \in World : v # w => View(mem'[v]) = View(mem[v]),
         \A m : Worked(w, Current(w), View(mem[w]), m) => View(mem'[w]) = m
  PROVE  \E on : Performs(z, on, letters)'
<1>1. todo[w] # <<>> /\ Current(w).do = "local"
  BY DEF At, Current
<1>2. w \notin raised /\ \E t : Acts(z, now, w, t)
  BY <1>1, RankActs
<1>3. PICK t : Acts(z, now, w, t)
  BY <1>2
<1>4. /\ Worked(w, Current(w), View(mem[w]), z.note[t][w])
      /\ \A v \in World : ~Meets(z, t, w, v) /\ ~Carries(z, t, w, v) /\ ~Carries(z, t, v, w)
  BY <1>1, <1>3, LocalActs
<1> DEFINE G == {w}
<1>5. t \in 1 .. z.len /\ G \subseteq World /\ \A u \in G : u = w
  BY <1>3 DEF Acts
<1>6. Advance(z, now, G, t) /\ \A u \in G : z.rest[t][u] = Tail(todo[u])
  <2>1. \A u \in G : Acts(z, now, u, t)
    BY <1>3
  <2> HIDE DEF G
  <2> QED BY <1>5, <2>1, ActsAdvance
<1>7. todo' = Popped(G) /\ UNCHANGED <<raised, wire, buffered, job>>
  BY DEF Leave
<1>8. \A u \in G : u \notin raised /\ View(mem'[u]) = z.note[t][u]
  BY <1>2, <1>4
<1>9. \A u \in World : u \notin G => View(mem'[u]) = View(mem[u])
  OBVIOUS
<1>10. \A u \in G : \A v \in World : Meets(z, t, u, v) => v \in G
  BY <1>4
<1>11. \A u, v \in World : Carries(z, t, u, v) => (u \in G <=> v \in G)
  BY <1>4
<1> HIDE DEF G
<1> DEFINE on == Moved(now, G, t)
<1>12. on = Moved(now, G, t)
  OBVIOUS
<1> HIDE DEF on
<1>13. PICK x : x = on
  OBVIOUS
<1>14. Performs(z, x, letters)'
  BY <1>6, <1>7, <1>8, <1>9, <1>10, <1>11, <1>12, <1>13, StandingFacts, RanksMove
<1> QED BY <1>14

\* Whoever meets is due in the same moment.
LEMMA MeetTogether ==
  ASSUME NEW z, NEW now, NEW letters, Standing(z, now, letters), NEW w \in World, Gathered(w)
  PROVE  \E t \in 1 .. z.len : /\ Current(w).with \subseteq World /\ w \in Current(w).with
                  /\ \A q \in Current(w).with : q \notin raised /\ Acts(z, now, q, t)
<1>1. Current(w).do = "meet" /\ todo[w] # <<>> /\ \A q \in Current(w).with : todo[q] # <<>> /\ Current(q) = Current(w)
  BY DEF Gathered, At, Current
<1>2. PICK t : Acts(z, now, w, t)
  BY <1>1, RankActs
<1>3. w \in Current(w).with /\ Current(w).with \subseteq World /\ \A v \in Current(w).with : z.at[t][v] = <<Current(w)>>
  <2>1. w \in Current(w).with /\ MeetsWith(z, t, Current(w))
    BY <1>1, <1>2, MeetActs
  <2> QED BY <2>1 DEF MeetsWith
<1>4. ASSUME NEW q \in Current(w).with PROVE q \notin raised /\ Acts(z, now, q, t)
  <2>1. q \in World /\ todo[q] # <<>> /\ Current(q) = Current(w)
    BY <1>1, <1>3
  <2>2. q \notin raised /\ \E s : Acts(z, now, q, s)
    BY <2>1, RankActs
  <2>3. PICK s : Acts(z, now, q, s)
    BY <2>2
  <2>4. \A v \in Current(q).with : z.at[s][v] = <<Current(q)>>
    <3>1. MeetsWith(z, s, Current(q))
      BY <1>1, <2>1, <2>3, MeetActs
    <3> QED BY <3>1 DEF MeetsWith
  <2>5. /\ z.at[t][w] = <<Current(w)>> /\ z.at[t][q] = <<Current(w)>>
        /\ z.at[s][w] = <<Current(w)>> /\ z.at[s][q] = <<Current(w)>>
    BY <1>3, <2>1, <2>4
  <2>6. Meets(z, t, q, w) /\ Meets(z, s, w, q)
    BY <1>1, <1>3, <2>5 DEF Meets
  <2>7. t \in 1 .. z.len /\ s \in 1 .. z.len /\ Next(z, w, now[w], t) /\ Next(z, q, now[q], s)
    BY <1>2, <2>3 DEF Acts
  <2>8. now[w] \in 0 .. z.len /\ now[q] \in 0 .. z.len /\ z.len \in Nat /\ Clocks(z, now)
    BY <2>1, StandingFacts
  <2>9. now[w] < t /\ now[q] < s
    BY <2>7, <2>8 DEF Next
  <2>10. ~(t <= now[q]) /\ ~(s <= now[w])
    <3>1. t <= now[q] => t <= now[w]
      BY <2>1, <2>6, <2>7, <2>8 DEF Clocks
    <3>2. s <= now[w] => s <= now[q]
      BY <2>1, <2>6, <2>7, <2>8 DEF Clocks
    <3> QED BY <2>7, <2>8, <2>9, <3>1, <3>2
  <2>11. z.at[t][q] # <<>> /\ z.at[s][w] # <<>>
    <3>1. \A c : <<c>> # <<>>
      OBVIOUS
    <3> QED BY <2>5, <3>1
  <2>12. t \notin now[q] + 1 .. s - 1 /\ s \notin now[w] + 1 .. t - 1
    BY <2>7, <2>11 DEF Next
  <2>13. s = t
    BY <2>7, <2>8, <2>10, <2>12
  <2> QED BY <2>2, <2>3, <2>13
<1>5. t \in 1 .. z.len
  BY <1>2 DEF Acts
<1> QED BY <1>3, <1>4, <1>5

\* The effects of a meeting, given the notes of its members.
MeetEffect(w, v) ==
  \A N, m : (/\ \A u \in Members(w) : N[u] = View(mem[u])
             /\ Met(v, Current(w), N, launch.steps, m)) => View(mem'[v]) = m

LEMMA MeetMoves ==
  ASSUME NEW z, NEW now, NEW letters, Standing(z, now, letters), NEW w \in World,
         Gathered(w), Leave(Members(w)), job' = job,
         \A v \in World : v \notin Members(w) => View(mem'[v]) = View(mem[v]),
         \A v \in Members(w) : MeetEffect(w, v)
  PROVE  \E on : Performs(z, on, letters)'
<1> DEFINE G == Members(w)
<1>0. G = Current(w).with
  BY DEF Members
<1>1. Current(w).do = "meet" /\ todo[w] # <<>> /\ \A q \in G : todo[q] # <<>> /\ Current(q) = Current(w)
  BY <1>0 DEF Gathered, At, Current
<1>2. PICK t \in 1 .. z.len : G \subseteq World /\ w \in G /\ \A q \in G : q \notin raised /\ Acts(z, now, q, t)
  BY <1>0, MeetTogether
<1>3. UNCHANGED <<raised, wire, buffered, job>> /\ todo' = Popped(G)
  BY DEF Leave
<1>4. \A v \in World : v \notin G => View(mem'[v]) = View(mem[v])
  OBVIOUS
<1>5. \A v \in G : MeetEffect(w, v)
  OBVIOUS
<1>6. \A u \in G : z.note[t - 1][u] = View(mem[u])
  BY <1>2 DEF Acts
<1>7. ASSUME NEW u \in G
      PROVE  /\ View(mem'[u]) = z.note[t][u]
             /\ \A v \in World : /\ Meets(z, t, u, v) => v \in G
                                 /\ ~Carries(z, t, u, v) /\ ~Carries(z, t, v, u)
  <2>1. u \in World /\ Acts(z, now, u, t) /\ Current(u) = Current(w)
    BY <1>1, <1>2
  <2>2. Met(u, Current(w), z.note[t - 1], launch.steps, z.note[t][u])
    BY <1>1, <2>1, MeetActs
  <2>3. \A v \in World : /\ Meets(z, t, u, v) => v \in G
                         /\ ~Carries(z, t, u, v) /\ ~Carries(z, t, v, u)
    BY <1>0, <1>1, <2>1, MeetActs
  <2>4. View(mem'[u]) = z.note[t][u]
    BY <1>5, <1>6, <2>2 DEF MeetEffect
  <2> QED BY <2>3, <2>4
<1> HIDE DEF G
<1>8. Advance(z, now, G, t) /\ \A u \in G : z.rest[t][u] = Tail(todo[u])
  BY <1>2, ActsAdvance
<1>9. \A u \in G : u \notin raised /\ View(mem'[u]) = z.note[t][u] /\ \A v \in World : Meets(z, t, u, v) => v \in G
  BY <1>2, <1>7
<1>10. \A u, v \in World : Carries(z, t, u, v) => (u \in G <=> v \in G)
  BY <1>7
<1> DEFINE on == Moved(now, G, t)
<1>12. on = Moved(now, G, t)
  OBVIOUS
<1> HIDE DEF on
<1>13. PICK x : x = on
  OBVIOUS
<1>14. Performs(z, x, letters)'
  BY <1>3, <1>4, <1>8, <1>9, <1>10, <1>12, <1>13, StandingFacts, RanksMove
<1> QED BY <1>14

\* What a rank's state says, as a note.
LEMMA ViewFields ==
  ASSUME NEW m
  PROVE  /\ View(m).batch = m.batch /\ View(m).act = m.act /\ View(m).out = m.out /\ View(m).grad = m.grad
         /\ View(m).loss = m.loss /\ View(m).count = m.count /\ View(m).norm = m.norm /\ View(m).answers = m.answers
BY DEF View

LEMMA ViewHeld ==
  ASSUME NEW w, NEW i, NEW c
  PROVE  /\ NoteHeld(w, View(mem[w]), i) = Held(w, i)
         /\ NotePayload(w, View(mem[w]), c) = IF c.what = "activation" THEN Held(w, c.slot) ELSE mem[w].out[c.slot]
<1>1. NoteHeld(w, View(mem[w]), i) = Held(w, i) /\ NoteHeld(w, View(mem[w]), c.slot) = Held(w, c.slot)
  BY ViewFields DEF NoteHeld, Held
<1> QED BY <1>1, ViewFields DEF NotePayload

LEMMA ViewPayload ==
  ASSUME NEW w
  PROVE  NotePayload(w, View(mem[w]), Current(w)) = Payload(w)
BY ViewHeld DEF Payload

LEMMA ViewReceived ==
  ASSUME MemHas, NEW v \in World, NEW data, Received(v, data)
  PROVE  /\ View(mem'[v]) = Got(View(mem[v]), Current(v), data)
         /\ \A u \in World : u # v => mem'[u] = mem[u]
         /\ DOMAIN mem' = World /\ \A u \in World : NoteFields \subseteq DOMAIN mem'[u]
<1> DEFINE s == Current(v).slot
<1>1. DOMAIN mem = World /\ NoteFields \subseteq DOMAIN mem[v]
  BY DEF MemHas
<1>2. "act" \in DOMAIN mem[v] /\ "out" \in DOMAIN mem[v]
  BY <1>1 DEF NoteFields
<1>3. CASE Current(v).what = "activation"
  <2>1. mem' = [mem EXCEPT ![v].act[s] = data]
    BY <1>3 DEF Received
  <2> HIDE DEF s
  <2>2. mem' = [mem EXCEPT ![v] = [mem[v] EXCEPT !.act = [mem[v].act EXCEPT ![s] = data]]]
    BY <2>1
  <2>3. DOMAIN mem' = World /\ (\A u \in World : u # v => mem'[u] = mem[u])
        /\ mem'[v] = [mem[v] EXCEPT !.act = [mem[v].act EXCEPT ![s] = data]]
    BY <1>1, <2>2
  <2> DEFINE a == [mem[v].act EXCEPT ![s] = data]
             o == mem[v]
             n == mem'[v]
  <2>4. n = [o EXCEPT !.act = a] /\ "act" \in DOMAIN o
    BY <1>2, <2>3
  <2> HIDE DEF a, o, n
  <2>5. /\ n.act = a /\ n.batch = o.batch /\ n.out = o.out /\ n.grad = o.grad /\ n.loss = o.loss
        /\ n.count = o.count /\ n.norm = o.norm /\ n.answers = o.answers /\ DOMAIN n = DOMAIN o
    BY <2>4
  <2>6. View(n) = [View(o) EXCEPT !.act = a]
    BY <2>5 DEF View
  <2>7. [View(o).act EXCEPT ![s] = data] = a
    BY ViewFields DEF a, o
  <2>8. View(n) = Got(View(o), Current(v), data)
    BY <1>3, <2>6, <2>7 DEF Got, s
  <2>9. View(mem'[v]) = Got(View(mem[v]), Current(v), data) /\ DOMAIN mem'[v] = DOMAIN mem[v]
    BY <2>5, <2>8 DEF n, o
  <2> QED BY <2>3, <2>9 DEF MemHas
<1>4. CASE Current(v).what # "activation"
  <2>1. mem' = [mem EXCEPT ![v].out[s] = data]
    BY <1>4 DEF Received
  <2> HIDE DEF s
  <2>2. mem' = [mem EXCEPT ![v] = [mem[v] EXCEPT !.out = [mem[v].out EXCEPT ![s] = data]]]
    BY <2>1
  <2>3. DOMAIN mem' = World /\ (\A u \in World : u # v => mem'[u] = mem[u])
        /\ mem'[v] = [mem[v] EXCEPT !.out = [mem[v].out EXCEPT ![s] = data]]
    BY <1>1, <2>2
  <2> DEFINE a == [mem[v].out EXCEPT ![s] = data]
             o == mem[v]
             n == mem'[v]
  <2>4. n = [o EXCEPT !.out = a] /\ "out" \in DOMAIN o
    BY <1>2, <2>3
  <2> HIDE DEF a, o, n
  <2>5. /\ n.out = a /\ n.batch = o.batch /\ n.act = o.act /\ n.grad = o.grad /\ n.loss = o.loss
        /\ n.count = o.count /\ n.norm = o.norm /\ n.answers = o.answers /\ DOMAIN n = DOMAIN o
    BY <2>4
  <2>6. View(n) = [View(o) EXCEPT !.out = a]
    BY <2>5 DEF View
  <2>7. [View(o).out EXCEPT ![s] = data] = a
    BY ViewFields DEF a, o
  <2>8. View(n) = Got(View(o), Current(v), data)
    BY <1>4, <2>6, <2>7 DEF Got, s
  <2>9. View(mem'[v]) = Got(View(mem[v]), Current(v), data) /\ DOMAIN mem'[v] = DOMAIN mem[v]
    BY <2>5, <2>8 DEF n, o
  <2> QED BY <2>3, <2>9 DEF MemHas
<1> QED BY <1>3, <1>4

\* A send and its receive in one step.
LEMMA PassMoves ==
  ASSUME NEW z, NEW now, NEW letters, Standing(z, now, letters), NEW w \in World, NEW v \in World, Exchange(w, v)
  PROVE  \E on : Performs(z, on, letters)'
<1>1. /\ Pass(w, v) /\ Received(v, Payload(w)) /\ job' = job /\ MemHas
  BY DEF Exchange, Standing
<1>2. /\ ~buffered /\ todo[w] # <<>> /\ Current(w).do = "send" /\ Current(w).with = {v}
      /\ todo[v] # <<>> /\ Current(v).do = "recv" /\ Current(v).with = {w} /\ Leave({w, v})
  BY <1>1 DEF Pass, At, Current
<1>3. w \notin raised /\ v \notin raised
  BY <1>2, RankActs
<1>4. PICK t : Acts(z, now, w, t)
  BY <1>2, RankActs
<1>5. PICK s : Acts(z, now, v, s)
  BY <1>2, RankActs
<1>6. /\ Carries(z, t, w, v) /\ z.note[t][w] = View(mem[w])
      /\ \A u \in World : (Carries(z, t, w, u) => u = v) /\ ~Meets(z, t, w, u) /\ ~Carries(z, t, u, w)
  <2>1. /\ z.note[t][w] = View(mem[w])
        /\ \E q \in World : /\ Current(w).with = {q} /\ Carries(z, t, w, q)
                            /\ \A u \in World : Carries(z, t, w, u) => u = q
        /\ \A u \in World : ~Meets(z, t, w, u) /\ ~Carries(z, t, u, w)
    BY <1>2, <1>4, SendActs
  <2> QED BY <1>2, <2>1
<1>7. /\ Carries(z, s, w, v) /\ z.note[s][v] = Got(View(mem[v]), Current(v), NotePayload(w, z.note[s - 1][w], Current(v)))
      /\ \A u \in World : (Carries(z, s, u, v) => u = w) /\ ~Meets(z, s, v, u) /\ ~Carries(z, s, v, u)
  <2>1. /\ \E q \in World : /\ Current(v).with = {q} /\ Carries(z, s, q, v)
                            /\ z.note[s][v] = Got(View(mem[v]), Current(v), NotePayload(q, z.note[s - 1][q], Current(v)))
                            /\ \A u \in World : Carries(z, s, u, v) => u = q
        /\ \A u \in World : ~Meets(z, s, v, u) /\ ~Carries(z, s, v, u)
    BY <1>2, <1>5, RecvActs
  <2> QED BY <1>2, <2>1
<1>8. t \in 1 .. z.len /\ s \in 1 .. z.len /\ Next(z, w, now[w], t) /\ Next(z, v, now[v], s)
  BY <1>4, <1>5 DEF Acts
<1>9. now[w] \in 0 .. z.len /\ now[v] \in 0 .. z.len /\ z.len \in Nat /\ Clocks(z, now) /\ Wired(z, now, letters)
  BY StandingFacts
<1>10. s = t
  <2>1. now[w] < t /\ now[v] < s
    BY <1>8, <1>9 DEF Next
  <2>2. ~(t <= now[v])
    <3>1. t <= now[v] => t <= now[w]
      BY <1>6, <1>8, <1>9 DEF Clocks
    <3> QED BY <1>8, <1>9, <2>1, <3>1
  <2>3. ~(s <= now[w])
    <3>1. letters[w][v] = <<>> /\ Sent(z, now, w, v, letters[w][v])
      BY <1>2, <1>9 DEF Wired, Mails
    <3>2. ~\E k \in 1 .. Len(letters[w][v]) : letters[w][v][k] = s
      BY <3>1
    <3> QED BY <1>7, <1>8, <1>9, <2>1, <3>1, <3>2 DEF Sent
  <2>4. z.at[t][v] # <<>> /\ z.at[s][w] # <<>>
    BY <1>6, <1>7, NotBoth
  <2>5. t \notin now[v] + 1 .. s - 1 /\ s \notin now[w] + 1 .. t - 1
    BY <1>8, <2>4 DEF Next
  <2> QED BY <1>8, <1>9, <2>2, <2>3, <2>5
<1> DEFINE G == {w, v}
<1>11. w # v /\ G \subseteq World /\ Acts(z, now, v, t)
  BY <1>5, <1>6, <1>10, NotBoth
<1>12. Advance(z, now, G, t) /\ \A u \in G : z.rest[t][u] = Tail(todo[u])
  <2>1. \A u \in G : Acts(z, now, u, t)
    BY <1>4, <1>11
  <2>2. G \subseteq World
    BY <1>11
  <2> HIDE DEF G
  <2> QED BY <1>8, <2>1, <2>2, ActsAdvance
<1>13. todo' = Popped(G) /\ UNCHANGED <<raised, wire, buffered, job>>
  BY <1>1, <1>2 DEF Leave
<1>14. View(mem'[v]) = Got(View(mem[v]), Current(v), Payload(w)) /\ \A u \in World : u # v => mem'[u] = mem[u]
  BY <1>1, ViewReceived
<1>15. View(mem'[v]) = z.note[t][v]
  <2>1. z.note[t - 1][w] = View(mem[w]) /\ z.at[t][w] = <<Current(w)>> /\ z.at[t][v] = <<Current(v)>>
    BY <1>4, <1>11 DEF Acts
  <2>2. Head(z.at[t][w]) = Current(w) /\ Head(z.at[t][v]) = Current(v)
    BY <2>1
  <2>3. Current(w).what = Current(v).what /\ Current(w).slot = Current(v).slot
    BY <1>6, <2>2, NotBoth
  <2>4. NotePayload(w, View(mem[w]), Current(v)) = Payload(w)
    BY <2>3, ViewHeld DEF Payload
  <2> QED BY <1>7, <1>10, <1>14, <2>1, <2>4
<1>16. View(mem'[w]) = z.note[t][w]
  BY <1>6, <1>11, <1>14
<1>17. \A u \in G : u \notin raised /\ View(mem'[u]) = z.note[t][u]
  BY <1>3, <1>15, <1>16
<1>18. \A u \in World : u \notin G => View(mem'[u]) = View(mem[u])
  BY <1>14
<1>19. \A u \in G : \A x \in World : Meets(z, t, u, x) => x \in G
  BY <1>6, <1>7, <1>10
<1>20. \A a, b \in World : Carries(z, t, a, b) => (a \in G <=> b \in G)
  BY <1>6, <1>7, <1>10
<1> HIDE DEF G
<1> DEFINE on == Moved(now, G, t)
<1>21. on = Moved(now, G, t)
  OBVIOUS
<1> HIDE DEF on
<1>22. PICK x : x = on
  OBVIOUS
<1>23. Performs(z, x, letters)'
  BY <1>12, <1>13, <1>17, <1>18, <1>19, <1>20, <1>21, <1>22, StandingFacts, RanksMove
<1> QED BY <1>23

\* The mail of one pair changes.
Remailed(letters, u, v, l) ==
  [a \in World |-> [b \in World |-> IF a = u /\ b = v THEN l ELSE letters[a][b]]]

LEMMA OthersMail ==
  ASSUME NEW z, NEW now, NEW letters, Clocks(z, now), Wired(z, now, letters), NEW G, NEW t, Advance(z, now, G, t),
         NEW u \in World, NEW v \in World, job' = job, buffered' = buffered,
         \A a, b \in World : ~(a = u /\ b = v) => (Carries(z, t, a, b) => (a \in G <=> b \in G)),
         Wires', \A a, b \in World : ~(a = u /\ b = v) => wire'[a][b] = wire[a][b],
         NEW on, on = Moved(now, G, t),
         NEW l, Sent(z, on, u, v, l), wire'[u][v] = Letters(z, u, l), ~buffered => l = <<>>,
         NEW more, more = Remailed(letters, u, v, l)
  PROVE  Wired(z, on, more)'
<1>1. World' = World
  BY DEF World
<1>2. ASSUME NEW a \in World, NEW b \in World PROVE Mails(z, on, more, a, b)'
  <2>1. CASE a = u /\ b = v
    <3>1. more[a][b] = l
      BY <2>1 DEF Remailed
    <3>2. Letters(z, u, l)' = Letters(z, u, l)
      BY LettersStay
    <3> QED BY <2>1, <3>1, <3>2 DEF Mails, Sent
  <2>2. CASE ~(a = u /\ b = v)
    <3> DEFINE k == letters[a][b]
    <3>1. more[a][b] = k
      BY <2>2 DEF Remailed
    <3>2. Sent(z, now, a, b, k) /\ wire[a][b] = Letters(z, a, k) /\ (~buffered => k = <<>>)
      BY DEF Wired, Mails
    <3> HIDE DEF k
    <3>3. Carries(z, t, a, b) => (a \in G <=> b \in G)
      BY <2>2
    <3>4. Sent(z, on, a, b, k)
      BY <3>2, <3>3, SentStays
    <3>5. Letters(z, a, k)' = Letters(z, a, k)
      BY LettersStay
    <3>6. wire'[a][b] = wire[a][b]
      BY <2>2
    <3> QED BY <3>1, <3>2, <3>4, <3>5, <3>6 DEF Mails, Sent
  <2> QED BY <2>1, <2>2
<1> QED BY <1>1, <1>2 DEF Wired

LEMMA PostMoves ==
  ASSUME NEW z, NEW now, NEW letters, Standing(z, now, letters), NEW w \in World, NEW v \in World, Sending(w, v)
  PROVE  \E on, more : Performs(z, on, more)'
<1>1. Post(w, v, Payload(w)) /\ job' = job /\ mem' = mem
  BY DEF Sending, taskVars
<1>2. /\ buffered /\ todo[w] # <<>> /\ Current(w).do = "send" /\ Current(w).with = {v} /\ todo' = Popped({w})
      /\ wire' = [wire EXCEPT ![w][v] = Append(@, Payload(w))] /\ UNCHANGED <<raised, buffered>>
  BY <1>1 DEF Post, At, Current
<1>3. w \notin raised
  BY <1>2, RankActs
<1>4. PICK t : Acts(z, now, w, t)
  BY <1>2, RankActs
<1>5. /\ Carries(z, t, w, v) /\ z.note[t][w] = View(mem[w])
      /\ \A u \in World : (Carries(z, t, w, u) => u = v) /\ ~Meets(z, t, w, u) /\ ~Carries(z, t, u, w)
  <2>1. /\ z.note[t][w] = View(mem[w])
        /\ \E q \in World : /\ Current(w).with = {q} /\ Carries(z, t, w, q)
                            /\ \A u \in World : Carries(z, t, w, u) => u = q
        /\ \A u \in World : ~Meets(z, t, w, u) /\ ~Carries(z, t, u, w)
    BY <1>2, <1>4, SendActs
  <2> QED BY <1>2, <2>1
<1>6. /\ job \in Jobs /\ DOMAIN todo = World /\ Clocks(z, now) /\ Follows(z, now) /\ Wired(z, now, letters)
  BY StandingFacts
<1> DEFINE G == {w}
           l == letters[w][v]
           more == Remailed(letters, w, v, Append(l, t))
           on == Moved(now, G, t)
<1>7. t \in 1 .. z.len
  BY <1>4 DEF Acts
<1>8. Advance(z, now, G, t) /\ \A u \in G : z.rest[t][u] = Tail(todo[u])
  <2>1. (\A u \in G : Acts(z, now, u, t)) /\ G \subseteq World
    BY <1>4
  <2> HIDE DEF G
  <2> QED BY <1>7, <2>1, ActsAdvance
<1>9. Sent(z, now, w, v, l) /\ wire[w][v] = Letters(z, w, l)
  BY <1>6 DEF Wired, Mails
<1>10. Sent(z, on, w, v, Append(l, t))
  <2>1. Advance(z, now, {w}, t)
    BY <1>8
  <2> HIDE DEF l
  <2> QED BY <1>5, <1>6, <1>9, <2>1, PostSent
<1>11. wire'[w][v] = Letters(z, w, Append(l, t))
  <2>1. wire'[w][v] = Append(wire[w][v], Payload(w))
    BY <1>2, <1>6 DEF Wired, Wires
  <2>2. z.note[t - 1][w] = View(mem[w]) /\ z.at[t][w] = <<Current(w)>>
    BY <1>4 DEF Acts
  <2>3. Head(z.at[t][w]) = Current(w)
    BY <2>2
  <2>4. Carried(z, t, w) = Payload(w)
    BY <2>2, <2>3, ViewPayload DEF Carried
  <2> DEFINE S == 1 .. z.len
  <2>5. l \in Seq(S) /\ t \in S
    BY <1>7, <1>9 DEF Sent
  <2> HIDE DEF S, l
  <2>6. Append(Letters(z, w, l), Carried(z, t, w)) = Letters(z, w, Append(l, t))
    BY <2>5, LettersChange
  <2> QED BY <1>9, <2>1, <2>4, <2>6
<1>12. Wires' /\ \A a, b \in World : ~(a = w /\ b = v) => wire'[a][b] = wire[a][b]
  <2>1. World' = World
    BY <1>1 DEF World
  <2> QED BY <1>2, <1>6, <2>1 DEF Wired, Wires
<1>13. \A a, b \in World : ~(a = w /\ b = v) => (Carries(z, t, a, b) => (a \in G <=> b \in G))
  BY <1>5
<1>14. \A u \in G : \A x \in World : Meets(z, t, u, x) => x \in G
  BY <1>5
<1>15. \A x \in G : \A u \in World : Carries(z, t, u, x) => u \in G \/ t <= now[u]
  BY <1>5
<1>16. \A u \in G : u \notin raised /\ View(mem'[u]) = z.note[t][u]
  BY <1>1, <1>3, <1>5
<1>17. (\A u \in World : u \notin G => View(mem'[u]) = View(mem[u])) /\ todo' = Popped(G)
  BY <1>1, <1>2
<1>18. on = Moved(now, G, t) /\ more = Remailed(letters, w, v, Append(l, t))
  OBVIOUS
<1> HIDE DEF G, on, more, l
<1>19. PICK x, y : x = on /\ y = more
  OBVIOUS
<1>20. Clocks(z, x)' /\ Follows(z, x)'
  BY <1>1, <1>2, <1>6, <1>8, <1>14, <1>15, <1>16, <1>17, <1>18, <1>19, RanksFollow
<1>21. Wired(z, x, y)'
  <2> DEFINE k == Append(l, t)
  <2>1. Sent(z, x, w, v, k) /\ wire'[w][v] = Letters(z, w, k) /\ y = Remailed(letters, w, v, k) /\ x = Moved(now, G, t)
    BY <1>10, <1>11, <1>18, <1>19
  <2> HIDE DEF k
  <2> QED BY <1>1, <1>2, <1>6, <1>8, <1>12, <1>13, <2>1, OthersMail
<1>22. Performs(z, x, y)'
  BY <1>20, <1>21 DEF Performs
<1> QED BY <1>22

LEMMA TakeMoves ==
  ASSUME NEW z, NEW now, NEW letters, Standing(z, now, letters), NEW w \in World, NEW v \in World, Receiving(w, v)
  PROVE  \E on, more : Performs(z, on, more)'
<1>1. Take(w, v) /\ job' = job /\ Received(w, Head(wire[v][w])) /\ MemHas
  BY DEF Receiving, Standing
<1>2. /\ todo[w] # <<>> /\ Current(w).do = "recv" /\ Current(w).with = {v} /\ todo' = Popped({w})
      /\ wire[v][w] # <<>> /\ wire' = [wire EXCEPT ![v][w] = Tail(@)] /\ UNCHANGED <<raised, buffered>>
  BY <1>1 DEF Take, Arrives, At, Current
<1>3. w \notin raised
  BY <1>2, RankActs
<1>4. PICK t : Acts(z, now, w, t)
  BY <1>2, RankActs
<1>5. /\ Carries(z, t, v, w) /\ z.note[t][w] = Got(View(mem[w]), Current(w), NotePayload(v, z.note[t - 1][v], Current(w)))
      /\ \A u \in World : (Carries(z, t, u, w) => u = v) /\ ~Meets(z, t, w, u) /\ ~Carries(z, t, w, u)
  <2>1. /\ \E q \in World : /\ Current(w).with = {q} /\ Carries(z, t, q, w)
                            /\ z.note[t][w] = Got(View(mem[w]), Current(w), NotePayload(q, z.note[t - 1][q], Current(w)))
                            /\ \A u \in World : Carries(z, t, u, w) => u = q
        /\ \A u \in World : ~Meets(z, t, w, u) /\ ~Carries(z, t, w, u)
    BY <1>2, <1>4, RecvActs
  <2> QED BY <1>2, <2>1
<1>6. /\ job \in Jobs /\ DOMAIN todo = World /\ Clocks(z, now) /\ Follows(z, now) /\ Wired(z, now, letters)
  BY StandingFacts
<1> DEFINE G == {w}
           l == letters[v][w]
           more == Remailed(letters, v, w, Tail(l))
           on == Moved(now, G, t)
           S == 1 .. z.len
<1>7. t \in 1 .. z.len
  BY <1>4 DEF Acts
<1>8. Advance(z, now, G, t) /\ \A u \in G : z.rest[t][u] = Tail(todo[u])
  <2>1. (\A u \in G : Acts(z, now, u, t)) /\ G \subseteq World
    BY <1>4
  <2> HIDE DEF G
  <2> QED BY <1>7, <2>1, ActsAdvance
<1>9. Sent(z, now, v, w, l) /\ wire[v][w] = Letters(z, v, l) /\ (~buffered => l = <<>>) /\ l \in Seq(S)
  BY <1>6 DEF Wired, Mails, Sent
<1>10. l # <<>> /\ Head(Letters(z, v, l)) = Carried(z, l[1], v) /\ Tail(Letters(z, v, l)) = Letters(z, v, Tail(l))
  <2> HIDE DEF S, l
  <2>1. Letters(z, v, l) # <<>> => l # <<>>
    BY <1>9, LettersChange
  <2>2. l # <<>>
    BY <1>2, <1>9, <2>1
  <2> QED BY <1>9, <2>2, LettersChange
<1>11. l[1] = t /\ t <= now[v] /\ Sent(z, on, v, w, Tail(l))
  <2>1. Advance(z, now, {w}, t)
    BY <1>8
  <2> HIDE DEF l
  <2> QED BY <1>5, <1>6, <1>9, <1>10, <2>1, TakeSent
<1>12. wire'[v][w] = Letters(z, v, Tail(l))
  <2>1. wire'[v][w] = Tail(wire[v][w])
    BY <1>2, <1>6 DEF Wired, Wires
  <2> QED BY <1>9, <1>10, <2>1
<1>13. ~buffered => Tail(l) = <<>>
  BY <1>9, <1>10
<1>14. Wires' /\ \A a, b \in World : ~(a = v /\ b = w) => wire'[a][b] = wire[a][b]
  <2>1. World' = World
    BY <1>1 DEF World
  <2> QED BY <1>2, <1>6, <2>1 DEF Wired, Wires
<1>15. \A a, b \in World : ~(a = v /\ b = w) => (Carries(z, t, a, b) => (a \in G <=> b \in G))
  BY <1>5
<1>16. \A u \in G : \A x \in World : Meets(z, t, u, x) => x \in G
  BY <1>5
<1>17. \A x \in G : \A u \in World : Carries(z, t, u, x) => u \in G \/ t <= now[u]
  BY <1>5, <1>11
<1>18. View(mem'[w]) = z.note[t][w] /\ \A u \in World : u # w => mem'[u] = mem[u]
  <2>1. View(mem'[w]) = Got(View(mem[w]), Current(w), Head(wire[v][w])) /\ \A u \in World : u # w => mem'[u] = mem[u]
    BY <1>1, ViewReceived
  <2>2. Head(wire[v][w]) = NotePayload(v, z.note[t - 1][v], Head(z.at[t][v]))
    BY <1>9, <1>10, <1>11 DEF Carried
  <2>3. z.at[t][w] = <<Current(w)>>
    BY <1>4 DEF Acts
  <2>4. Head(z.at[t][w]) = Current(w)
    BY <2>3
  <2>5. Head(z.at[t][v]).what = Current(w).what /\ Head(z.at[t][v]).slot = Current(w).slot
    BY <1>5, <2>4, NotBoth
  <2>6. NotePayload(v, z.note[t - 1][v], Head(z.at[t][v])) = NotePayload(v, z.note[t - 1][v], Current(w))
    BY <2>5 DEF NotePayload
  <2> QED BY <1>5, <2>1, <2>2, <2>6
<1>19. \A u \in G : u \notin raised /\ View(mem'[u]) = z.note[t][u]
  BY <1>3, <1>18
<1>20. (\A u \in World : u \notin G => View(mem'[u]) = View(mem[u])) /\ todo' = Popped(G)
  BY <1>2, <1>18
<1>21. on = Moved(now, G, t) /\ more = Remailed(letters, v, w, Tail(l))
  OBVIOUS
<1> HIDE DEF G, on, more, l, S
<1>22. PICK x, y : x = on /\ y = more
  OBVIOUS
<1>23. Clocks(z, x)' /\ Follows(z, x)'
  BY <1>1, <1>2, <1>6, <1>8, <1>16, <1>17, <1>19, <1>20, <1>21, <1>22, RanksFollow
<1>24. Wired(z, x, y)'
  <2> DEFINE k == Tail(l)
  <2>1. /\ Sent(z, x, v, w, k) /\ wire'[v][w] = Letters(z, v, k) /\ y = Remailed(letters, v, w, k) /\ x = Moved(now, G, t)
        /\ ~buffered => k = <<>>
    BY <1>11, <1>12, <1>13, <1>21, <1>22
  <2> HIDE DEF k
  <2> QED BY <1>1, <1>2, <1>6, <1>8, <1>14, <1>15, <2>1, OthersMail
<1>25. Performs(z, x, y)'
  BY <1>23, <1>24 DEF Performs
<1> QED BY <1>25

\* A rank's state with one field changed.
LEMMA FieldChange ==
  ASSUME NEW o, NoteFields \subseteq DOMAIN o, NEW x
  PROVE  /\ View([o EXCEPT !.count = x]) = [View(o) EXCEPT !.count = x]
         /\ View([o EXCEPT !.grad = x]) = [View(o) EXCEPT !.grad = x]
         /\ View([o EXCEPT !.norm = x]) = [View(o) EXCEPT !.norm = x]
         /\ View([o EXCEPT !.loss = x]) = [View(o) EXCEPT !.loss = x]
         /\ View([o EXCEPT !.answers = x]) = [View(o) EXCEPT !.answers = x]
         /\ View([o EXCEPT !.run = x]) = View(o) /\ View([o EXCEPT !.step = x]) = View(o)
         /\ View([o EXCEPT !.error = x]) = View(o)
<1>1. /\ "count" \in DOMAIN o /\ "grad" \in DOMAIN o /\ "norm" \in DOMAIN o /\ "loss" \in DOMAIN o /\ "answers" \in DOMAIN o
  BY DEF NoteFields
<1>2. View([o EXCEPT !.count = x]) = [View(o) EXCEPT !.count = x]
  BY <1>1 DEF View
<1>3. View([o EXCEPT !.grad = x]) = [View(o) EXCEPT !.grad = x]
  BY <1>1 DEF View
<1>4. View([o EXCEPT !.norm = x]) = [View(o) EXCEPT !.norm = x]
  BY <1>1 DEF View
<1>5. View([o EXCEPT !.loss = x]) = [View(o) EXCEPT !.loss = x]
  BY <1>1 DEF View
<1>6. View([o EXCEPT !.answers = x]) = [View(o) EXCEPT !.answers = x]
  BY <1>1 DEF View
<1>7. View([o EXCEPT !.run = x]) = View(o) /\ View([o EXCEPT !.step = x]) = View(o) /\ View([o EXCEPT !.error = x]) = View(o)
  BY DEF View
<1> QED BY <1>2, <1>3, <1>4, <1>5, <1>6, <1>7

\* One rank's state changes.
LEMMA OneChange ==
  ASSUME MemHas, job' = job, NEW w \in World, NEW x, mem' = [mem EXCEPT ![w] = x], NoteFields \subseteq DOMAIN x
  PROVE  /\ MemHas' /\ mem'[w] = x /\ \A v \in World : v # w => View(mem'[v]) = View(mem[v])
<1>1. World' = World /\ DOMAIN mem = World
  BY DEF World, MemHas
<1>2. DOMAIN mem' = World /\ \A v \in World : mem'[v] = IF v = w THEN x ELSE mem[v]
  BY <1>1
<1>3. \A v \in World : NoteFields \subseteq DOMAIN mem'[v]
  BY <1>2 DEF MemHas
<1>4. MemHas'
  BY <1>1, <1>2, <1>3 DEF MemHas, NoteFields
<1> QED BY <1>2, <1>4

\* The work of one rank.
LoadedState(w) ==
  [mem[w] EXCEPT !.batch = mem[w].batch + 1, !.grad = {}, !.loss = {}, !.norm = {}, !.count = {Replica(w)}]

LEMMA LoadMoves ==
  ASSUME NEW z, NEW now, NEW letters, Standing(z, now, letters), NEW w \in World, LoadBatch(w)
  PROVE  MemHas' /\ \E on : Performs(z, on, letters)'
<1>1. At(w, "local") /\ Current(w).what = "load" /\ Leave({w}) /\ job' = job /\ MemHas
  BY DEF LoadBatch, Own, Work, Standing
<1>2. DOMAIN mem = World /\ NoteFields \subseteq DOMAIN mem[w]
  BY <1>1 DEF MemHas
<1>3. mem' = [mem EXCEPT ![w] = LoadedState(w)]
  BY <1>2 DEF LoadBatch, LoadedState
<1> DEFINE n == LoadedState(w)
           o == mem[w]
<1>4. /\ n.batch = o.batch + 1 /\ n.grad = {} /\ n.loss = {} /\ n.norm = {} /\ n.count = {Replica(w)}
      /\ n.act = o.act /\ n.out = o.out /\ n.answers = o.answers /\ DOMAIN n = DOMAIN o
  BY <1>2 DEF LoadedState, NoteFields
<1> HIDE DEF n
<1>5. MemHas' /\ mem'[w] = n /\ \A v \in World : v # w => View(mem'[v]) = View(mem[v])
  BY <1>1, <1>2, <1>3, <1>4, OneChange DEF n
<1>6. ASSUME NEW m, Worked(w, Current(w), View(mem[w]), m) PROVE View(mem'[w]) = m
  <2>1. m = [batch |-> View(o).batch + 1, act |-> View(o).act, out |-> View(o).out, grad |-> {}, loss |-> {},
             count |-> {Replica(w)}, norm |-> {}, answers |-> View(o).answers]
    BY <1>1, <1>6 DEF Worked
  <2>2. View(n) = [batch |-> o.batch + 1, act |-> o.act, out |-> o.out, grad |-> {}, loss |-> {},
                   count |-> {Replica(w)}, norm |-> {}, answers |-> o.answers]
    BY <1>4 DEF View
  <2> QED BY <1>5, <2>1, <2>2, ViewFields
<1> QED BY <1>1, <1>5, <1>6, LocalMoves

LEMMA LossMoves ==
  ASSUME NEW z, NEW now, NEW letters, Standing(z, now, letters), NEW w \in World, AddLoss(w)
  PROVE  MemHas' /\ \E on : Performs(z, on, letters)'
<1>1. At(w, "local") /\ Current(w).what = "loss" /\ Leave({w}) /\ job' = job /\ MemHas
  BY DEF AddLoss, Own, Work, Standing
<1>2. DOMAIN mem = World /\ NoteFields \subseteq DOMAIN mem[w]
  BY <1>1 DEF MemHas
<1> DEFINE h == Held(w, Current(w).slot)
           o == mem[w]
           n == [o EXCEPT !.loss = Added(o.loss, h)]
<1>3. mem' = [mem EXCEPT ![w] = n]
  BY <1>2 DEF AddLoss
<1>4. DOMAIN n = DOMAIN o /\ View(n) = [View(o) EXCEPT !.loss = Added(o.loss, h)]
  BY <1>2, FieldChange
<1>5. MemHas' /\ mem'[w] = n /\ \A v \in World : v # w => View(mem'[v]) = View(mem[v])
  <2> HIDE DEF n
  <2> QED BY <1>1, <1>2, <1>3, <1>4, OneChange
<1>6. ASSUME NEW m, Worked(w, Current(w), View(mem[w]), m) PROVE View(mem'[w]) = m
  <2>1. m = [View(o) EXCEPT !.loss = Added(View(o).loss, NoteHeld(w, View(o), Current(w).slot))]
    BY <1>1, <1>6 DEF Worked
  <2>2. NoteHeld(w, View(o), Current(w).slot) = h /\ View(o).loss = o.loss
    BY ViewHeld, ViewFields
  <2> HIDE DEF h, o, n
  <2> QED BY <1>4, <1>5, <2>1, <2>2
<1> QED BY <1>1, <1>5, <1>6, LocalMoves

LEMMA GradientMoves ==
  ASSUME NEW z, NEW now, NEW letters, Standing(z, now, letters), NEW w \in World, ComputeGradient(w)
  PROVE  MemHas' /\ \E on : Performs(z, on, letters)'
<1>1. At(w, "local") /\ Current(w).what = "backward" /\ Leave({w}) /\ job' = job /\ MemHas
  BY DEF ComputeGradient, Own, Work, Standing
<1>2. DOMAIN mem = World /\ NoteFields \subseteq DOMAIN mem[w]
  BY <1>1 DEF MemHas
<1> DEFINE i == Current(w).slot
           g == IF Final(w) \/ mem[w].out[i] = Held(w, i) THEN Held(w, i) ELSE Spoiled
           o == mem[w]
           n == [o EXCEPT !.grad = Added(o.grad, g), !.out = [o.out EXCEPT ![i] = g]]
<1>3. mem' = [mem EXCEPT ![w].grad = Added(@, g), ![w].out[i] = g]
  BY DEF ComputeGradient
<1>4. NoteGradient(w, View(o), i) = g
  BY ViewHeld, ViewFields DEF NoteGradient
<1> HIDE DEF g, i
<1>5. mem' = [mem EXCEPT ![w] = n]
  BY <1>2, <1>3
<1>6. /\ n.grad = Added(o.grad, g) /\ n.out = [o.out EXCEPT ![i] = g] /\ DOMAIN n = DOMAIN o
      /\ n.batch = o.batch /\ n.act = o.act /\ n.loss = o.loss /\ n.count = o.count /\ n.norm = o.norm /\ n.answers = o.answers
  BY <1>2 DEF NoteFields
<1> HIDE DEF n
<1>7. MemHas' /\ mem'[w] = n /\ \A v \in World : v # w => View(mem'[v]) = View(mem[v])
  BY <1>1, <1>2, <1>5, <1>6, OneChange
<1>8. ASSUME NEW m, Worked(w, Current(w), View(mem[w]), m) PROVE View(mem'[w]) = m
  <2>1. m = [batch |-> View(o).batch, act |-> View(o).act, out |-> [View(o).out EXCEPT ![i] = g],
             grad |-> Added(View(o).grad, g), loss |-> View(o).loss, count |-> View(o).count,
             norm |-> View(o).norm, answers |-> View(o).answers]
    BY <1>1, <1>4, <1>8 DEF Worked, i
  <2>2. m = [batch |-> o.batch, act |-> o.act, out |-> [o.out EXCEPT ![i] = g],
             grad |-> Added(o.grad, g), loss |-> o.loss, count |-> o.count, norm |-> o.norm, answers |-> o.answers]
    BY <2>1, ViewFields
  <2>3. View(n) = [batch |-> o.batch, act |-> o.act, out |-> [o.out EXCEPT ![i] = g],
             grad |-> Added(o.grad, g), loss |-> o.loss, count |-> o.count, norm |-> o.norm, answers |-> o.answers]
    BY <1>6 DEF View
  <2> QED BY <1>7, <2>2, <2>3
<1> QED BY <1>1, <1>7, <1>8, LocalMoves

\* Work that leaves the note as it is, and errors.
LEMMA PlainMoves ==
  ASSUME NEW z, NEW now, NEW letters, Standing(z, now, letters), NEW w \in World,
         At(w, "local"), Current(w).what \notin {"load", "loss", "backward"}, Leave({w}), job' = job,
         \A v \in World : View(mem'[v]) = View(mem[v])
  PROVE  \E on : Performs(z, on, letters)'
<1>1. ASSUME NEW m, Worked(w, Current(w), View(mem[w]), m) PROVE View(mem'[w]) = m
  BY <1>1 DEF Worked
<1> QED BY <1>1, LocalMoves

LEMMA MemStays ==
  ASSUME MemHas, job' = job, mem' = mem
  PROVE  MemHas' /\ \A v \in World : View(mem'[v]) = View(mem[v])
BY DEF MemHas, World, NoteFields

LEMMA SameViews ==
  ASSUME MemHas, job' = job, NEW w \in World, NEW x, mem' = [mem EXCEPT ![w] = x], DOMAIN x = DOMAIN mem[w], View(x) = View(mem[w])
  PROVE  MemHas' /\ \A v \in World : View(mem'[v]) = View(mem[v])
<1>1. NoteFields \subseteq DOMAIN x
  BY DEF MemHas
<1> QED BY <1>1, OneChange

LEMMA RaiseMoves ==
  ASSUME NEW z, NEW now, NEW letters, Standing(z, now, letters), NEW S, Raise(S), UNCHANGED <<job, mem>>
  PROVE  MemHas' /\ \E on : Performs(z, on, letters)'
<1>1. MemHas /\ DOMAIN todo = World /\ Performs(z, now, letters)
  BY StandingFacts DEF Standing
<1>2. Performs(z, now, letters)'
  BY <1>1, RanksRaise
<1> QED BY <1>1, <1>2, MemStays

LEMMA PlainWorkMoves ==
  ASSUME NEW z, NEW now, NEW letters, Standing(z, now, letters), NEW w \in World,
         Update(w) \/ CheckTokens(w) \/ LoadCheckpoint(w) \/ SaveCheckpoint(w) \/ Prepare(w) \/ CaughtFailure(w)
         \/ Failure(w) \/ GiveUp(w)
  PROVE  MemHas' /\ \E on : Performs(z, on, letters)'
<1>1. MemHas /\ DOMAIN mem = World
  BY DEF Standing, MemHas
<1> DEFINE o == mem[w]
<1>2. CASE Update(w)
  <2> DEFINE n == [o EXCEPT !.step = o.step + 1]
  <2>1. At(w, "local") /\ Current(w).what = "update" /\ Leave({w}) /\ job' = job /\ mem' = [mem EXCEPT ![w] = n]
    BY <1>1, <1>2 DEF Update, Own, Work
  <2>2. View(n) = View(o) /\ DOMAIN n = DOMAIN o
    BY DEF View
  <2> HIDE DEF n
  <2>3. MemHas' /\ \A v \in World : View(mem'[v]) = View(mem[v])
    BY <1>1, <2>1, <2>2, SameViews
  <2> QED BY <2>1, <2>3, PlainMoves
<1>3. CASE CheckTokens(w)
  <2>1. At(w, "local") /\ Current(w).what = "tokens" /\ UNCHANGED <<job, mem>> /\ (Raise({w}) \/ Leave({w}))
    BY <1>3 DEF CheckTokens, Work, taskVars
  <2>2. MemHas' /\ \A v \in World : View(mem'[v]) = View(mem[v])
    BY <1>1, <2>1, MemStays
  <2>3. CASE Leave({w})
    BY <2>1, <2>2, <2>3, PlainMoves
  <2> QED BY <2>1, <2>3, RaiseMoves
<1>4. CASE LoadCheckpoint(w)
  <2> DEFINE n == [o EXCEPT !.start = saved[w], !.step = saved[w].step]
  <2>1. At(w, "local") /\ Current(w).what = "load_checkpoint" /\ job' = job
    BY <1>4 DEF LoadCheckpoint, Work
  <2>2. CASE Raise({w}) /\ UNCHANGED mem
    BY <2>1, <2>2, RaiseMoves
  <2>3. CASE Leave({w}) /\ mem' = [mem EXCEPT ![w].start = saved[w], ![w].step = saved[w].step]
    <3>1. mem' = [mem EXCEPT ![w] = n]
      BY <1>1, <2>3
    <3>2. View(n) = View(o) /\ DOMAIN n = DOMAIN o
      BY DEF View
    <3> HIDE DEF n
    <3>3. MemHas' /\ \A v \in World : View(mem'[v]) = View(mem[v])
      BY <1>1, <2>1, <3>1, <3>2, SameViews
    <3> QED BY <2>1, <2>3, <3>3, PlainMoves
  <2> QED BY <1>4, <2>2, <2>3 DEF LoadCheckpoint
<1>5. CASE SaveCheckpoint(w)
  <2>1. At(w, "local") /\ Current(w).what = "save" /\ UNCHANGED <<job, mem>> /\ Leave({w})
    BY <1>5 DEF SaveCheckpoint, Own, Work
  <2> QED BY <1>1, <2>1, MemStays, PlainMoves
<1>6. CASE Prepare(w)
  <2>1. PICK what \in {"device", "data", "directory", "score"} : Own(w, what)
    BY <1>6 DEF Prepare
  <2>2. At(w, "local") /\ Current(w).what \notin {"load", "loss", "backward"} /\ UNCHANGED <<job, mem>> /\ Leave({w})
    BY <1>6, <2>1 DEF Prepare, Own, Work
  <2> QED BY <1>1, <2>2, MemStays, PlainMoves
<1>7. CASE CaughtFailure(w)
  <2> DEFINE n == [o EXCEPT !.error = TRUE]
  <2>1. PICK what \in {"data", "directory", "score"} : Work(w, what)
    BY <1>7 DEF CaughtFailure
  <2>2. At(w, "local") /\ Current(w).what \notin {"load", "loss", "backward"} /\ job' = job /\ Leave({w})
        /\ mem' = [mem EXCEPT ![w] = n]
    BY <1>1, <1>7, <2>1 DEF CaughtFailure, Work
  <2>3. View(n) = View(o) /\ DOMAIN n = DOMAIN o
    BY DEF View
  <2> HIDE DEF n
  <2>4. MemHas' /\ \A v \in World : View(mem'[v]) = View(mem[v])
    BY <1>1, <2>2, <2>3, SameViews
  <2> QED BY <2>2, <2>4, PlainMoves
<1>8. CASE Failure(w)
  BY <1>8, RaiseMoves DEF Failure
<1>9. CASE GiveUp(w)
  BY <1>9, RaiseMoves DEF GiveUp, Desert, taskVars
<1> QED BY <1>2, <1>3, <1>4, <1>5, <1>6, <1>7, <1>8, <1>9

\* The collectives that compute something.
Notes(M, N) == \A u \in M : N[u] = View(mem[u])

LEMMA JoinedChange ==
  ASSUME MemHas, job' = job, NEW M, NEW n, mem' = [v \in World |-> IF v \in M THEN n[v] ELSE mem[v]],
         \A v \in World : DOMAIN n[v] = DOMAIN mem[v]
  PROVE  MemHas' /\ \A v \in World : mem'[v] = IF v \in M THEN n[v] ELSE mem[v]
<1>1. World' = World /\ DOMAIN mem' = World /\ \A v \in World : mem'[v] = IF v \in M THEN n[v] ELSE mem[v]
  BY DEF World
<1>2. \A v \in World : NoteFields \subseteq DOMAIN mem'[v]
  BY <1>1 DEF MemHas
<1>3. MemHas'
  BY <1>1, <1>2 DEF MemHas, NoteFields
<1> QED BY <1>1, <1>3

\* The members come to n, as the notes do.
Becomes(w, n) ==
  /\ mem' = [v \in World |-> IF v \in Members(w) THEN n[v] ELSE mem[v]]
  /\ \A v \in World : DOMAIN n[v] = DOMAIN mem[v]
  /\ \A v \in Members(w) : v \in World =>
       \A N, m : Notes(Members(w), N) /\ Met(v, Current(w), N, launch.steps, m) => View(n[v]) = m

LEMMA JointMoves ==
  ASSUME NEW z, NEW now, NEW letters, Standing(z, now, letters), NEW w \in World, Gathered(w), JointDone(w),
         NEW n, Becomes(w, n)
  PROVE  MemHas' /\ \E on : Performs(z, on, letters)'
<1>0. /\ mem' = [v \in World |-> IF v \in Members(w) THEN n[v] ELSE mem[v]]
      /\ \A v \in World : DOMAIN n[v] = DOMAIN mem[v]
      /\ \A v \in Members(w) : v \in World =>
           \A N, m : Notes(Members(w), N) /\ Met(v, Current(w), N, launch.steps, m) => View(n[v]) = m
  BY DEF Becomes
<1>1. MemHas /\ job' = job /\ Leave(Members(w))
  BY DEF Standing, JointDone
<1>2. MemHas' /\ \A v \in World : mem'[v] = IF v \in Members(w) THEN n[v] ELSE mem[v]
  BY <1>0, <1>1, JoinedChange
<1>3. Members(w) \subseteq World
  <2>1. \E t \in 1 .. z.len : Current(w).with \subseteq World /\ w \in Current(w).with
                  /\ \A q \in Current(w).with : q \notin raised /\ Acts(z, now, q, t)
    BY MeetTogether
  <2> QED BY <2>1 DEF Members
<1>4. ASSUME NEW v \in Members(w) PROVE MeetEffect(w, v)
  <2>1. mem'[v] = n[v] /\ v \in World
    BY <1>2, <1>3
  <2> QED BY <1>0, <2>1 DEF MeetEffect, Notes
<1>5. \A v \in World : v \notin Members(w) => View(mem'[v]) = View(mem[v])
  BY <1>2
<1> QED BY <1>1, <1>2, <1>4, <1>5, MeetMoves

LEMMA CountMoves ==
  ASSUME NEW z, NEW now, NEW letters, Standing(z, now, letters), NEW w \in World, ShareCount(w)
  PROVE  MemHas' /\ \E on : Performs(z, on, letters)'
<1> DEFINE M == Members(w)
           X == UNION {mem[u].count : u \in M}
           n == [v \in World |-> [mem[v] EXCEPT !.count = X]]
<1>1. Gathered(w) /\ Current(w).what = "count" /\ JointDone(w) /\ MemHas /\ Current(w).with = M
  BY DEF ShareCount, Joint, Standing, Members
<1>2. mem' = [v \in World |-> IF v \in M THEN n[v] ELSE mem[v]]
  BY DEF ShareCount, Each
<1>3. \A v \in World : DOMAIN n[v] = DOMAIN mem[v] /\ View(n[v]) = [View(mem[v]) EXCEPT !.count = X]
  <2> TAKE v \in World
  <2>1. NoteFields \subseteq DOMAIN mem[v]
    BY <1>1 DEF MemHas
  <2>2. n[v] = [mem[v] EXCEPT !.count = X]
    OBVIOUS
  <2> HIDE DEF n, X
  <2>3. View([mem[v] EXCEPT !.count = X]) = [View(mem[v]) EXCEPT !.count = X]
    BY <2>1, FieldChange
  <2> QED BY <2>2, <2>3
<1>4. ASSUME NEW v \in M, v \in World, NEW N, NEW m, Notes(M, N), Met(v, Current(w), N, launch.steps, m) PROVE View(n[v]) = m
  <2>1. m = [N[v] EXCEPT !.count = UNION {N[u].count : u \in M}]
    BY <1>1, <1>4 DEF Met
  <2>2. \A u \in M : N[u].count = mem[u].count
    BY <1>4, ViewFields DEF Notes
  <2>3. {N[u].count : u \in M} = {mem[u].count : u \in M}
    BY <2>2
  <2>4. N[v] = View(mem[v])
    BY <1>4 DEF Notes
  <2> HIDE DEF n
  <2> QED BY <1>3, <1>4, <2>1, <2>3, <2>4
<1> HIDE DEF n, X
<1>5. \A v \in M : v \in World => \A N, m : Notes(M, N) /\ Met(v, Current(w), N, launch.steps, m) => View(n[v]) = m
  BY <1>4
<1>6. Becomes(w, n)
  BY <1>1, <1>2, <1>3, <1>5 DEF Becomes, Members
<1> QED BY <1>1, <1>6, JointMoves

LEMMA GradientsMove ==
  ASSUME NEW z, NEW now, NEW letters, Standing(z, now, letters), NEW w \in World, ReduceGradients(w)
  PROVE  MemHas' /\ \E on : Performs(z, on, letters)'
<1> DEFINE M == Members(w)
           X == Gradients(M)
           n == [v \in World |-> [mem[v] EXCEPT !.grad = X]]
<1>1. Gathered(w) /\ Current(w).what = "gradients" /\ JointDone(w) /\ MemHas /\ Current(w).with = M
  BY DEF ReduceGradients, Joint, Standing, Members
<1>2. mem' = [v \in World |-> IF v \in M THEN n[v] ELSE mem[v]]
  BY DEF ReduceGradients, Each
<1>3. \A v \in World : DOMAIN n[v] = DOMAIN mem[v] /\ View(n[v]) = [View(mem[v]) EXCEPT !.grad = X]
  <2> TAKE v \in World
  <2>1. NoteFields \subseteq DOMAIN mem[v]
    BY <1>1 DEF MemHas
  <2>2. n[v] = [mem[v] EXCEPT !.grad = X]
    OBVIOUS
  <2> HIDE DEF n, X
  <2>3. View([mem[v] EXCEPT !.grad = X]) = [View(mem[v]) EXCEPT !.grad = X]
    BY <2>1, FieldChange
  <2> QED BY <2>2, <2>3
<1>4. ASSUME NEW v \in M, v \in World, NEW N, NEW m, Notes(M, N), Met(v, Current(w), N, launch.steps, m) PROVE View(n[v]) = m
  <2>1. m = [N[v] EXCEPT !.grad = Sum([u \in M |-> N[u].grad])]
    BY <1>1, <1>4 DEF Met
  <2>2. \A u \in M : N[u].grad = mem[u].grad
    BY <1>4, ViewFields DEF Notes
  <2>3. [u \in M |-> N[u].grad] = [u \in M |-> mem[u].grad]
    BY <2>2
  <2>4. N[v] = View(mem[v]) /\ X = Sum([u \in M |-> mem[u].grad])
    BY <1>4 DEF Notes, Gradients
  <2> HIDE DEF n, X
  <2> QED BY <1>3, <1>4, <2>1, <2>3, <2>4
<1> HIDE DEF n, X
<1>5. \A v \in M : v \in World => \A N, m : Notes(M, N) /\ Met(v, Current(w), N, launch.steps, m) => View(n[v]) = m
  BY <1>4
<1>6. Becomes(w, n)
  BY <1>1, <1>2, <1>3, <1>5 DEF Becomes, Members
<1> QED BY <1>1, <1>6, JointMoves

LEMMA NormMoves ==
  ASSUME NEW z, NEW now, NEW letters, Standing(z, now, letters), NEW w \in World, ReduceNorm(w)
  PROVE  MemHas' /\ \E on : Performs(z, on, letters)'
<1> DEFINE M == Members(w)
           X == {<<Stage(u), mem[u].grad>> : u \in M}
           n == [v \in World |-> [mem[v] EXCEPT !.norm = X]]
<1>1. Gathered(w) /\ Current(w).what = "norm" /\ JointDone(w) /\ MemHas /\ Current(w).with = M
  BY DEF ReduceNorm, Joint, Standing, Members
<1>2. mem' = [v \in World |-> IF v \in M THEN n[v] ELSE mem[v]]
  BY DEF ReduceNorm, Each
<1>3. \A v \in World : DOMAIN n[v] = DOMAIN mem[v] /\ View(n[v]) = [View(mem[v]) EXCEPT !.norm = X]
  <2> TAKE v \in World
  <2>1. NoteFields \subseteq DOMAIN mem[v]
    BY <1>1 DEF MemHas
  <2>2. n[v] = [mem[v] EXCEPT !.norm = X]
    OBVIOUS
  <2> HIDE DEF n, X
  <2>3. View([mem[v] EXCEPT !.norm = X]) = [View(mem[v]) EXCEPT !.norm = X]
    BY <2>1, FieldChange
  <2> QED BY <2>2, <2>3
<1>4. ASSUME NEW v \in M, v \in World, NEW N, NEW m, Notes(M, N), Met(v, Current(w), N, launch.steps, m) PROVE View(n[v]) = m
  <2>1. m = [N[v] EXCEPT !.norm = {<<Stage(u), N[u].grad>> : u \in M}]
    BY <1>1, <1>4 DEF Met
  <2>2. \A u \in M : N[u].grad = mem[u].grad
    BY <1>4, ViewFields DEF Notes
  <2>3. {<<Stage(u), N[u].grad>> : u \in M} = X
    BY <2>2
  <2>4. N[v] = View(mem[v])
    BY <1>4 DEF Notes
  <2> HIDE DEF n, X
  <2> QED BY <1>3, <1>4, <2>1, <2>3, <2>4
<1> HIDE DEF n, X
<1>5. \A v \in M : v \in World => \A N, m : Notes(M, N) /\ Met(v, Current(w), N, launch.steps, m) => View(n[v]) = m
  BY <1>4
<1>6. Becomes(w, n)
  BY <1>1, <1>2, <1>3, <1>5 DEF Becomes, Members
<1> QED BY <1>1, <1>6, JointMoves

LEMMA LossesMove ==
  ASSUME NEW z, NEW now, NEW letters, Standing(z, now, letters), NEW w \in World, ReduceLoss(w)
  PROVE  MemHas' /\ \E on : Performs(z, on, letters)'
<1> DEFINE M == Members(w)
           X == Losses(M)
           n == [v \in World |-> [mem[v] EXCEPT !.loss = X]]
<1>1. Gathered(w) /\ Current(w).what = "loss" /\ JointDone(w) /\ MemHas /\ Current(w).with = M
  BY DEF ReduceLoss, Joint, Standing, Members
<1>2. mem' = [v \in World |-> IF v \in M THEN n[v] ELSE mem[v]]
  BY DEF ReduceLoss, Each
<1>3. \A v \in World : DOMAIN n[v] = DOMAIN mem[v] /\ View(n[v]) = [View(mem[v]) EXCEPT !.loss = X]
  <2> TAKE v \in World
  <2>1. NoteFields \subseteq DOMAIN mem[v]
    BY <1>1 DEF MemHas
  <2>2. n[v] = [mem[v] EXCEPT !.loss = X]
    OBVIOUS
  <2> HIDE DEF n, X
  <2>3. View([mem[v] EXCEPT !.loss = X]) = [View(mem[v]) EXCEPT !.loss = X]
    BY <2>1, FieldChange
  <2> QED BY <2>2, <2>3
<1>4. ASSUME NEW v \in M, v \in World, NEW N, NEW m, Notes(M, N), Met(v, Current(w), N, launch.steps, m) PROVE View(n[v]) = m
  <2>1. m = [N[v] EXCEPT !.loss = Sum([u \in M |-> N[u].loss])]
    BY <1>1, <1>4 DEF Met
  <2>2. \A u \in M : N[u].loss = mem[u].loss
    BY <1>4, ViewFields DEF Notes
  <2>3. [u \in M |-> N[u].loss] = [u \in M |-> mem[u].loss]
    BY <2>2
  <2>4. N[v] = View(mem[v]) /\ X = Sum([u \in M |-> mem[u].loss])
    BY <1>4 DEF Notes, Losses
  <2> HIDE DEF n, X
  <2> QED BY <1>3, <1>4, <2>1, <2>3, <2>4
<1> HIDE DEF n, X
<1>5. \A v \in M : v \in World => \A N, m : Notes(M, N) /\ Met(v, Current(w), N, launch.steps, m) => View(n[v]) = m
  BY <1>4
<1>6. Becomes(w, n)
  BY <1>1, <1>2, <1>3, <1>5 DEF Becomes, Members
<1> QED BY <1>1, <1>6, JointMoves

LEMMA MembersKnown ==
  ASSUME NEW z, NEW now, NEW letters, Standing(z, now, letters), NEW w \in World, Gathered(w)
  PROVE  w \in Members(w) /\ Members(w) \subseteq World
<1>1. \E t \in 1 .. z.len : /\ Current(w).with \subseteq World /\ w \in Current(w).with
                  /\ \A q \in Current(w).with : q \notin raised /\ Acts(z, now, q, t)
  BY MeetTogether
<1> QED BY <1>1 DEF Members

LEMMA ReportMoves ==
  ASSUME NEW z, NEW now, NEW letters, Standing(z, now, letters), NEW w \in World, ReportLoss(w)
  PROVE  MemHas' /\ \E on : Performs(z, on, letters)'
<1> DEFINE M == Members(w)
           n == [v \in World |-> [mem[v] EXCEPT !.loss = mem[LastOf(v)].loss]]
<1>1. Gathered(w) /\ Current(w).what = "report" /\ JointDone(w) /\ MemHas /\ Current(w).with = M /\ job \in Jobs
  BY StandingFacts DEF ReportLoss, Joint, Standing, Members
<1>2. mem' = [v \in World |-> IF v \in M THEN n[v] ELSE mem[v]]
  BY DEF ReportLoss, Each
<1>3. \A v \in World : DOMAIN n[v] = DOMAIN mem[v] /\ View(n[v]) = [View(mem[v]) EXCEPT !.loss = mem[LastOf(v)].loss]
  <2> TAKE v \in World
  <2> DEFINE X == mem[LastOf(v)].loss
  <2>1. NoteFields \subseteq DOMAIN mem[v]
    BY <1>1 DEF MemHas
  <2>2. n[v] = [mem[v] EXCEPT !.loss = X]
    OBVIOUS
  <2> HIDE DEF n, X
  <2>3. View([mem[v] EXCEPT !.loss = X]) = [View(mem[v]) EXCEPT !.loss = X]
    BY <2>1, FieldChange
  <2> QED BY <2>2, <2>3 DEF X
<1>4. ASSUME NEW v \in M, v \in World, NEW N, NEW m, Notes(M, N), Met(v, Current(w), N, launch.steps, m) PROVE View(n[v]) = m
  <2>1. M = Pipeline(v) /\ m = [N[v] EXCEPT !.loss = N[LastOf(v)].loss]
    BY <1>1, <1>4 DEF Met
  <2>2. LastOf(v) \in M
    BY <1>1, <1>4, <2>1, Neighbours DEF Pipeline
  <2>3. N[LastOf(v)].loss = mem[LastOf(v)].loss
    BY <1>4, <2>2, ViewFields DEF Notes
  <2>4. N[v] = View(mem[v])
    BY <1>4 DEF Notes
  <2> HIDE DEF n
  <2> QED BY <1>3, <1>4, <2>1, <2>3, <2>4
<1> HIDE DEF n
<1>5. \A v \in M : v \in World => \A N, m : Notes(M, N) /\ Met(v, Current(w), N, launch.steps, m) => View(n[v]) = m
  BY <1>4
<1>6. Becomes(w, n)
  BY <1>1, <1>2, <1>3, <1>5 DEF Becomes, Members
<1> QED BY <1>1, <1>6, JointMoves

LEMMA LogitsMove ==
  ASSUME NEW z, NEW now, NEW letters, Standing(z, now, letters), NEW w \in World, TakeLogits(w)
  PROVE  MemHas' /\ \E on : Performs(z, on, letters)'
<1> DEFINE M == Members(w)
           R(v) == mem[LastOf(v)].act[1] = <<Replica(v), mem[v].batch, 1>> \/ job.stages = 1
           Y(v) == IF R(v) THEN {Replica(v) + (mem[v].batch - launch.steps - 1) * job.replicas} ELSE {-1}
           X(v) == mem[v].answers \cup Y(v)
           n == [v \in World |-> IF v = Leader(w) THEN [mem[v] EXCEPT !.answers = X(v)] ELSE mem[v]]
<1>1. Gathered(w) /\ Current(w).what = "logits" /\ JointDone(w) /\ MemHas /\ Current(w).with = M /\ job \in Jobs
  BY StandingFacts DEF TakeLogits, Joint, Standing, Members
<1>2. mem' = [v \in World |-> IF v \in M THEN n[v] ELSE mem[v]]
  <2>1. mem' = [v \in World |-> IF v \in M \cap {Leader(w)} THEN [mem[v] EXCEPT !.answers = X(v)] ELSE mem[v]]
    BY DEF TakeLogits, Each
  <2> HIDE DEF X, M
  <2> QED BY <2>1
<1>3. \A v \in World : /\ DOMAIN n[v] = DOMAIN mem[v]
                       /\ v = Leader(w) => View(n[v]) = [View(mem[v]) EXCEPT !.answers = X(v)]
                       /\ v # Leader(w) => View(n[v]) = View(mem[v])
  <2> TAKE v \in World
  <2> DEFINE x == X(v)
  <2>1. NoteFields \subseteq DOMAIN mem[v]
    BY <1>1 DEF MemHas
  <2>2. n[v] = IF v = Leader(w) THEN [mem[v] EXCEPT !.answers = x] ELSE mem[v]
    OBVIOUS
  <2> HIDE DEF n, x
  <2>3. View([mem[v] EXCEPT !.answers = x]) = [View(mem[v]) EXCEPT !.answers = x]
    BY <2>1, FieldChange
  <2> QED BY <2>2, <2>3 DEF x
<1>4. ASSUME NEW v \in M, v \in World, NEW N, NEW m, Notes(M, N), Met(v, Current(w), N, launch.steps, m) PROVE View(n[v]) = m
  <2>1. M = Pipeline(v) /\ m = IF v # Leader(v) THEN N[v]
              ELSE [N[v] EXCEPT !.answers = N[v].answers \cup
                     (IF N[LastOf(v)].act[1] = <<Replica(v), N[v].batch, 1>> \/ job.stages = 1
                      THEN {Replica(v) + (N[v].batch - launch.steps - 1) * job.replicas} ELSE {-1})]
    BY <1>1, <1>4 DEF Met
  <2>2. LastOf(v) \in M
    BY <1>1, <1>4, <2>1, Neighbours DEF Pipeline
  <2>3. Leader(w) = Leader(v)
    <3>1. w \in M
      BY <1>1, MembersKnown
    <3>2. Replica(w) = Replica(v)
      BY <2>1, <3>1 DEF Pipeline
    <3> QED BY <3>2 DEF Leader
  <2>4. N[v] = View(mem[v]) /\ N[LastOf(v)].act = mem[LastOf(v)].act /\ N[v].batch = mem[v].batch /\ N[v].answers = mem[v].answers
    BY <1>4, <2>2, ViewFields DEF Notes
  <2>5. X(v) = N[v].answers \cup
                     (IF N[LastOf(v)].act[1] = <<Replica(v), N[v].batch, 1>> \/ job.stages = 1
                      THEN {Replica(v) + (N[v].batch - launch.steps - 1) * job.replicas} ELSE {-1})
    BY <2>4
  <2> HIDE DEF n, X
  <2> QED BY <1>3, <1>4, <2>1, <2>3, <2>4, <2>5
<1> HIDE DEF n
<1>5. \A v \in M : v \in World => \A N, m : Notes(M, N) /\ Met(v, Current(w), N, launch.steps, m) => View(n[v]) = m
  BY <1>4
<1>6. Becomes(w, n)
  BY <1>1, <1>2, <1>3, <1>5 DEF Becomes, Members
<1> QED BY <1>1, <1>6, JointMoves

LEMMA GatherMoves ==
  ASSUME NEW z, NEW now, NEW letters, Standing(z, now, letters), NEW w \in World, GatherAnswers(w)
  PROVE  MemHas' /\ \E on : Performs(z, on, letters)'
<1> DEFINE M == Members(w)
           X == UNION {mem[u].answers : u \in World}
           n == [v \in World |-> IF v = 0 THEN [mem[v] EXCEPT !.answers = X] ELSE mem[v]]
<1>1. Gathered(w) /\ Current(w).what = "gather" /\ JointDone(w) /\ MemHas /\ Current(w).with = M /\ job \in Jobs
  BY StandingFacts DEF GatherAnswers, Joint, Standing, Members
<1>0. M = World
  <2>1. PICK t \in 1 .. z.len : w \in M /\ \A q \in M : Acts(z, now, q, t)
    <3>1. \E t \in 1 .. z.len : /\ Current(w).with \subseteq World /\ w \in Current(w).with
                  /\ \A q \in Current(w).with : q \notin raised /\ Acts(z, now, q, t)
      BY <1>1, MeetTogether
    <3> QED BY <1>1, <3>1
  <2>2. Met(w, Current(w), z.note[t - 1], launch.steps, z.note[t][w])
    <3>1. Acts(z, now, w, t) /\ Current(w).do = "meet"
      BY <1>1, <2>1 DEF Gathered, At, Current
    <3> QED BY <3>1, MeetActs
  <2> QED BY <1>1, <2>2 DEF Met
<1>2. mem' = [v \in World |-> IF v \in M THEN n[v] ELSE mem[v]]
  <2>1. mem' = [v \in World |-> IF v \in {0} THEN [mem[v] EXCEPT !.answers = X] ELSE mem[v]]
    BY DEF GatherAnswers, Each
  <2> HIDE DEF X, M
  <2> QED BY <1>0, <2>1
<1>3. \A v \in World : /\ DOMAIN n[v] = DOMAIN mem[v]
                       /\ v = 0 => View(n[v]) = [View(mem[v]) EXCEPT !.answers = X]
                       /\ v # 0 => View(n[v]) = View(mem[v])
  <2> TAKE v \in World
  <2>1. NoteFields \subseteq DOMAIN mem[v]
    BY <1>1 DEF MemHas
  <2>2. n[v] = IF v = 0 THEN [mem[v] EXCEPT !.answers = X] ELSE mem[v]
    OBVIOUS
  <2> HIDE DEF n, X
  <2>3. View([mem[v] EXCEPT !.answers = X]) = [View(mem[v]) EXCEPT !.answers = X]
    BY <2>1, FieldChange
  <2> QED BY <2>2, <2>3
<1>4. ASSUME NEW v \in M, v \in World, NEW N, NEW m, Notes(M, N), Met(v, Current(w), N, launch.steps, m) PROVE View(n[v]) = m
  <2>1. m = IF v # 0 THEN N[v] ELSE [N[v] EXCEPT !.answers = UNION {N[u].answers : u \in World}]
    BY <1>1, <1>4 DEF Met
  <2>2. \A u \in World : N[u].answers = mem[u].answers
    BY <1>0, <1>4, ViewFields DEF Notes
  <2>3. {N[u].answers : u \in World} = {mem[u].answers : u \in World}
    BY <2>2
  <2>4. N[v] = View(mem[v])
    BY <1>4 DEF Notes
  <2> HIDE DEF n
  <2> QED BY <1>3, <1>4, <2>1, <2>3, <2>4
<1> HIDE DEF n, X
<1>5. \A v \in M : v \in World => \A N, m : Notes(M, N) /\ Met(v, Current(w), N, launch.steps, m) => View(n[v]) = m
  BY <1>4
<1>6. Becomes(w, n)
  BY <1>1, <1>2, <1>3, <1>5 DEF Becomes, Members
<1> QED BY <1>1, <1>6, JointMoves

\* Collectives that leave the notes as they are.
LEMMA QuietMeetingMoves ==
  ASSUME NEW z, NEW now, NEW letters, Standing(z, now, letters), NEW w \in World, Gathered(w), Leave(Members(w)), job' = job,
         Current(w).what \notin Joined, \A v \in World : View(mem'[v]) = View(mem[v])
  PROVE  \E on : Performs(z, on, letters)'
<1>1. ASSUME NEW v \in Members(w) PROVE MeetEffect(w, v)
  <2> SUFFICES ASSUME NEW N, NEW m, \A u \in Members(w) : N[u] = View(mem[u]), Met(v, Current(w), N, launch.steps, m)
               PROVE  View(mem'[v]) = m
    BY DEF MeetEffect
  <2>1. m = N[v] /\ v \in World
    BY MembersKnown DEF Met
  <2> QED BY <2>1
<1> QED BY <1>1, MeetMoves

LEMMA QuietJointMoves ==
  ASSUME NEW z, NEW now, NEW letters, Standing(z, now, letters), NEW w \in World, TakeRunId(w) \/ Agree(w)
  PROVE  MemHas' /\ \E on : Performs(z, on, letters)'
<1>0. MemHas
  BY DEF Standing
<1>1. CASE TakeRunId(w)
  <2> DEFINE n == [v \in World |-> [mem[v] EXCEPT !.run = launch.number]]
  <2>1. Gathered(w) /\ Leave(Members(w)) /\ job' = job /\ Current(w).what \notin Joined
    BY <1>1 DEF TakeRunId, Joint, JointDone, Joined
  <2>2. mem' = [v \in World |-> IF v \in World THEN n[v] ELSE mem[v]]
    BY <1>1 DEF TakeRunId, Each
  <2>3. \A v \in World : DOMAIN n[v] = DOMAIN mem[v] /\ View(n[v]) = View(mem[v])
    <3> TAKE v \in World
    <3> DEFINE x == launch.number
    <3>1. n[v] = [mem[v] EXCEPT !.run = x] /\ NoteFields \subseteq DOMAIN mem[v]
      BY <1>0 DEF MemHas
    <3> HIDE DEF n, x
    <3>2. View([mem[v] EXCEPT !.run = x]) = View(mem[v])
      BY <3>1, FieldChange
    <3> QED BY <3>1, <3>2
  <2> HIDE DEF n
  <2>4. MemHas' /\ \A v \in World : mem'[v] = IF v \in World THEN n[v] ELSE mem[v]
    BY <1>0, <2>1, <2>2, <2>3, JoinedChange
  <2>5. \A v \in World : View(mem'[v]) = View(mem[v])
    BY <2>3, <2>4
  <2> QED BY <2>1, <2>4, <2>5, QuietMeetingMoves
<1>2. CASE Agree(w)
  <2>1. Gathered(w) /\ UNCHANGED <<job, mem>> /\ Current(w).what \notin Joined /\ (Raise(Members(w)) \/ Leave(Members(w)))
    BY <1>2 DEF Agree, taskVars, Effective, Joined
  <2>2. CASE Raise(Members(w))
    BY <2>1, <2>2, RaiseMoves
  <2>3. CASE Leave(Members(w))
    BY <1>0, <2>1, <2>3, MemStays, QuietMeetingMoves
  <2> QED BY <2>1, <2>2, <2>3
<1> QED BY <1>1, <1>2

\* Every step of a launch goes on with its schedule.
LEMMA StepMoves ==
  ASSUME NEW z, NEW now, NEW letters, Standing(z, now, letters), NEW w \in World,
         TaskStep(w) \/ CaughtFailure(w) \/ Failure(w)
  PROVE  MemHas' /\ \E on, more : Performs(z, on, more)'
<1>0. MemHas
  BY DEF Standing
<1>1. ASSUME NEW v \in World, Exchange(w, v) \/ Sending(w, v) \/ Receiving(w, v)
      PROVE  MemHas' /\ \E on, more : Performs(z, on, more)'
  <2>1. CASE Exchange(w, v)
    <3>1. Received(v, Payload(w)) /\ World' = World
      BY <2>1 DEF Exchange, World
    <3>2. DOMAIN mem' = World /\ \A u \in World : NoteFields \subseteq DOMAIN mem'[u]
      BY <1>0, <3>1, ViewReceived
    <3>3. MemHas'
      BY <3>1, <3>2 DEF MemHas, NoteFields
    <3> QED BY <2>1, <3>3, PassMoves
  <2>2. CASE Sending(w, v)
    <3>1. UNCHANGED <<job, mem>>
      BY <2>2 DEF Sending, taskVars
    <3>2. MemHas'
      BY <1>0, <3>1, MemStays
    <3> QED BY <2>2, <3>2, PostMoves
  <2>3. CASE Receiving(w, v)
    <3>1. Received(w, Head(wire[v][w])) /\ World' = World
      BY <2>3 DEF Receiving, World
    <3>2. DOMAIN mem' = World /\ \A u \in World : NoteFields \subseteq DOMAIN mem'[u]
      BY <1>0, <3>1, ViewReceived
    <3>3. MemHas'
      BY <3>1, <3>2 DEF MemHas, NoteFields
    <3> QED BY <2>3, <3>3, TakeMoves
  <2> QED BY <1>1, <2>1, <2>2, <2>3
<1>2. CASE LoadBatch(w) \/ AddLoss(w) \/ ComputeGradient(w)
  BY <1>2, LoadMoves, LossMoves, GradientMoves
<1>3. CASE Update(w) \/ CheckTokens(w) \/ LoadCheckpoint(w) \/ SaveCheckpoint(w) \/ Prepare(w) \/ CaughtFailure(w)
           \/ Failure(w) \/ GiveUp(w)
  BY <1>3, PlainWorkMoves
<1>4. CASE ShareCount(w) \/ ReduceGradients(w) \/ ReduceNorm(w) \/ ReduceLoss(w)
  BY <1>4, CountMoves, GradientsMove, NormMoves, LossesMove
<1>5. CASE ReportLoss(w) \/ TakeLogits(w) \/ GatherAnswers(w) \/ TakeRunId(w) \/ Agree(w)
  BY <1>5, ReportMoves, LogitsMove, GatherMoves, QuietJointMoves
<1> QED BY <1>1, <1>2, <1>3, <1>4, <1>5 DEF TaskStep

\* The launch goes by a schedule, which ends with all answers.
Answered(z) == job.task = "qa" => z.note[z.len][0].answers = 0 .. job.validation - 1
Planned ==
  \E z, steps : /\ steps = launch.steps /\ Scheduled(z, steps) /\ Answered(z)
                /\ \E now, letters : Performs(z, now, letters)

LEMMA StepKeepsJob ==
  ASSUME NEW w, TaskStep(w) \/ CaughtFailure(w) \/ Failure(w)
  PROVE  UNCHANGED <<job, launch>>
<1>1. CASE \E v \in World : Exchange(w, v) \/ Sending(w, v) \/ Receiving(w, v)
  BY <1>1 DEF Exchange, Sending, Receiving, taskVars
<1>2. CASE LoadBatch(w) \/ AddLoss(w) \/ ComputeGradient(w) \/ Update(w) \/ SaveCheckpoint(w) \/ Prepare(w)
  BY <1>2 DEF LoadBatch, AddLoss, ComputeGradient, Update, SaveCheckpoint, Prepare, Own
<1>3. CASE CheckTokens(w) \/ LoadCheckpoint(w) \/ CaughtFailure(w) \/ Failure(w) \/ GiveUp(w) \/ Agree(w)
  BY <1>3 DEF CheckTokens, LoadCheckpoint, CaughtFailure, Failure, GiveUp, Agree, taskVars
<1>4. CASE ShareCount(w) \/ ReduceGradients(w) \/ ReduceNorm(w) \/ ReduceLoss(w)
           \/ ReportLoss(w) \/ TakeLogits(w) \/ GatherAnswers(w) \/ TakeRunId(w)
  BY <1>4 DEF ShareCount, ReduceGradients, ReduceNorm, ReduceLoss, ReportLoss, TakeLogits, GatherAnswers, TakeRunId, JointDone
<1> QED BY <1>1, <1>2, <1>3, <1>4 DEF TaskStep

LEMMA AnsweredStays ==
  ASSUME job' = job, NEW z, Answered(z)
  PROVE  Answered(z)'
BY DEF Answered

LEMMA PlannedSteps ==
  ASSUME TaskShape, MemHas, Planned, NEW w \in World, TaskStep(w) \/ CaughtFailure(w) \/ Failure(w)
  PROVE  MemHas' /\ Planned'
<1>1. job' = job /\ launch' = launch
  BY StepKeepsJob
<1>2. PICK z, steps : /\ steps = launch.steps /\ Scheduled(z, steps) /\ Answered(z)
                      /\ \E now, letters : Performs(z, now, letters)
  BY DEF Planned
<1>3. PICK now, letters : Performs(z, now, letters)
  BY <1>2
<1>4. Standing(z, now, letters)
  BY <1>2, <1>3 DEF Standing
<1>5. MemHas' /\ \E on, more : Performs(z, on, more)'
  BY <1>4, StepMoves
<1>6. Scheduled(z, steps)' /\ Answered(z)' /\ steps = launch'.steps
  BY <1>1, <1>2, ScheduleStays, AnsweredStays
<1>7. Planned'
  BY <1>5, <1>6 DEF Planned
<1> QED BY <1>5, <1>7

\* A translation run that resumes loads its checkpoint, compares, and saves.
LEMMA MT5Resumes ==
  ASSUME job \in Jobs, NEW w \in World, NEW steps \in Nat, NEW resume, resume = TRUE
  PROVE  /\ Guarded(MT5Program(w, resume, steps), "load_checkpoint", "signature")
         /\ Guarded(MT5Program(w, resume, steps), "signature", "save")
<1> DEFINE E == EarlyCalls
           T == TaskCalls
           Q == Seq(T)
           a0 == <<Alone("device", 0)>>
           a1 == All("join")
           a2 == All("layout")
           a3 == All("groups")
           a4 == When(First(w), <<Alone("data", 0)>>)
           a5 == <<Alone("load_checkpoint", 0)>>
           a6 == All("signature")
           b0 == All("run_id")
           b1 == FlattenSeq(Times(steps, TrainingStep(w)))
           b2 == Pipe(w, "batches")
           b3 == FlattenSeq(Times(Batches(w), Batch(w, FALSE)))
           b4 == <<Alone("save", 0)>>
           b5 == All("barrier")
           p == a0 \o a1 \o a2 \o a3 \o a4
           q == p \o a5
           r == q \o a6
           s == r \o b0 \o b1 \o b2 \o b3 \o b4 \o b5
<1>1. MT5Program(w, resume, steps) = s
  BY DEF MT5Program, When
<1>2. \A x \in {"device", "join", "layout", "groups", "data", "signature", "run_id", "batches", "save", "barrier"} :
        /\ x \in TaskKinds \ {"load_checkpoint", "update"} /\ 0 \in Int
        /\ x \notin {"layout", "signature"} => x \notin Compared
  BY DEF TaskKinds, Compared
<1>3. a0 \in Seq(E) /\ <<Alone("data", 0)>> \in Seq(E) /\ b2 \in Seq(E) /\ b4 \in Seq(E)
  BY <1>2, EarlyCall
<1>4. a1 \in Seq(E) /\ a2 \in Seq(E) /\ a3 \in Seq(E) /\ a6 \in Seq(E) /\ b0 \in Seq(E) /\ b5 \in Seq(E)
  BY <1>2, EarlyCall
<1>5. a4 \in Seq(E)
  BY <1>3, WhenCalls
<1>6. b1 \in Seq(RunCalls) /\ b3 \in Seq(E)
  BY RunsCalls
<1>7. \A x \in Seq(E) : x \in Seq(T)
  BY TaskCallSets
<1>8. b1 \in Seq(T)
  BY <1>6, TaskCallSets
<1>9. \A u \in {"signature", "save"} : Never(a0, u) /\ Never(a1, u) /\ Never(a2, u) /\ Never(a3, u) /\ Never(a4, u)
  BY DEF Never, Alone, All, Together, Call, When
<1>10. Never(a5, "save") /\ Alone("load_checkpoint", 0) \in T /\ Alone("load_checkpoint", 0).what = "load_checkpoint"
  BY DEF Never, Alone, Call, TaskCalls, TaskKinds, Compared
<1>11. Together("signature", World) \in T /\ Together("signature", World).what = "signature" /\ a6 = <<Together("signature", World)>>
  <2>1. World \subseteq Int
    BY WorldRanks
  <2> QED BY <2>1 DEF Together, Call, TaskCalls, TaskKinds, Compared, All
<1> HIDE DEF a0, a1, a2, a3, a4, a6, b0, b1, b2, b3, b4, b5
<1>12. /\ a0 \in Q /\ a1 \in Q /\ a2 \in Q /\ a3 \in Q /\ a4 \in Q /\ a6 \in Q
       /\ b0 \in Q /\ b1 \in Q /\ b2 \in Q /\ b3 \in Q /\ b4 \in Q /\ b5 \in Q
  BY <1>3, <1>4, <1>5, <1>6, <1>7, <1>8
<1>13. \A x, y \in Q : x \o y \in Q
  OBVIOUS
<1>14. \A x, y \in Q : \A u : Never(x, u) /\ Never(y, u) => Never(x \o y, u)
  BY ConcatNever
<1>15. p \in Q /\ \A u \in {"signature", "save"} : Never(p, u)
  <2> HIDE DEF Q
  <2>1. a0 \o a1 \in Q /\ a0 \o a1 \o a2 \in Q /\ a0 \o a1 \o a2 \o a3 \in Q
    BY <1>12, <1>13
  <2>2. \A u \in {"signature", "save"} : Never(a0 \o a1, u) /\ Never(a0 \o a1 \o a2, u)
    BY <1>9, <1>12, <1>14, <2>1
  <2>3. \A u \in {"signature", "save"} : Never(a0 \o a1 \o a2 \o a3, u)
    BY <1>9, <1>12, <1>14, <2>1, <2>2
  <2> QED BY <1>9, <1>12, <1>13, <1>14, <2>1, <2>3
<1> DEFINE c == Alone("load_checkpoint", 0)
           d == Together("signature", World)
<1>16. c \in T /\ c.what = "load_checkpoint" /\ a5 = <<c>> /\ d \in T /\ d.what = "signature" /\ a6 = <<d>> /\ Never(a5, "save")
  BY <1>10, <1>11
<1> HIDE DEF c, d, p
<1>17. q \in Q /\ a5 \in Q /\ Never(q, "save") /\ Sealed(q, "load_checkpoint", "signature")
  <2> HIDE DEF a5
  <2>1. a5 \in Q
    BY <1>16
  <2>2. Sealed(p \o <<c>>, c.what, "signature")
    BY <1>15, <1>16, SealingCall
  <2> QED BY <1>13, <1>14, <1>15, <1>16, <2>1, <2>2
<1> HIDE DEF a5, q
<1>18. r \in Q /\ Sealed(r, "signature", "save") /\ Sealed(r, "load_checkpoint", "signature")
  <2>1. Sealed(q \o <<d>>, d.what, "save")
    BY <1>16, <1>17, SealingCall
  <2>2. Sealed(q \o a6, "load_checkpoint", "signature")
    BY <1>12, <1>17, ConcatSealed
  <2> QED BY <1>12, <1>13, <1>16, <1>17, <2>1, <2>2
<1> HIDE DEF r
<1> DEFINE S(x) == x \in Q /\ Sealed(x, "signature", "save") /\ Sealed(x, "load_checkpoint", "signature")
<1>19. \A x, y \in Q : S(x) => S(x \o y)
  <2> SUFFICES ASSUME NEW x \in Q, NEW y \in Q, S(x) PROVE S(x \o y)
    OBVIOUS
  <2>1. x \o y \in Q
    BY <1>13
  <2>2. Sealed(x \o y, "signature", "save") /\ Sealed(x \o y, "load_checkpoint", "signature")
    BY ConcatSealed
  <2> QED BY <2>1, <2>2
<1>20. \A x : S(x) => x \in Q
  OBVIOUS
<1>21. S(r)
  BY <1>18
<1> HIDE DEF S, Q
<1>22. S(r \o b0 \o b1)
  BY <1>12, <1>19, <1>20, <1>21
<1>23. S(r \o b0 \o b1 \o b2 \o b3)
  BY <1>12, <1>19, <1>20, <1>22
<1>24. S(s)
  BY <1>12, <1>19, <1>20, <1>23
<1>25. Guarded(s, "load_checkpoint", "signature") /\ Guarded(s, "signature", "save")
  BY <1>24 DEF S, Sealed
<1> QED BY <1>1, <1>25

\* The launch is to be refused: it resumes checkpoints of different steps.
Refusable(w) ==
  /\ Guarded(todo[w], "signature", "update") /\ Guarded(todo[w], "signature", "save")
  /\ mem[w].start = saved[w] \/ Guarded(todo[w], "load_checkpoint", "signature")
Unplanned ==
  /\ job.task = "mt5" /\ \E u, v \in World : saved[u].step # saved[v].step
  /\ \A w \in World : Refusable(w)

LEMMA ProceedsGuards ==
  ASSUME TaskShape, NEW W, Proceeds(W), NEW r \in World, NEW g \in {"signature", "load_checkpoint"}, g \notin W, NEW u,
         Guarded(todo[r], g, u)
  PROVE  Guarded(todo'[r], g, u)
<1>1. todo[r] \in Seq(TaskCalls) /\ todo'[r] \in Seq(TaskCalls) /\ GoesOn(r, W)
  BY DEF TaskShape, Proceeds
<1>2. \A c \in TaskCalls : c.what = g => c.do \notin {"send", "recv"}
  BY DEF TaskCalls, Compared
<1> QED BY <1>1, <1>2, OnwardKeeps

\* Ranks with different checkpoints do not leave the comparison.
LEMMA NotSignedOff ==
  ASSUME TaskShape, Unplanned, NEW W, Proceeds(W)
  PROVE  "signature" \notin W
<1> SUFFICES ASSUME "signature" \in W PROVE FALSE
  OBVIOUS
<1>1. SignedOff /\ ~Refused("signature")
  BY DEF Proceeds, Compared
<1>2. \A u, v \in World : mem[u].start = mem[v].start
  BY <1>1 DEF Refused, Signed
<1>3. ASSUME NEW w \in World PROVE mem[w].start = saved[w]
  <2>1. todo[w] \in Seq(TaskCalls) /\ todo[w] # <<>> /\ Head(todo[w]).what = "signature"
    BY <1>1 DEF TaskShape, SignedOff
  <2>2. ~Guarded(todo[w], "load_checkpoint", "signature")
    BY <2>1, HeadFacts
  <2> QED BY <2>2 DEF Unplanned, Refusable
<1>4. PICK u, v \in World : saved[u].step # saved[v].step
  BY DEF Unplanned
<1>5. saved[u] = saved[v]
  BY <1>2, <1>3
<1> QED BY <1>4, <1>5

LEMMA UnplannedProceeds ==
  ASSUME TaskShape, Unplanned, NEW W, Proceeds(W), "load_checkpoint" \notin W, MemKept, UNCHANGED <<job, saved>>
  PROVE  Unplanned'
<1>1. "signature" \notin W /\ World' = World
  BY NotSignedOff DEF World
<1>2. ASSUME NEW w \in World PROVE Refusable(w)'
  <2>1. mem'[w].start = mem[w].start
    BY DEF MemKept, MemSame
  <2>2. Guarded(todo'[w], "signature", "update") /\ Guarded(todo'[w], "signature", "save")
    BY <1>1, ProceedsGuards DEF Unplanned, Refusable
  <2>3. mem[w].start = saved[w] \/ Guarded(todo'[w], "load_checkpoint", "signature")
    BY ProceedsGuards DEF Unplanned, Refusable
  <2> QED BY <2>1, <2>2, <2>3 DEF Refusable
<1> QED BY <1>1, <1>2 DEF Unplanned

LEMMA UnplannedSteps ==
  ASSUME TaskShape, TaskTypes, Unplanned, NEW w \in World, TaskStep(w) \/ CaughtFailure(w) \/ Failure(w)
  PROVE  Unplanned'
<1>0. \A v \in World : ~AtCall(v, "update") /\ ~AtCall(v, "save")
  <2> SUFFICES ASSUME NEW v \in World, todo[v] # <<>> PROVE Head(todo[v]).what # "update" /\ Head(todo[v]).what # "save"
    BY DEF AtCall
  <2>1. todo[v] \in Seq(TaskCalls) /\ Guarded(todo[v], "signature", "update") /\ Guarded(todo[v], "signature", "save")
    BY DEF TaskShape, Unplanned, Refusable
  <2> QED BY <2>1, HeadFacts
<1>1. job' = job
  BY StepKeepsJob
<1>2. CASE \E v \in World : Exchange(w, v) \/ Sending(w, v) \/ Receiving(w, v)
  <2>1. Proceeds({}) /\ MemKept /\ UNCHANGED <<job, launch, saved>>
    BY <1>2, TransferStep
  <2> QED BY <2>1, UnplannedProceeds
<1>3. CASE OwnWork(w)
  <2>1. (\E W : Proceeds(W) /\ "load_checkpoint" \notin W) /\ MemKept /\ (saved' = saved \/ SaveCheckpoint(w))
    BY <1>3, OwnWorkStep
  <2>2. ~SaveCheckpoint(w)
    BY <1>0 DEF SaveCheckpoint, Own, Work, At, Current, AtCall
  <2> QED BY <1>1, <2>1, <2>2, UnplannedProceeds
<1>4. CASE JointWork(w)
  <2>1. (\E W : Proceeds(W) /\ "load_checkpoint" \notin W) /\ MemKept /\ UNCHANGED <<job, launch, saved>>
    BY <1>4, JointWorkStep
  <2> QED BY <2>1, UnplannedProceeds
<1>5. CASE Agree(w)
  <2>1. (\E W : Proceeds(W) /\ "load_checkpoint" \notin W) /\ MemKept /\ UNCHANGED <<job, launch, saved>>
    BY <1>5, AgreeStep
  <2> QED BY <2>1, UnplannedProceeds
<1>6. ~Update(w)
  BY <1>0 DEF Update, Own, Work, At, Current, AtCall
<1>7. CASE LoadCheckpoint(w)
  <2>1. Work(w, "load_checkpoint") /\ UNCHANGED <<job, launch, saved>>
    BY <1>7 DEF LoadCheckpoint
  <2>2. CASE Raise({w}) /\ UNCHANGED mem
    <3>1. Proceeds({}) /\ MemKept
      BY <2>2, RaiseProceeds, IdleKeepsMem
    <3> QED BY <2>1, <3>1, UnplannedProceeds
  <2>3. CASE Leave({w}) /\ mem' = [mem EXCEPT ![w].start = saved[w], ![w].step = saved[w].step]
    <3>1. Proceeds({"load_checkpoint"})
      <4>1. "load_checkpoint" \notin Compared
        BY DEF Compared
      <4> QED BY <2>1, <2>3, <4>1, WorkProceeds
    <3>2. World' = World /\ "signature" \notin {"load_checkpoint"}
      BY <2>1 DEF World
    <3>3. \A v \in World : IF v = w THEN mem'[v].start = saved[w] ELSE mem'[v].start = mem[v].start /\ todo'[v] = todo[v]
      BY <2>3 DEF TaskTypes, Leave, Popped, Peers, TaskShape
    <3>4. ASSUME NEW v \in World PROVE Refusable(v)'
      <4>1. Guarded(todo'[v], "signature", "update") /\ Guarded(todo'[v], "signature", "save")
        BY <3>1, <3>2, ProceedsGuards DEF Unplanned, Refusable
      <4>2. mem'[v].start = saved[v] \/ Guarded(todo'[v], "load_checkpoint", "signature")
        BY <3>3 DEF Unplanned, Refusable
      <4> QED BY <2>1, <4>1, <4>2 DEF Refusable
    <3> QED BY <2>1, <3>2, <3>4 DEF Unplanned
  <2> QED BY <1>7, <2>2, <2>3 DEF LoadCheckpoint
<1> QED BY <1>2, <1>3, <1>4, <1>5, <1>6, <1>7 DEF TaskStep, OwnWork, JointWork

\* A launch starts at the first moment of its schedule.
LEMMA PlanStarts ==
  ASSUME NEW z, NEW P, NEW N, NEW M, NEW steps, Plan(z, P, N, M, steps), raised = {},
         wire = [w \in World |-> [v \in World |-> <<>>]],
         \A w \in World : todo[w] = P[w] /\ View(mem[w]) = N[w]
  PROVE  \E now, letters : Performs(z, now, letters)
<1>0. Scheduled(z, steps) /\ (\A w \in World : z.rest[0][w] = P[w]) /\ z.note[0] = N
  BY DEF Plan
<1>1. z.len \in Nat
  BY <1>0 DEF Scheduled
<1> DEFINE now == [w \in World |-> 0]
           letters == [u \in World |-> [v \in World |-> <<>>]]
<1>2. Clocks(z, now)
  <2>1. \A w \in World : now[w] = 0 /\ now[w] \in 0 .. z.len
    BY <1>1
  <2>2. \A t \in 1 .. z.len : ~(t <= 0)
    BY <1>1
  <2> HIDE DEF now
  <2> QED BY <1>1, <2>1, <2>2 DEF Clocks
<1>3. Follows(z, now)
  BY <1>0 DEF Follows
<1>4. Wired(z, now, letters)
  <2>1. Wires
    BY DEF Wires
  <2>2. ASSUME NEW u \in World, NEW v \in World PROVE Mails(z, now, letters, u, v)
    <3> DEFINE l == letters[u][v]
    <3>1. l = <<>> /\ Len(l) = 0 /\ now[u] = 0 /\ now[v] = 0 /\ wire[u][v] = <<>>
      OBVIOUS
    <3> HIDE DEF now, l
    <3>2. l \in Seq(1 .. z.len) /\ 1 .. Len(l) = {}
      BY <3>1
    <3>3. \A t \in 1 .. z.len : ~(now[v] < t /\ t <= now[u])
      BY <1>1, <3>1
    <3>4. Sent(z, now, u, v, l)
      BY <3>2, <3>3 DEF Sent
    <3>5. Letters(z, u, <<>>) = <<>>
      <4> DEFINE S == 1 .. z.len
      <4>1. <<>> \in Seq(S)
        OBVIOUS
      <4> HIDE DEF S
      <4> QED BY <4>1, LettersChange
    <3>6. wire[u][v] = Letters(z, u, l)
      BY <3>1, <3>5
    <3> QED BY <3>1, <3>4, <3>6 DEF Mails, l
  <2> QED BY <2>1, <2>2 DEF Wired
<1>5. Performs(z, now, letters)
  BY <1>2, <1>3, <1>4 DEF Performs
<1> QED BY <1>5

\* The ranks have just been launched.
Begun ==
  /\ job \in Jobs /\ raised = {} /\ wire = [w \in World |-> [v \in World |-> <<>>]]
  /\ mem = [w \in World |-> Fresh(w, Nothing)]
  /\ \A w \in World : saved[w].step \in Nat /\ todo[w] = ProgramOf(w, launch)
  /\ launch.steps \in Nat /\ launch.resume \in BOOLEAN

LEMMA FreshFields ==
  ASSUME NEW w \in World
  PROVE  /\ NoteFields \subseteq DOMAIN Fresh(w, Nothing)
         /\ Known(w, View(Fresh(w, Nothing)), Between(0, {}))
<1> DEFINE f == Fresh(w, Nothing)
           a == [i \in Slots |-> Spoiled]
<1>1. /\ NoteFields \subseteq DOMAIN f
      /\ f.batch = 0 /\ f.act = a /\ f.out = a /\ f.answers = {}
  BY DEF Fresh, NoteFields, Slots
<1> HIDE DEF f
<1> DEFINE n == View(f)
<1>2. n = [batch |-> 0, act |-> a, out |-> a, grad |-> f.grad, loss |-> f.loss, count |-> f.count, norm |-> f.norm, answers |-> {}]
  BY <1>1 DEF View
<1> HIDE DEF n
<1>3. n.batch = 0 /\ n.act = a /\ n.out = a /\ n.grad = f.grad /\ n.loss = f.loss /\ n.count = f.count /\ n.norm = f.norm
      /\ n.answers = {}
  BY <1>2
<1>4. [i \in Slots |-> a[i]] = a
  OBVIOUS
<1> HIDE DEF a
<1>5. IsNote(n)
  BY <1>2, <1>3, <1>4 DEF IsNote
<1>6. Known(w, n, Between(0, {}))
  BY <1>3, <1>5, BetweenFields DEF Known
<1> QED BY <1>1, <1>6 DEF f, n

LEMMA BegunState ==
  ASSUME Begun
  PROVE  MemHas /\ Fits([w \in World |-> View(mem[w])], [w \in World |-> Between(0, {})])
<1>1. DOMAIN mem = World /\ \A w \in World : mem[w] = Fresh(w, Nothing)
  BY DEF Begun
<1>2. MemHas
  BY <1>1, FreshFields DEF MemHas
<1> DEFINE N == [w \in World |-> View(mem[w])]
           E == [w \in World |-> Between(0, {})]
<1>3. \A w \in World : Known(w, N[w], E[w])
  BY <1>1, FreshFields
<1> HIDE DEF N, E
<1>4. Fits(N, E)
  BY <1>3 DEF Fits
<1> QED BY <1>2, <1>4 DEF N, E

\* What leads from there to F plans the launch.
LEMMA LeadsPlan ==
  ASSUME Begun, NEW P, NEW F, NEW steps, steps = launch.steps, \A w \in World : todo[w] = P[w],
         Leads(P, [w \in World |-> Between(0, {})], F, steps),
         job.task = "qa" => F[0].answers = 0 .. job.validation - 1
  PROVE  Planned
<1> DEFINE N == [w \in World |-> View(mem[w])]
           E == [w \in World |-> Between(0, {})]
<1>1. Fits(N, E) /\ Leads(P, E, F, steps)
  BY BegunState
<1>2. \A w \in World : View(mem[w]) = N[w]
  OBVIOUS
<1> HIDE DEF N, E
<1>3. PICK M, z : Fits(M, F) /\ Plan(z, P, N, M, steps)
  BY <1>1 DEF Leads
<1>4. Scheduled(z, steps) /\ z.note[z.len] = M
  BY <1>3 DEF Plan
<1>5. Answered(z)
  <2>1. 0 \in World
    BY WorldRanks DEF Begun
  <2>2. Known(0, M[0], F[0])
    BY <1>3, <2>1 DEF Fits
  <2>3. M[0].answers = F[0].answers
    BY <2>2 DEF Known
  <2> QED BY <1>4, <2>3 DEF Answered
<1>6. raised = {} /\ wire = [w \in World |-> [v \in World |-> <<>>]] /\ \A w \in World : todo[w] = P[w] /\ View(mem[w]) = N[w]
  BY <1>2 DEF Begun
<1>7. \E now, letters : Performs(z, now, letters)
  BY <1>3, <1>6, PlanStarts
<1> QED BY <1>4, <1>5, <1>7 DEF Planned

LEMMA TranslationPlan ==
  ASSUME Begun, job.task = "mt5", NEW n \in Nat, NEW resume, \A w \in World : todo[w] = MT5Program(w, resume, n)
  PROVE  Planned
<1> DEFINE P == [v \in World |-> MT5Program(v, resume, n)]
           E == [w \in World |-> Between(0, {})]
           F == [w \in World |-> Between(n + job.validation, {})]
<1>1. PICK steps : steps = launch.steps
  OBVIOUS
<1>2. Leads(P, E, F, steps)
  BY MT5ProgramLeads DEF Begun
<1>3. \A w \in World : todo[w] = P[w]
  OBVIOUS
<1> HIDE DEF P, F
<1> QED BY <1>1, <1>2, <1>3, LeadsPlan

LEMMA BegunPlans == Begun => MemHas /\ (Planned \/ Unplanned)
<1> SUFFICES ASSUME Begun PROVE Planned \/ Unplanned
  BY BegunState
<1>0. /\ job \in Jobs /\ job.task \in {"qa", "mt5"} /\ launch.steps \in Nat /\ launch.resume \in BOOLEAN
      /\ \A w \in World : saved[w].step \in Nat /\ todo[w] = ProgramOf(w, launch)
  BY JobSizes DEF Begun
<1>1. CASE job.task = "qa"
  <2>1. PICK steps : steps = launch.steps
    OBVIOUS
  <2> DEFINE P == [v \in World |-> QAProgram(v, steps)]
  <2>2. \A w \in World : todo[w] = P[w]
    BY <1>0, <1>1, <2>1 DEF ProgramOf
  <2>3. PICK F : /\ Leads(P, [w \in World |-> Between(0, {})], F, steps)
                 /\ F[0].answers = 0 .. job.validation - 1
    BY <1>0, <1>1, <2>1, QAProgramLeads
  <2> HIDE DEF P
  <2> QED BY <2>1, <2>2, <2>3, LeadsPlan
<1>2. CASE job.task = "mt5" /\ ~launch.resume
  <2>1. PICK n : n = launch.steps
    OBVIOUS
  <2>2. PICK resume : resume = launch.resume
    OBVIOUS
  <2>3. \A w \in World : todo[w] = MT5Program(w, resume, n)
    BY <1>0, <1>2, <2>1, <2>2 DEF ProgramOf
  <2> QED BY <1>0, <1>2, <2>1, <2>3, TranslationPlan
<1>3. CASE job.task = "mt5" /\ launch.resume /\ \A u, v \in World : saved[u].step = saved[v].step
  <2>0. 0 \in World
    BY <1>0, WorldRanks
  <2>1. PICK d : d = launch.steps - saved[0].step
    OBVIOUS
  <2> DEFINE n == Max({0, d})
  <2>2. n \in Nat
    <3>1. d \in Int
      BY <1>0, <2>0, <2>1
    <3> QED BY <3>1, GreatestIsNat
  <2>3. PICK resume : resume = launch.resume
    OBVIOUS
  <2>4. \A w \in World : todo[w] = MT5Program(w, resume, n)
    <3> TAKE w \in World
    <3>1. launch.steps - saved[w].step = d
      BY <1>3, <2>0, <2>1
    <3>2. todo[w] = MT5Program(w, launch.resume, IF launch.resume THEN Max({0, launch.steps - saved[w].step}) ELSE launch.steps)
      BY <1>0, <1>3 DEF ProgramOf
    <3> QED BY <1>3, <2>3, <3>1, <3>2
  <2> HIDE DEF n
  <2> QED BY <1>3, <2>2, <2>4, TranslationPlan
<1>4. CASE job.task = "mt5" /\ launch.resume /\ \E u, v \in World : saved[u].step # saved[v].step
  <2>1. ASSUME NEW w \in World PROVE Refusable(w)
    <3>1. PICK d : d = launch.steps - saved[w].step
      OBVIOUS
    <3> DEFINE n == Max({0, d})
    <3>2. n \in Nat
      <4>1. d \in Int
        BY <1>0, <2>1, <3>1
      <4> QED BY <4>1, GreatestIsNat
    <3>3. PICK resume \in BOOLEAN : resume = launch.resume
      BY <1>0
    <3>4. todo[w] = MT5Program(w, resume, n)
      BY <1>0, <1>4, <3>1, <3>3 DEF ProgramOf
    <3> HIDE DEF n
    <3>5. resume = TRUE
      BY <1>4, <3>3
    <3>6. Guarded(todo[w], "load_checkpoint", "signature") /\ Guarded(todo[w], "signature", "save")
      BY <1>0, <3>2, <3>4, <3>5, MT5Resumes
    <3>7. Guarded(todo[w], "signature", "update")
      BY <1>0, <3>2, <3>4, MT5ProgramOrder
    <3> QED BY <3>6, <3>7 DEF Refusable
  <2> QED BY <1>4, <2>1 DEF Unplanned
<1> QED BY <1>0, <1>1, <1>2, <1>3, <1>4

------------------------------------------------------------------------------
(* The inductive invariant: what the ranks hold is what a schedule of their  *)
(* programs says, unless the launch is to be refused.                        *)

SharedInv == TaskInv /\ ((MemHas /\ Planned) \/ Unplanned)

LEMMA TaskStarts ==
  TaskInit => Begun
<1> SUFFICES ASSUME TaskInit PROVE Begun
  OBVIOUS
<1>1. TaskInv
  BY TaskInitInv
<1>2. launch.resume \in BOOLEAN
  BY DEF TaskInit, FirstLaunch
<1>3. launch.steps \in Nat /\ job \in Jobs /\ \A w \in World : saved[w].step \in Nat
  BY <1>1 DEF TaskInv, TaskShape, TaskTypes
<1>4. /\ raised = {} /\ wire = [w \in World |-> [v \in World |-> <<>>]] /\ mem = [w \in World |-> Fresh(w, Nothing)]
      /\ \A w \in World : todo[w] = ProgramOf(w, launch)
  BY DEF TaskInit, NewChannels
<1> QED BY <1>2, <1>3, <1>4 DEF Begun

\* The job stays, and so do its programs.
LEMMA ProgramStays ==
  ASSUME UNCHANGED <<job, saved>>, NEW w
  PROVE  ProgramOf(w, launch)' = ProgramOf(w, launch')
<1>1. World' = World
  BY DEF World
<1>2. ASSUME NEW v PROVE Replica(v)' = Replica(v) /\ First(v)' = First(v) /\ Final(v)' = Final(v)
                         /\ Pipeline(v)' = Pipeline(v) /\ Replicas(v)' = Replicas(v)
  BY <1>1 DEF Stage, Replica, First, Final, Pipeline, Replicas
<1>3. ASSUME NEW v, NEW what PROVE Pipe(v, what)' = Pipe(v, what) /\ Data(v, what)' = Data(v, what)
  BY <1>2 DEF Pipe, Data
<1>4. ASSUME NEW what PROVE All(what)' = All(what)
  BY <1>1 DEF All
<1>5. ASSUME NEW i PROVE Forward(w, i)' = Forward(w, i) /\ Backward(w, i)' = Backward(w, i)
  BY <1>2 DEF Forward, Backward
<1>6. ASSUME NEW n, NEW t PROVE QABatch(w, n, t)' = QABatch(w, n, t) /\ MT5Batch(w, n, t)' = MT5Batch(w, n, t)
  BY <1>2, <1>3, <1>5 DEF QABatch, MT5Batch
<1>7. Batch(w, TRUE)' = Batch(w, TRUE) /\ Batch(w, FALSE)' = Batch(w, FALSE)
  BY <1>6 DEF Batch
<1>8. TrainingStep(w)' = TrainingStep(w)
  BY <1>3, <1>7, <1>4 DEF TrainingStep
<1>9. Batches(w)' = Batches(w)
  <2>1. Share(w)' = Share(w)
    BY <1>2 DEF Share
  <2> QED BY <2>1 DEF Batches
<1>10. FlattenSeq(Times(Batches(w), Batch(w, FALSE)))' = FlattenSeq(Times(Batches(w), Batch(w, FALSE)))
  BY <1>7, <1>9
<1>11. ASSUME NEW n PROVE FlattenSeq(Times(n, TrainingStep(w)))' = FlattenSeq(Times(n, TrainingStep(w)))
  BY <1>8
<1>12. ASSUME NEW n PROVE QAProgram(w, n)' = QAProgram(w, n)
  BY <1>2, <1>3, <1>10, <1>11, <1>4 DEF QAProgram
<1>13. ASSUME NEW n, NEW r PROVE MT5Program(w, r, n)' = MT5Program(w, r, n)
  BY <1>2, <1>3, <1>10, <1>11, <1>4 DEF MT5Program
<1> QED BY <1>12, <1>13 DEF ProgramOf

LEMMA TaskRestarts ==
  ASSUME TaskInv, NEW resume \in BOOLEAN, NEW more \in {0, 1}, LaunchAgain(resume, more)
  PROVE  Begun'
<1>1. /\ job' = job /\ saved' = saved /\ World' = World /\ job \in Jobs /\ launch.steps \in Nat
      /\ \A w \in World : saved[w].step \in Nat
  BY DEF TaskInv, TaskShape, TaskTypes, LaunchAgain, World
<1>2. /\ launch' = [number |-> launch.number + 1, settings |-> "same", resume |-> resume, steps |-> launch.steps + more]
      /\ mem' = [w \in World |-> Fresh(w, Nothing)] /\ todo' = [w \in World |-> ProgramOf(w, launch')]
      /\ raised' = {} /\ wire' = [w \in World |-> [v \in World |-> <<>>]]
  BY DEF LaunchAgain
<1>3. launch'.steps \in Nat /\ launch'.resume \in BOOLEAN
  BY <1>1, <1>2
<1>4. \A w : Fresh(w, Nothing)' = Fresh(w, Nothing) /\ ProgramOf(w, launch)' = ProgramOf(w, launch')
  BY <1>1, ProgramStays DEF Fresh
<1>5. \A w \in World' : saved'[w].step \in Nat /\ todo'[w] = ProgramOf(w, launch)'
  BY <1>1, <1>2, <1>4
<1>6. mem' = [w \in World' |-> Fresh(w, Nothing)']
  BY <1>1, <1>2, <1>4
<1> QED BY <1>1, <1>2, <1>3, <1>5, <1>6 DEF Begun

LEMMA PlannedStutters ==
  ASSUME TaskShape, MemHas, Planned, UNCHANGED <<taskVars, channelVars>>
  PROVE  MemHas' /\ Planned'
<1>1. UNCHANGED <<job, launch, mem, todo, raised, wire, buffered>>
  BY DEF taskVars, channelVars
<1>2. PICK z, steps : /\ steps = launch.steps /\ Scheduled(z, steps) /\ Answered(z)
                      /\ \E now, letters : Performs(z, now, letters)
  BY DEF Planned
<1>3. PICK now, letters : Performs(z, now, letters)
  BY <1>2
<1>4. Standing(z, now, letters)
  BY <1>2, <1>3 DEF Standing
<1> DEFINE S == {}
<1>5. Raise(S)
  <2>1. todo = [r \in DOMAIN todo |-> todo[r]]
    BY DEF TaskShape
  <2> QED BY <1>1, <2>1 DEF Raise, Peers
<1>6. MemHas' /\ \E on : Performs(z, on, letters)'
  <2> HIDE DEF S
  <2> QED BY <1>1, <1>4, <1>5, RaiseMoves
<1>7. Scheduled(z, steps)' /\ Answered(z)' /\ steps = launch'.steps
  BY <1>1, <1>2, ScheduleStays, AnsweredStays
<1>8. Planned'
  BY <1>6, <1>7 DEF Planned
<1> QED BY <1>6, <1>8

LEMMA UnplannedStutters ==
  ASSUME Unplanned, UNCHANGED <<taskVars, channelVars>>
  PROVE  Unplanned'
BY DEF taskVars, channelVars, Unplanned, Refusable, World

\* Who updates does as a schedule says.
LEMMA SharedUpdates ==
  SharedInv => UpdateIsShared
<1> SUFFICES ASSUME SharedInv, NEW w \in World, Trained(w)
             PROVE  /\ mem[w].grad = Every(mem[w].batch)
                    /\ mem[w].loss = Every(mem[w].batch)
                    /\ mem[w].count = 0 .. job.replicas - 1
                    /\ job.stages > 1 => mem[w].norm = {<<s, Every(mem[w].batch)>> : s \in 0 .. job.stages - 1}
  BY DEF UpdateIsShared
<1>1. TaskShape /\ todo[w] # <<>> /\ Current(w) = Alone("update", 0) /\ todo[w] \in Seq(TaskCalls)
  BY DEF SharedInv, TaskInv, Trained, TaskShape
<1>2. Current(w).do = "local" /\ Current(w).what = "update"
  BY <1>1 DEF Alone, Call
<1>3. ~Unplanned
  <2>1. ~Guarded(todo[w], "signature", "update")
    BY <1>1, <1>2, HeadFacts DEF Current
  <2> QED BY <2>1 DEF Unplanned, Refusable
<1>4. MemHas /\ Planned
  BY <1>3 DEF SharedInv
<1>5. PICK z, steps : /\ steps = launch.steps /\ Scheduled(z, steps)
                      /\ \E now, letters : Performs(z, now, letters)
  BY <1>4 DEF Planned
<1>6. PICK now, letters : Performs(z, now, letters)
  BY <1>5
<1>7. Standing(z, now, letters)
  BY <1>1, <1>4, <1>5, <1>6 DEF Standing
<1>8. PICK t : Acts(z, now, w, t)
  BY <1>1, <1>7, RankActs
<1>9. SharedNote(View(mem[w]))
  BY <1>1, <1>2, <1>8, LocalActs
<1> QED BY <1>9, ViewFields DEF SharedNote

\* Who is done has the answers a schedule ends with.
LEMMA SharedValidation ==
  SharedInv => ValidationIsWhole
<1> SUFFICES ASSUME SharedInv, job.task = "qa", todo[0] = <<>>, 0 \notin raised
             PROVE  mem[0].answers = 0 .. job.validation - 1
  BY DEF ValidationIsWhole
<1>1. job \in Jobs /\ 0 \in World
  BY WorldRanks DEF SharedInv, TaskInv, TaskShape
<1>2. Planned
  BY DEF SharedInv, Unplanned
<1>3. PICK z, steps : Scheduled(z, steps) /\ Answered(z) /\ \E now, letters : Performs(z, now, letters)
  BY <1>2 DEF Planned
<1>4. PICK now, letters : Clocks(z, now) /\ Follows(z, now)
  BY <1>3 DEF Performs
<1>5. z.rest[now[0]][0] = <<>> /\ View(mem[0]) = z.note[now[0]][0] /\ now[0] \in 0 .. z.len
  BY <1>1, <1>4 DEF Follows, Clocks
<1>6. z.note[z.len][0] = z.note[now[0]][0]
  BY <1>1, <1>3, <1>5, LastNote
<1>7. View(mem[0]).answers = 0 .. job.validation - 1
  BY <1>3, <1>5, <1>6 DEF Answered
<1> QED BY <1>7, ViewFields

LEMMA SharedStep ==
  SharedInv /\ [TaskNext]_<<taskVars, channelVars>> /\ (Begun => MemHas /\ (Planned \/ Unplanned))' => SharedInv'
<1> SUFFICES ASSUME SharedInv, [TaskNext]_<<taskVars, channelVars>>, (Begun => MemHas /\ (Planned \/ Unplanned))'
             PROVE  SharedInv'
  OBVIOUS
<1>1. TaskInv /\ TaskShape /\ TaskTypes /\ TaskInv'
  BY TaskInvKeeps DEF SharedInv, TaskInv
<1>2. ASSUME NEW w \in World, TaskStep(w) \/ CaughtFailure(w) \/ Failure(w) PROVE SharedInv'
  BY <1>1, <1>2, PlannedSteps, UnplannedSteps DEF SharedInv
<1>3. ASSUME NEW resume \in BOOLEAN, NEW more \in {0, 1}, LaunchAgain(resume, more) PROVE SharedInv'
  BY <1>1, <1>3, TaskRestarts DEF SharedInv
<1>4. CASE UNCHANGED <<taskVars, channelVars>>
  BY <1>1, <1>4, PlannedStutters, UnplannedStutters DEF SharedInv
<1> QED BY <1>2, <1>3, <1>4 DEF TaskNext

LEMMA SharedStarts == TaskInit => SharedInv
BY TaskInitInv, TaskStarts, BegunPlans DEF SharedInv

\* Every update of the question-answering and the translation runner finds the
\* gradients of all micro-batches of all replicas, each once, the loss of all, the
\* count of all and the norm of all stages, on every rank that makes it, for any
\* number of stages, replicas, micro-batches and steps, over wires that hold what
\* is sent or not, after any failures and restarts (pipeline_batch,
\* synchronize_gradients and clip_gradients of the two runners).
THEOREM UpdatesStayShared == TaskSpec => []UpdateIsShared
<1> QED BY SharedStarts, BegunPlans, SharedStep, SharedUpdates, PTL DEF TaskSpec

\* Where the question-answering runner comes to its end, rank 0 has the answers of
\* all validation features, those of every replica's share and no others, for any
\* number of features and replicas (validate and the gathering of its rows).
THEOREM ValidationStaysWhole == TaskSpec => []ValidationIsWhole
<1> QED BY SharedStarts, BegunPlans, SharedStep, SharedValidation, PTL DEF TaskSpec
=============================================================================
