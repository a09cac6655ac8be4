------------------------------ MODULE GPipeProofs ------------------------------
(****************************************************************************)
(* Proofs about GPipe, for any shapes and any number of iterations: the      *)
(* optimizer steps with whole gradients; and about LayerAllocation, for any  *)
(* instances: the plan is the best there is.                                 *)
(*                                                                          *)
(* No stream waits before it overwrites a buffer.  That nothing is lost is   *)
(* shown by following the data: the order of the four streams of a rank and  *)
(* of its neighbours (OrderOk), what is in flight between them (WireOk),     *)
(* until when a buffer keeps what it received (BufferOk), and which slots a  *)
(* gradient contains before and after the reductions (OwnOk, SharedOk).      *)
(*                                                                          *)
(* The parts of the invariant take the state as arguments, so that a lemma   *)
(* can speak of this state, the next one, or one between.                    *)
(*                                                                          *)
(* An allocation gives each stage some layers.  The greedy plan is compared  *)
(* with any possible one by exchanging layers inside full memory pools       *)
(* (Exchange), the static one by counting what stages can do in a time       *)
(* (CapsAre) and what is left for the later ones (SmallestFits).             *)
(****************************************************************************)
EXTENDS GPipe, LayerAllocation, FiniteSetTheorems, WellFoundedInduction, TLAPS

------------------------------------------------------------------------------
(* Slots and their numbers.                                                 *)

\* Slot j of w micro-batches: the b-th of accumulation step s, forward if t is 0;
\* and what the code computes from its number.
SlotAt(w, s, t, b, j) == j = (2 * s + t) * w + b + 1
Numbered(w, a, s, t, b, j) ==
  /\ j \in 1 .. 2 * a * w
  /\ (j - 1) \div w = 2 * s + t
  /\ (j - 1) % w = b
  /\ (j - 1) \div (2 * w) = s

\* Every slot has such parts,
LEMMA PartsOfSlot ==
  ASSUME NEW w \in Nat \ {0}, NEW a \in Nat \ {0}, NEW j \in 1 .. 2 * a * w
  PROVE  \E s \in 0 .. a - 1, t \in {0, 1}, b \in 0 .. w - 1 : SlotAt(w, s, t, b, j)
<1> DEFINE q == (j - 1) \div w
           b == (j - 1) % w
           s == q \div 2
           t == q % 2
<1>1. q \in Nat /\ b \in 0 .. w - 1 /\ j - 1 = q * w + b
  OBVIOUS
<1> HIDE DEF q, b
<1>2. s \in Nat /\ t \in {0, 1} /\ q = 2 * s + t
  BY <1>1
<1> HIDE DEF s, t
<1>3. s <= a - 1
  <2>1. SUFFICES ASSUME s >= a PROVE FALSE
    BY <1>2
  <2>2. q >= 2 * a
    BY <1>2, <2>1
  <2>3. q * w >= 2 * a * w
    BY <2>2, <1>1
  <2> QED BY <2>3, <1>1
<1>4. j = (2 * s + t) * w + b + 1
  BY <1>1, <1>2
<1> QED BY <1>1, <1>2, <1>3, <1>4 DEF SlotAt

\* and the code's divisions find them.
LEMMA SlotNumbers ==
  ASSUME NEW w \in Nat \ {0}, NEW a \in Nat \ {0}, NEW s \in 0 .. a - 1, NEW t \in {0, 1}, NEW b \in 0 .. w - 1,
         NEW j, SlotAt(w, s, t, b, j)
  PROVE  Numbered(w, a, s, t, b, j)
<1> DEFINE q == 2 * s + t
<1>0. q \in Nat /\ q <= 2 * a - 1
  OBVIOUS
<1>1. j = q * w + b + 1 /\ j \in Int /\ j - 1 = q * w + b
  <2>1. j = (2 * s + t) * w + b + 1
    BY DEF SlotAt
  <2> QED BY <2>1
<1>2. q * w \in Nat /\ q * w + w <= 2 * a * w
  <2>1. (q + 1) * w <= 2 * a * w
    BY <1>0
  <2> QED BY <2>1, <1>0
<1>3. j \in 1 .. 2 * a * w
  BY <1>1, <1>2
<1>4. (j - 1) \div w = q /\ (j - 1) % w = b
  <2> HIDE DEF q
  <2> QED BY <1>0, <1>1
<1>5. (j - 1) \div (2 * w) = s
  <2> DEFINE y == 2 * w
             x == t * w + b
  <2>1. x \in 0 .. y - 1
    OBVIOUS
  <2>2. j - 1 = s * y + x
    BY <1>1
  <2>3. y \in Nat \ {0} /\ s \in Nat
    OBVIOUS
  <2> HIDE DEF x, y
  <2>4. (s * y + x) \div y = s
    BY <2>1, <2>3
  <2> QED BY <2>2, <2>4 DEF y
<1> QED BY <1>3, <1>4, <1>5 DEF Numbered

------------------------------------------------------------------------------
(* Sums over finite sets.                                                   *)

\* A set of natural numbers that is not empty has a least element.
LEMMA LeastOfSet ==
  ASSUME NEW T, T \subseteq Nat, T # {}
  PROVE  \E x \in T : \A y \in T : x <= y
<1>1. PICK x \in T : \A y \in T : ~(<<y, x>> \in OpToRel(<, Nat))
  BY WFMin, NatLessThanWellFounded
<1>2. \A y \in T : ~(y < x)
  BY <1>1 DEF OpToRel
<1> QED BY <1>2

\* f adds up the values of g over each subset of S that has at most n elements,
\* taking one element after the other.
Small(S, n) == {T \in SUBSET S : Cardinality(T) <= n}
OneOf(T) == CHOOSE x \in T : TRUE
Sums(f, g, S, n) ==
  f = [T \in Small(S, n) |-> IF T = {} THEN 0 ELSE g[OneOf(T)] + f[T \ {OneOf(T)}]]

\* What is left of a set of at most n + 1 elements has at most n.
LEMMA OneFewer ==
  ASSUME NEW S, IsFiniteSet(S), NEW n \in Nat, NEW T \in Small(S, n), T # {}
  PROVE  /\ OneOf(T) \in T /\ n # 0
         /\ T \ {OneOf(T)} \in Small(S, n - 1)
         /\ Cardinality(T \ {OneOf(T)}) \in Nat /\ Cardinality(T) \in Nat
         /\ Cardinality(T \ {OneOf(T)}) < Cardinality(T)
<1>1. OneOf(T) \in T
  BY DEF OneOf
<1>2. T \in SUBSET S /\ Cardinality(T) <= n
  BY DEF Small
<1>3. IsFiniteSet(T) /\ Cardinality(T) \in Nat
  BY <1>2, FS_Subset, FS_CardinalityType
<1>4. Cardinality(T \ {OneOf(T)}) = Cardinality(T) - 1
  BY <1>1, <1>3, FS_RemoveElement
<1>5. Cardinality(T) # 0
  BY <1>3, FS_EmptySet
<1> QED BY <1>1, <1>2, <1>3, <1>4, <1>5 DEF Small

\* The recursion over the size of a set has a solution.
LEMMA SumsExist ==
  ASSUME NEW S, IsFiniteSet(S), NEW g, NEW n \in Nat
  PROVE  \E f : Sums(f, g, S, n)
<1> DEFINE Bad == {m \in Nat : ~\E f : Sums(f, g, S, m)}
<1>1. SUFFICES ASSUME Bad # {} PROVE FALSE
  OBVIOUS
<1>2. PICK m \in Bad : \A k \in Bad : m <= k
  BY <1>1, LeastOfSet
<1>3. m \in Nat /\ ~\E f : Sums(f, g, S, m)
  OBVIOUS
<1>4. CASE m = 0
  <2> DEFINE f == [T \in Small(S, 0) |-> 0]
  <2>1. \A T \in Small(S, 0) : T = {}
    BY OneFewer
  <2>2. f = [T \in Small(S, 0) |-> IF T = {} THEN 0 ELSE g[OneOf(T)] + f[T \ {OneOf(T)}]]
    BY <2>1
  <2>3. Sums(f, g, S, 0)
    BY <2>2 DEF Sums
  <2> QED BY <2>3, <1>3, <1>4
<1>5. CASE m # 0
  <2>1. m - 1 \in Nat /\ m - 1 \notin Bad
    BY <1>2, <1>3, <1>5
  <2>2. PICK f : Sums(f, g, S, m - 1)
    BY <2>1
  <2> DEFINE Step(T) == IF T = {} THEN 0 ELSE g[OneOf(T)] + f[T \ {OneOf(T)}]
             h == [T \in Small(S, m) |-> Step(T)]
             e == [T \in Small(S, m) |-> IF T = {} THEN 0 ELSE g[OneOf(T)] + h[T \ {OneOf(T)}]]
  <2>3. \A T \in Small(S, m - 1) : T \in Small(S, m) /\ f[T] = Step(T)
    <3> TAKE T \in Small(S, m - 1)
    <3>1. f[T] = Step(T)
      BY <2>2 DEF Sums
    <3>2. T \in SUBSET S /\ Cardinality(T) <= m - 1
      BY DEF Small
    <3>3. Cardinality(T) \in Nat
      BY <3>2, FS_Subset, FS_CardinalityType
    <3> QED BY <3>1, <3>2, <3>3, <1>3 DEF Small
  <2>4. \A T \in Small(S, m) : h[T] = e[T]
    <3> TAKE T \in Small(S, m)
    <3>1. CASE T = {}
      BY <3>1
    <3>2. CASE T # {}
      <4>1. T \ {OneOf(T)} \in Small(S, m - 1)
        BY <3>2, <1>3, OneFewer
      <4> DEFINE U == T \ {OneOf(T)}
      <4>2. U \in Small(S, m) /\ f[U] = Step(U)
        BY <4>1, <2>3
      <4>3. h[U] = f[U]
        BY <4>2
      <4>4. h[T] = g[OneOf(T)] + f[U]
        BY <3>2
      <4>5. e[T] = g[OneOf(T)] + h[U]
        BY <3>2
      <4> QED BY <4>3, <4>4, <4>5
    <3> QED BY <3>1, <3>2
  <2>5. h = e
    BY <2>4
  <2>6. Sums(h, g, S, m)
    BY <2>5 DEF Sums
  <2> QED BY <2>6, <1>3
<1> QED BY <1>4, <1>5


\* What a sum of y over T may be when all values are alike.
Alike(g, S, T, y) ==
  /\ y \in Nat
  /\ (\A x \in S : g[x] = 0) => y = 0
  /\ (\A x \in S : g[x] = 1) => y = Cardinality(T)
  /\ (\A x \in S : g[x] >= 1) => y >= Cardinality(T)

\* Sums of at most n numbers lie where sums lie.
LEMMA SumsFit ==
  ASSUME NEW S, IsFiniteSet(S), NEW g, \A x \in S : g[x] \in Nat, NEW n \in Nat,
         NEW f, Sums(f, g, S, n), NEW U \in Small(S, n)
  PROVE  Alike(g, S, U, f[U])
<1> DEFINE Bad == {m \in Nat : \E T \in Small(S, n) : Cardinality(T) = m /\ ~Alike(g, S, T, f[T])}
<1>1. \A T \in Small(S, n) : Cardinality(T) \in Nat /\ IsFiniteSet(T)
  BY FS_Subset, FS_CardinalityType DEF Small
<1>2. SUFFICES ASSUME Bad # {} PROVE FALSE
  BY <1>1
<1>3. PICK m \in Bad : \A k \in Bad : m <= k
  BY <1>2, LeastOfSet
<1>4. PICK T \in Small(S, n) : Cardinality(T) = m /\ ~Alike(g, S, T, f[T])
  OBVIOUS
<1>5. f[T] = IF T = {} THEN 0 ELSE g[OneOf(T)] + f[T \ {OneOf(T)}]
  BY DEF Sums
<1>6. T # {}
  <2>1. SUFFICES ASSUME T = {} PROVE FALSE
    OBVIOUS
  <2>2. f[T] = 0 /\ Cardinality(T) = 0
    BY <1>5, <2>1, FS_EmptySet
  <2> QED BY <1>4, <2>2 DEF Alike
<1> DEFINE V == T \ {OneOf(T)}
<1>7. V \in Small(S, n - 1) /\ Cardinality(V) \in Nat /\ Cardinality(V) < m /\ OneOf(T) \in S /\ OneOf(T) \in T
  BY <1>4, <1>6, OneFewer DEF Small
<1>8. V \in Small(S, n)
  BY <1>7 DEF Small
<1>9. Alike(g, S, V, f[V])
  <2>1. Cardinality(V) \notin Bad
    <3>1. m \in Nat
      OBVIOUS
    <3> HIDE DEF Bad, V
    <3> QED BY <1>3, <1>7, <3>1
  <2> QED BY <2>1, <1>7, <1>8
<1>10. g[OneOf(T)] \in Nat
  BY <1>7
<1>11. Cardinality(T) = Cardinality(V) + 1
  <2>1. Cardinality(V) = Cardinality(T) - 1
    BY <1>1, <1>7, FS_RemoveElement
  <2> HIDE DEF V
  <2> QED BY <2>1, <1>1, <1>7
<1> DEFINE x == OneOf(T)
<1>12. f[T] = g[x] + f[V]
  BY <1>5, <1>6
<1> HIDE DEF V, x
<1>13. f[V] \in Nat /\ g[x] \in Nat /\ x \in S
  BY <1>7, <1>9, <1>10 DEF Alike, x
<1>14. Alike(g, S, T, f[T])
  <2>1. f[T] \in Nat
    BY <1>12, <1>13
  <2>2. ASSUME \A z \in S : g[z] = 0 PROVE f[T] = 0
    BY <1>9, <1>12, <1>13, <2>2 DEF Alike
  <2>3. ASSUME \A z \in S : g[z] = 1 PROVE f[T] = Cardinality(T)
    <3>1. f[V] = Cardinality(V) /\ g[x] = 1
      BY <1>9, <1>13, <2>3 DEF Alike
    <3> QED BY <3>1, <1>7, <1>11, <1>12, <1>13
  <2>4. ASSUME \A z \in S : g[z] >= 1 PROVE f[T] >= Cardinality(T)
    <3>1. f[V] >= Cardinality(V) /\ g[x] >= 1
      BY <1>9, <1>13, <2>4 DEF Alike
    <3> QED BY <3>1, <1>7, <1>11, <1>12, <1>13
  <2> QED BY <2>1, <2>2, <2>3, <2>4 DEF Alike
<1> QED BY <1>4, <1>14

\* What the fold of the community modules returns is such a sum.
LEMMA SumIsAdded ==
  ASSUME NEW S, IsFiniteSet(S), NEW g
  PROVE  \E f : Sums(f, g, S, Cardinality(S)) /\ SumFunctionOnSet(g, S) = f[S]
<1> DEFINE added == CHOOSE f : f = [s \in SUBSET S |->
                      IF s = {} THEN 0 ELSE g[CHOOSE x \in s : TRUE] + f[s \ {CHOOSE x \in s : TRUE}]]
           n == Cardinality(S)
<1>1. SumFunctionOnSet(g, S) = added[S]
  BY DEF SumFunctionOnSet, FoldFunctionOnSet, MapThenFoldSet
<1>2. n \in Nat /\ Small(S, n) = SUBSET S
  BY FS_CardinalityType, FS_Subset DEF Small
<1>3. \E f : Sums(f, g, S, n)
  BY <1>2, SumsExist
<1>4. Sums(added, g, S, n)
  <2>1. \E f : f = [s \in SUBSET S |->
                 IF s = {} THEN 0 ELSE g[CHOOSE x \in s : TRUE] + f[s \ {CHOOSE x \in s : TRUE}]]
    BY <1>2, <1>3 DEF Sums, OneOf
  <2> QED BY <2>1, <1>2 DEF Sums, OneOf
<1> QED BY <1>1, <1>4

LEMMA SumFits ==
  ASSUME NEW S, IsFiniteSet(S), NEW g, \A x \in S : g[x] \in Nat
  PROVE  Alike(g, S, S, SumFunctionOnSet(g, S))
<1> DEFINE n == Cardinality(S)
<1>1. PICK f : Sums(f, g, S, n) /\ SumFunctionOnSet(g, S) = f[S]
  BY SumIsAdded
<1>2. n \in Nat /\ S \in Small(S, n)
  BY FS_CardinalityType DEF Small
<1> HIDE DEF n
<1> QED BY <1>1, <1>2, SumsFit

\* Sums are made of the same sums, whatever set they are subsets of.
LEMMA SumsAgree ==
  ASSUME NEW S, IsFiniteSet(S), NEW T \in SUBSET S, NEW g, NEW n \in Nat, NEW m \in Nat,
         NEW f, Sums(f, g, S, n), NEW h, Sums(h, g, T, m), NEW U \in Small(T, m), U \in Small(S, n)
  PROVE  f[U] = h[U]
<1> DEFINE Bad == {k \in Nat : \E V \in Small(T, m) : V \in Small(S, n) /\ Cardinality(V) = k /\ f[V] # h[V]}
<1>1. \A V \in Small(T, m) : Cardinality(V) \in Nat /\ IsFiniteSet(V)
  BY FS_Subset, FS_CardinalityType DEF Small
<1>2. SUFFICES ASSUME Bad # {} PROVE FALSE
  BY <1>1
<1>3. PICK k \in Bad : \A l \in Bad : k <= l
  BY <1>2, LeastOfSet
<1>4. PICK V \in Small(T, m) : V \in Small(S, n) /\ Cardinality(V) = k /\ f[V] # h[V]
  OBVIOUS
<1>5. /\ f[V] = IF V = {} THEN 0 ELSE g[OneOf(V)] + f[V \ {OneOf(V)}]
      /\ h[V] = IF V = {} THEN 0 ELSE g[OneOf(V)] + h[V \ {OneOf(V)}]
  BY <1>4 DEF Sums
<1>6. V # {}
  BY <1>4, <1>5
<1> DEFINE W == V \ {OneOf(V)}
<1>7. IsFiniteSet(T)
  BY FS_Subset
<1>8. W \in Small(T, m - 1) /\ W \in Small(S, n - 1) /\ Cardinality(W) \in Nat /\ Cardinality(W) < k
  BY <1>4, <1>6, <1>7, OneFewer
<1>9. W \in Small(T, m) /\ W \in Small(S, n)
  BY <1>8 DEF Small
<1>10. Cardinality(W) \notin Bad
  <2> HIDE DEF Bad, W
  <2>1. k \in Nat
    BY <1>3 DEF Bad
  <2> QED BY <2>1, <1>3, <1>8
<1>11. f[W] = h[W]
  BY <1>8, <1>9, <1>10
<1> QED BY <1>4, <1>5, <1>6, <1>11

LEMMA SumOfNone == ASSUME NEW g PROVE SumFunctionOnSet(g, {}) = 0
<1>1. IsFiniteSet({}) /\ Cardinality({}) = 0 /\ {} \in Small({}, 0)
  BY FS_EmptySet DEF Small
<1>2. PICK f : Sums(f, g, {}, 0) /\ SumFunctionOnSet(g, {}) = f[{}]
  BY <1>1, SumIsAdded
<1> QED BY <1>1, <1>2 DEF Sums

LEMMA SumTakesOne ==
  ASSUME NEW S, IsFiniteSet(S), S # {}, NEW g
  PROVE  SumFunctionOnSet(g, S) = g[OneOf(S)] + SumFunctionOnSet(g, S \ {OneOf(S)})
<1> DEFINE T == S \ {OneOf(S)}
           n == Cardinality(S)
           m == Cardinality(T)
<1>1. n \in Nat /\ S \in Small(S, n) /\ IsFiniteSet(T) /\ m \in Nat /\ T \in Small(T, m)
      /\ T \in SUBSET S
  BY FS_CardinalityType, FS_Subset DEF Small
<1>2. T \in Small(S, n - 1) /\ m < n
  BY <1>1, OneFewer
<1>3. T \in Small(S, n)
  BY <1>1, <1>2 DEF Small
<1>4. PICK f : Sums(f, g, S, n) /\ SumFunctionOnSet(g, S) = f[S]
  BY SumIsAdded
<1>5. PICK h : Sums(h, g, T, m) /\ SumFunctionOnSet(g, T) = h[T]
  BY <1>1, SumIsAdded
<1>6. f[S] = g[OneOf(S)] + f[T]
  BY <1>1, <1>4 DEF Sums
<1> HIDE DEF T, n, m
<1>7. f[T] = h[T]
  BY <1>1, <1>3, <1>4, <1>5, SumsAgree
<1> QED BY <1>4, <1>5, <1>6, <1>7 DEF T

\* The element may be any.
LEMMA SumWithout ==
  ASSUME NEW S, IsFiniteSet(S), NEW g, \A x \in S : g[x] \in Nat, NEW x \in S
  PROVE  SumFunctionOnSet(g, S) = g[x] + SumFunctionOnSet(g, S \ {x})
<1> DEFINE F(T) == SumFunctionOnSet(g, T)
           Bad == {k \in Nat : \E T \in SUBSET S : Cardinality(T) = k /\ \E y \in T : F(T) # g[y] + F(T \ {y})}
<1>1. \A T \in SUBSET S : Cardinality(T) \in Nat /\ IsFiniteSet(T)
  BY FS_Subset, FS_CardinalityType
<1>2. SUFFICES ASSUME Bad # {} PROVE FALSE
  BY <1>1
<1>3. PICK k \in Bad : \A l \in Bad : k <= l
  BY <1>2, LeastOfSet
<1>4. PICK T \in SUBSET S : Cardinality(T) = k /\ \E y \in T : F(T) # g[y] + F(T \ {y})
  OBVIOUS
<1>5. PICK y \in T : F(T) # g[y] + F(T \ {y})
  BY <1>4
<1> DEFINE z == OneOf(T)
           U == T \ {y, z}
<1>6. z \in T /\ F(T) = g[z] + F(T \ {z})
  BY <1>1, <1>5, SumTakesOne DEF OneOf
<1> HIDE DEF z, F
<1>7. y # z
  BY <1>5, <1>6
<1>8. \A V \in SUBSET S : \A v \in V : Cardinality(V) < k => F(V) = g[v] + F(V \ {v})
  <2> TAKE V \in SUBSET S
  <2>1. Cardinality(V) < k => Cardinality(V) \notin Bad
    <3>1. Cardinality(V) \in Nat /\ k \in Nat
      BY <1>1
    <3> HIDE DEF Bad
    <3> QED BY <3>1, <1>3
  <2> QED BY <2>1, <1>1
<1>9. /\ Cardinality(T \ {y}) < k /\ Cardinality(T \ {z}) < k
  <2>1. Cardinality(T \ {y}) = Cardinality(T) - 1 /\ Cardinality(T \ {z}) = Cardinality(T) - 1
    BY <1>1, <1>6, FS_RemoveElement
  <2>2. Cardinality(T) \in Nat
    BY <1>1
  <2> QED BY <2>1, <2>2, <1>4
<1>10. /\ (T \ {y}) \ {z} = U /\ (T \ {z}) \ {y} = U
       /\ z \in T \ {y} /\ y \in T \ {z} /\ T \ {y} \in SUBSET S /\ T \ {z} \in SUBSET S
  BY <1>6, <1>7
<1>11. F(T \ {y}) = g[z] + F(U)
  BY <1>8, <1>9, <1>10
<1>12. F(T \ {z}) = g[y] + F(U)
  BY <1>8, <1>9, <1>10
<1>13. g[y] \in Nat /\ g[z] \in Nat /\ F(U) \in Nat
  <2>1. IsFiniteSet(U) /\ \A u \in U : g[u] \in Nat
    BY <1>1
  <2> HIDE DEF U
  <2>2. Alike(g, U, U, SumFunctionOnSet(g, U))
    BY <2>1, SumFits
  <2> QED BY <2>2, <1>6 DEF Alike, F
<1> HIDE DEF U
<1> QED BY <1>5, <1>6, <1>11, <1>12, <1>13

\* Induction over the subsets of a finite set.
Grows(G, S) == {} \in G /\ \A T \in SUBSET S : \A x \in S \ T : T \in G => T \cup {x} \in G

LEMMA SubsetInduction ==
  ASSUME NEW S, IsFiniteSet(S), NEW G, Grows(G, S)
  PROVE  S \in G
<1> DEFINE Bad == {k \in Nat : \E T \in SUBSET S : Cardinality(T) = k /\ T \notin G}
<1>1. \A T \in SUBSET S : Cardinality(T) \in Nat /\ IsFiniteSet(T)
  BY FS_Subset, FS_CardinalityType
<1>2. SUFFICES ASSUME Bad # {} PROVE FALSE
  BY <1>1
<1>3. PICK k \in Bad : \A l \in Bad : k <= l
  BY <1>2, LeastOfSet
<1>4. PICK T \in SUBSET S : Cardinality(T) = k /\ T \notin G
  OBVIOUS
<1>5. PICK x \in T : TRUE
  BY <1>4 DEF Grows
<1> DEFINE U == T \ {x}
<1>6. Cardinality(U) = Cardinality(T) - 1 /\ Cardinality(T) \in Nat
  BY <1>1, FS_RemoveElement
<1>7. U \in SUBSET S /\ x \in S \ U /\ U \cup {x} = T /\ Cardinality(U) \in Nat
  BY <1>1
<1>8. Cardinality(U) \notin Bad
  <2> HIDE DEF Bad, U
  <2> QED BY <1>3, <1>4, <1>6, <1>7
<1>9. U \in G
  BY <1>7, <1>8
<1> HIDE DEF U
<1> QED BY <1>4, <1>7, <1>9 DEF Grows

\* Sums of numbers over a set.
Numbers(g, S) == IsFiniteSet(S) /\ \A x \in S : g[x] \in Nat
Amount(g, S) == SumFunctionOnSet(g, S)

LEMMA AmountIsNumber ==
  ASSUME NEW S, NEW g, Numbers(g, S)
  PROVE  Amount(g, S) \in Nat /\ \A T \in SUBSET S : Numbers(g, T) /\ Amount(g, T) \in Nat
<1>1. ASSUME NEW T \in SUBSET S PROVE Numbers(g, T) /\ Amount(g, T) \in Nat
  <2>1. IsFiniteSet(T) /\ \A x \in T : g[x] \in Nat
    BY FS_Subset DEF Numbers
  <2>2. Alike(g, T, T, SumFunctionOnSet(g, T))
    BY <2>1, SumFits
  <2> QED BY <2>1, <2>2 DEF Numbers, Amount, Alike
<1> QED BY <1>1

LEMMA AmountWithout ==
  ASSUME NEW S, NEW g, Numbers(g, S), NEW x \in S
  PROVE  /\ Amount(g, S) = g[x] + Amount(g, S \ {x})
         /\ Amount(g, S) \in Nat /\ g[x] \in Nat /\ Amount(g, S \ {x}) \in Nat
<1>1. Amount(g, S) = g[x] + Amount(g, S \ {x})
  BY SumWithout DEF Numbers, Amount
<1>2. S \ {x} \in SUBSET S
  OBVIOUS
<1> QED BY <1>1, <1>2, AmountIsNumber DEF Numbers

\* One more element adds its number.
Adds(g, T, x) ==
  /\ Amount(g, T \cup {x}) = g[x] + Amount(g, T)
  /\ g[x] \in Nat /\ Amount(g, T) \in Nat

LEMMA AmountWith ==
  ASSUME NEW S, NEW g, Numbers(g, S), NEW T \in SUBSET S, NEW x \in S \ T
  PROVE  Adds(g, T, x)
<1>1. T \cup {x} \in SUBSET S /\ x \in T \cup {x} /\ (T \cup {x}) \ {x} = T
  OBVIOUS
<1>2. Numbers(g, T \cup {x})
  BY <1>1, AmountIsNumber
<1> DEFINE U == T \cup {x}
<1>3. x \in U /\ U \ {x} = T /\ Numbers(g, U)
  BY <1>1, <1>2
<1> HIDE DEF U
<1>4. Amount(g, U) = g[x] + Amount(g, T) /\ g[x] \in Nat /\ Amount(g, T) \in Nat
  BY <1>3, AmountWithout
<1> QED BY <1>4 DEF U, Adds

LEMMA AmountOfNone == ASSUME NEW g PROVE Amount(g, {}) = 0
BY SumOfNone DEF Amount

LEMMA AmountGrows ==
  ASSUME NEW S, NEW f, NEW g, Numbers(f, S), Numbers(g, S), \A x \in S : f[x] <= g[x]
  PROVE  Amount(f, S) <= Amount(g, S)
<1> DEFINE G == {T \in SUBSET S : Amount(f, T) <= Amount(g, T)}
<1>1. {} \in G
  BY AmountOfNone
<1>2. ASSUME NEW T \in SUBSET S, NEW x \in S \ T, T \in G PROVE T \cup {x} \in G
  <2>1. Adds(f, T, x) /\ Adds(g, T, x)
    BY AmountWith
  <2>2. Amount(f, T) <= Amount(g, T) /\ f[x] <= g[x]
    BY <1>2
  <2> QED BY <2>1, <2>2 DEF Adds
<1>3. Grows(G, S)
  BY <1>1, <1>2 DEF Grows
<1>4. S \in G
  <2> HIDE DEF G
  <2> QED BY <1>3, SubsetInduction DEF Numbers
<1> QED BY <1>4

LEMMA AmountSame ==
  ASSUME NEW S, NEW f, NEW g, Numbers(f, S), \A x \in S : f[x] = g[x]
  PROVE  Amount(f, S) = Amount(g, S) /\ Numbers(g, S)
<1>1. Numbers(g, S) /\ (\A x \in S : f[x] <= g[x]) /\ (\A x \in S : g[x] <= f[x])
  BY DEF Numbers
<1>2. Amount(f, S) <= Amount(g, S) /\ Amount(g, S) <= Amount(f, S)
  BY <1>1, AmountGrows
<1>3. Amount(f, S) \in Nat /\ Amount(g, S) \in Nat
  BY <1>1, AmountIsNumber
<1> QED BY <1>1, <1>2, <1>3

\* A sum over two sets without common elements.
LEMMA AmountJoins ==
  ASSUME NEW S, NEW g, Numbers(g, S), NEW A \in SUBSET S, NEW B \in SUBSET S, A \cap B = {}
  PROVE  Amount(g, A \cup B) = Amount(g, A) + Amount(g, B)
<1> DEFINE G == {T \in SUBSET B : Amount(g, A \cup T) = Amount(g, A) + Amount(g, T)}
<1>1. Amount(g, A) \in Nat /\ IsFiniteSet(B)
  BY AmountIsNumber DEF Numbers
<1>2. {} \in G
  <2>1. A \cup {} = A
    OBVIOUS
  <2> QED BY <2>1, <1>1, AmountOfNone
<1>3. ASSUME NEW T \in SUBSET B, NEW x \in B \ T, T \in G PROVE T \cup {x} \in G
  <2> DEFINE U == A \cup T
  <2>1. A \cup (T \cup {x}) = U \cup {x} /\ U \in SUBSET S /\ x \in S \ U /\ T \in SUBSET S
        /\ x \in S \ T
    BY <1>3
  <2>2. Amount(g, U) = Amount(g, A) + Amount(g, T)
    BY <1>3
  <2> HIDE DEF U
  <2>3. Adds(g, U, x) /\ Adds(g, T, x)
    BY <2>1, AmountWith
  <2>5. Amount(g, A \cup (T \cup {x})) = Amount(g, A) + Amount(g, T \cup {x})
    BY <1>1, <2>1, <2>2, <2>3 DEF Adds
  <2> QED BY <2>5
<1>4. Grows(G, B)
  BY <1>2, <1>3 DEF Grows
<1>5. B \in G
  <2> HIDE DEF G
  <2> QED BY <1>1, <1>4, SubsetInduction
<1> QED BY <1>5

\* What h is made of: b and n on M, nothing elsewhere.
MadeOf(h, b, n, M, S) == \A r \in S : h[r] = IF r \in M THEN b[r] + n[r] ELSE 0

LEMMA AmountOfParts ==
  ASSUME NEW S, NEW b, NEW n, Numbers(b, S), Numbers(n, S), NEW M \in SUBSET S,
         NEW h, MadeOf(h, b, n, M, S)
  PROVE  Amount(h, S) = Amount(b, M) + Amount(n, M) /\ Numbers(h, S)
<1> DEFINE G == {T \in SUBSET S : Amount(h, T) = Amount(b, T \cap M) + Amount(n, T \cap M)}
<1>1. Numbers(h, S)
  BY DEF Numbers, MadeOf
<1>2. {} \in G
  <2>1. {} \cap M = {}
    OBVIOUS
  <2> QED BY <2>1, AmountOfNone
<1>3. ASSUME NEW T \in SUBSET S, NEW x \in S \ T, T \in G PROVE T \cup {x} \in G
  <2> DEFINE V == T \cap M
             W == (T \cup {x}) \cap M
  <2>1. V \in SUBSET S /\ (x \in M => W = V \cup {x} /\ x \in S \ V) /\ (x \notin M => W = V)
    OBVIOUS
  <2>2. Amount(h, T) = Amount(b, V) + Amount(n, V)
    BY <1>3
  <2>3. Adds(h, T, x)
    BY <1>1, AmountWith
  <2>4. h[x] = IF x \in M THEN b[x] + n[x] ELSE 0
    BY DEF MadeOf
  <2> HIDE DEF V, W
  <2>5. Amount(b, V) \in Nat /\ Amount(n, V) \in Nat
    BY <2>1, AmountIsNumber
  <2>6. CASE x \in M
    <3>1. Adds(b, V, x) /\ Adds(n, V, x)
      BY <2>1, <2>6, AmountWith
    <3>2. Amount(h, T \cup {x}) = Amount(b, W) + Amount(n, W)
      BY <2>1, <2>2, <2>3, <2>4, <2>5, <2>6, <3>1 DEF Adds
    <3> QED BY <3>2 DEF W
  <2>7. CASE x \notin M
    <3>1. Amount(h, T \cup {x}) = Amount(b, W) + Amount(n, W)
      BY <2>1, <2>2, <2>3, <2>4, <2>5, <2>7 DEF Adds
    <3> QED BY <3>1 DEF W
  <2> QED BY <2>6, <2>7
<1>4. Grows(G, S)
  BY <1>2, <1>3 DEF Grows
<1>5. S \in G
  <2> HIDE DEF G
  <2> QED BY <1>4, SubsetInduction DEF Numbers
<1>6. S \cap M = M
  OBVIOUS
<1> QED BY <1>1, <1>5, <1>6

\* A class of S for each element; elements of a class have that class.
Classes(c, S) == \A x \in S : c[x] \in SUBSET S /\ x \in c[x] /\ \A y \in c[x] : c[y] = c[x]

LEMMA AmountByClasses ==
  ASSUME NEW S, NEW f, NEW g, Numbers(f, S), Numbers(g, S), NEW c, Classes(c, S),
         \A x \in S : Amount(f, c[x]) <= Amount(g, c[x])
  PROVE  Amount(f, S) <= Amount(g, S)
<1> DEFINE Bad == {k \in Nat : \E T \in SUBSET S :
                     Cardinality(T) = k /\ (\A x \in T : c[x] \subseteq T) /\ ~(Amount(f, T) <= Amount(g, T))}
<1>1. \A T \in SUBSET S : Cardinality(T) \in Nat /\ IsFiniteSet(T)
  BY FS_Subset, FS_CardinalityType DEF Numbers
<1>2. SUFFICES ASSUME Bad # {} PROVE FALSE
  <2>1. \A x \in S : c[x] \subseteq S
    BY DEF Classes
  <2> QED BY <1>1, <2>1
<1>3. PICK k \in Bad : \A l \in Bad : k <= l
  BY <1>2, LeastOfSet
<1>4. PICK T \in SUBSET S :
        Cardinality(T) = k /\ (\A x \in T : c[x] \subseteq T) /\ ~(Amount(f, T) <= Amount(g, T))
  OBVIOUS
<1>5. T # {}
  BY <1>4, AmountOfNone
<1>6. PICK x \in T : TRUE
  BY <1>5
<1> DEFINE K == c[x]
           U == T \ K
<1>7. K \subseteq T /\ x \in K /\ K \in SUBSET S /\ U \in SUBSET S /\ K \cap U = {} /\ K \cup U = T
  BY <1>4 DEF Classes
<1>8. \A y \in U : c[y] \subseteq U
  <2> SUFFICES ASSUME NEW y \in U, NEW z \in c[y] PROVE z \in U
    OBVIOUS
  <2>1. z \in T
    BY <1>4
  <2>2. z \notin K
    <3>1. SUFFICES ASSUME z \in K PROVE FALSE
      OBVIOUS
    <3>2. c[z] = c[x] /\ c[z] = c[y] /\ y \in c[y]
      BY <3>1 DEF Classes
    <3> QED BY <3>2
  <2> QED BY <2>1, <2>2
<1>9. Cardinality(U) < k /\ Cardinality(U) \in Nat
  <2>1. U # T
    BY <1>7
  <2>2. IsFiniteSet(T) /\ Cardinality(T) \in Nat /\ Cardinality(U) \in Nat /\ U \in SUBSET T
    BY <1>1, <1>7
  <2> HIDE DEF U
  <2>3. Cardinality(U) <= Cardinality(T) /\ (Cardinality(T) = Cardinality(U) => T = U)
    BY <2>2, FS_Subset
  <2> QED BY <2>1, <2>2, <2>3, <1>4
<1>10. Cardinality(U) \notin Bad
  <2>1. k \in Nat
    OBVIOUS
  <2> HIDE DEF Bad, U
  <2> QED BY <1>3, <1>9, <2>1
<1>11. Amount(f, U) <= Amount(g, U)
  BY <1>7, <1>8, <1>9, <1>10
<1>12. Amount(f, K) <= Amount(g, K)
  OBVIOUS
<1> HIDE DEF K, U
<1>13. Amount(f, T) = Amount(f, K) + Amount(f, U) /\ Amount(g, T) = Amount(g, K) + Amount(g, U)
  BY <1>7, AmountJoins
<1>14. /\ Amount(f, U) \in Nat /\ Amount(g, U) \in Nat /\ Amount(f, K) \in Nat /\ Amount(g, K) \in Nat
  BY <1>7, AmountIsNumber
<1> QED BY <1>4, <1>11, <1>12, <1>13, <1>14

------------------------------------------------------------------------------
(* The work of a stream.                                                    *)

\* What the assumption says of the shape in use.
LEMMA ShapeFacts ==
  ASSUME shape \in Shapes
  PROVE  /\ shape.micros \in Nat \ {0} /\ shape.accumulate \in Nat \ {0}
         /\ shape.stages \in Nat \ {0} /\ shape.replicas \in Nat \ {0}
         /\ shape.mode \in {"allreduce", "central_ps", "sharded_ps"}
         /\ \E n \in Nat : Slots = 1 .. n /\ Update = n + 1 /\ End = n + 3
<1>1. /\ shape.micros \in Nat \ {0} /\ shape.accumulate \in Nat \ {0}
      /\ shape.stages \in Nat \ {0} /\ shape.replicas \in Nat \ {0}
      /\ shape.mode \in {"allreduce", "central_ps", "sharded_ps"}
  BY GPipeAssumption
<1> DEFINE n == 2 * shape.accumulate * shape.micros
<1>2. n \in Nat
  BY <1>1
<1>3. Slots = 1 .. n /\ Update = n + 1 /\ End = n + 1 + 2
  BY DEF Slots, Update, End
<1> HIDE DEF n
<1>4. n + 1 + 2 = n + 3
  BY <1>2
<1> QED BY <1>1, <1>2, <1>3, <1>4

\* The numbers of a slot are what StepOf, MicroOf and Backward compute.
LEMMA SlotParts ==
  ASSUME shape \in Shapes, NEW j \in Slots
  PROVE  \E s \in 0 .. shape.accumulate - 1, t \in {0, 1}, b \in 0 .. shape.micros - 1 :
           /\ SlotAt(shape.micros, s, t, b, j)
           /\ StepOf(j) = s + 1 /\ MicroOf(j) = b + 1 /\ (Backward(j) <=> t = 1)
<1>1. shape.micros \in Nat \ {0} /\ shape.accumulate \in Nat \ {0} /\ j \in 1 .. 2 * shape.accumulate * shape.micros
  BY ShapeFacts DEF Slots
<1>2. PICK s \in 0 .. shape.accumulate - 1, t \in {0, 1}, b \in 0 .. shape.micros - 1 :
        SlotAt(shape.micros, s, t, b, j)
  BY <1>1, PartsOfSlot
<1>3. /\ (j - 1) \div shape.micros = 2 * s + t
      /\ (j - 1) % shape.micros = b
      /\ (j - 1) \div (2 * shape.micros) = s
  <2> DEFINE w == shape.micros
             a == shape.accumulate
  <2>1. w \in Nat \ {0} /\ a \in Nat \ {0} /\ s \in 0 .. a - 1 /\ b \in 0 .. w - 1 /\ SlotAt(w, s, t, b, j)
    BY <1>1, <1>2
  <2> HIDE DEF w, a
  <2>2. Numbered(w, a, s, t, b, j)
    BY <2>1, SlotNumbers
  <2> QED BY <2>2 DEF w, Numbered
<1>4. ((j - 1) \div shape.micros) % 2 = t
  <2>1. (2 * s + t) % 2 = t
    OBVIOUS
  <2> QED BY <2>1, <1>3
<1>5. StepOf(j) = s + 1 /\ MicroOf(j) = b + 1 /\ (Backward(j) <=> t = 1)
  BY <1>3, <1>4 DEF StepOf, MicroOf, Backward
<1> QED BY <1>2, <1>5

\* And any parts in range make a slot.
LEMMA SlotOfParts ==
  ASSUME shape \in Shapes, NEW s \in 0 .. shape.accumulate - 1, NEW t \in {0, 1}, NEW b \in 0 .. shape.micros - 1,
         NEW j, SlotAt(shape.micros, s, t, b, j)
  PROVE  j \in Slots /\ StepOf(j) = s + 1 /\ MicroOf(j) = b + 1 /\ (Backward(j) <=> t = 1)
<1>1. shape.micros \in Nat \ {0} /\ shape.accumulate \in Nat \ {0}
  BY ShapeFacts
<1>3. /\ j \in 1 .. 2 * shape.accumulate * shape.micros
      /\ (j - 1) \div shape.micros = 2 * s + t
      /\ (j - 1) % shape.micros = b
      /\ (j - 1) \div (2 * shape.micros) = s
  <2> DEFINE w == shape.micros
             a == shape.accumulate
  <2>1. w \in Nat \ {0} /\ a \in Nat \ {0} /\ s \in 0 .. a - 1 /\ b \in 0 .. w - 1 /\ SlotAt(w, s, t, b, j)
    BY <1>1
  <2> HIDE DEF w, a
  <2>2. Numbered(w, a, s, t, b, j)
    BY <2>1, SlotNumbers
  <2> QED BY <2>2 DEF w, a, Numbered
<1>4. ((j - 1) \div shape.micros) % 2 = t
  <2>1. (2 * s + t) % 2 = t
    OBVIOUS
  <2> QED BY <2>1, <1>3
<1> QED BY <1>3, <1>4 DEF StepOf, MicroOf, Backward, Slots

\* Slots are numbers of a step and a micro-batch.
LEMMA SlotTypes ==
  ASSUME shape \in Shapes, NEW j \in Slots
  PROVE  j \in Nat /\ StepOf(j) \in Steps /\ MicroOf(j) \in Micros /\ Backward(j) \in BOOLEAN
<1>1. PICK s \in 0 .. shape.accumulate - 1, t \in {0, 1}, b \in 0 .. shape.micros - 1 :
           /\ StepOf(j) = s + 1 /\ MicroOf(j) = b + 1
  BY SlotParts
<1>2. s + 1 \in Steps /\ b + 1 \in Micros
  BY ShapeFacts DEF Steps, Micros
<1>3. j \in Nat
  BY ShapeFacts
<1> QED BY <1>1, <1>2, <1>3 DEF Backward

\* The forward slot of a backward one.
LEMMA ForwardBefore ==
  ASSUME shape \in Shapes, NEW j \in Slots, Backward(j)
  PROVE  /\ j - shape.micros \in Slots /\ ~Backward(j - shape.micros)
         /\ StepOf(j - shape.micros) = StepOf(j) /\ MicroOf(j - shape.micros) = MicroOf(j)
<1> DEFINE w == shape.micros
<1>1. PICK s \in 0 .. shape.accumulate - 1, t \in {0, 1}, b \in 0 .. w - 1 :
           /\ SlotAt(w, s, t, b, j)
           /\ StepOf(j) = s + 1 /\ MicroOf(j) = b + 1 /\ (Backward(j) <=> t = 1)
  BY SlotParts
<1>2. w \in Nat \ {0} /\ shape.accumulate \in Nat
  BY ShapeFacts
<1>3. SlotAt(w, s, 0, b, j - w)
  BY <1>1, <1>2 DEF SlotAt
<1> HIDE DEF w
<1>4. j - w \in Slots /\ StepOf(j - w) = s + 1 /\ MicroOf(j - w) = b + 1 /\ (Backward(j - w) <=> 0 = 1)
  BY <1>3, SlotOfParts DEF w
<1> QED BY <1>1, <1>4 DEF w

\* Two slots that use the same buffer.
SameUse(i, j) == (Backward(i) <=> Backward(j)) /\ MicroOf(i) = MicroOf(j)

\* Between two uses of a buffer lies a slot of the other direction.
LEMMA UsesApart ==
  ASSUME shape \in Shapes, NEW i \in Slots, NEW j \in Slots, SameUse(i, j), j < i
  PROVE  /\ shape.accumulate # 1
         /\ j + shape.micros <= i - shape.micros
         /\ i - shape.micros \in Slots /\ (Backward(i - shape.micros) <=> ~Backward(i))
<1> DEFINE w == shape.micros
           a == shape.accumulate
<1>1. PICK s \in 0 .. a - 1, t \in {0, 1}, b \in 0 .. w - 1 :
           /\ SlotAt(w, s, t, b, j)
           /\ MicroOf(j) = b + 1 /\ (Backward(j) <=> t = 1)
  BY SlotParts
<1>2. PICK s2 \in 0 .. a - 1, t2 \in {0, 1}, b2 \in 0 .. w - 1 :
           /\ SlotAt(w, s2, t2, b2, i)
           /\ MicroOf(i) = b2 + 1 /\ (Backward(i) <=> t2 = 1)
  BY SlotParts
<1>3. w \in Nat \ {0} /\ a \in Nat \ {0}
  BY ShapeFacts
<1> HIDE DEF w, a
<1>4. t2 = t /\ b2 = b
  BY <1>1, <1>2, <1>3 DEF SameUse
<1>5. s < s2
  <2>1. SUFFICES ASSUME s2 <= s PROVE FALSE
    OBVIOUS
  <2>2. (2 * s2 + t) * w <= (2 * s + t) * w
    BY <2>1, <1>3
  <2> QED BY <2>2, <1>1, <1>2, <1>3, <1>4 DEF SlotAt
<1>6. a # 1
  BY <1>5, <1>3
<1>7. j + w <= i - w
  <2>1. s2 \in Nat /\ s2 >= s + 1 /\ s \in Nat
    BY <1>5, <1>3
  <2>2. (2 * s2 + t) * w >= (2 * s + 2 + t) * w
    BY <2>1, <1>3
  <2>3. (2 * s + 2 + t) * w = (2 * s + t) * w + w + w
    BY <2>1, <1>3
  <2>4. (2 * s + t) * w \in Nat /\ (2 * s2 + t) * w \in Nat
    BY <2>1, <1>3
  <2> QED BY <2>2, <2>3, <2>4, <1>1, <1>2, <1>3, <1>4 DEF SlotAt
<1>8. i - w \in Slots /\ (Backward(i - w) <=> ~Backward(i))
  <2>1. CASE t = 1
    <3>1. SlotAt(w, s2, 0, b2, i - w)
      BY <1>2, <1>3, <1>4, <2>1 DEF SlotAt
    <3>2. i - w \in Slots /\ (Backward(i - w) <=> 0 = 1)
      BY <3>1, SlotOfParts DEF w, a
    <3> QED BY <3>2, <2>1, <1>2, <1>4
  <2>2. CASE t = 0
    <3>1. SlotAt(w, s2 - 1, 1, b2, i - w)
      BY <1>2, <1>3, <1>4, <2>2 DEF SlotAt
    <3>2. s2 - 1 \in 0 .. a - 1
      BY <1>5, <1>3
    <3>3. i - w \in Slots /\ (Backward(i - w) <=> 1 = 1)
      BY <3>1, <3>2, SlotOfParts DEF w, a
    <3> QED BY <3>3, <2>2, <1>2, <1>4
  <2> QED BY <2>1, <2>2
<1> QED BY <1>6, <1>7, <1>8 DEF w, a

\* Every step and micro-batch has a backward slot.
LEMMA BackwardSlotOf ==
  ASSUME shape \in Shapes, NEW k \in Steps, NEW i \in Micros
  PROVE  \E j \in Slots : Backward(j) /\ StepOf(j) = k /\ MicroOf(j) = i
<1> DEFINE j == (2 * (k - 1) + 1) * shape.micros + (i - 1) + 1
<1>1. k - 1 \in 0 .. shape.accumulate - 1 /\ i - 1 \in 0 .. shape.micros - 1
  BY ShapeFacts DEF Steps, Micros
<1>0. SlotAt(shape.micros, k - 1, 1, i - 1, j)
  BY DEF SlotAt
<1> HIDE DEF j
<1>2. j \in Slots /\ StepOf(j) = k - 1 + 1 /\ MicroOf(j) = i - 1 + 1 /\ (Backward(j) <=> 1 = 1)
  BY <1>0, <1>1, SlotOfParts
<1>3. k - 1 + 1 = k /\ i - 1 + 1 = i
  BY ShapeFacts DEF Steps, Micros
<1> QED BY <1>2, <1>3

\* Min of a set that is not empty is its least element.
LEMMA LeastIsThere ==
  ASSUME NEW T, T \subseteq Nat, T # {}
  PROVE  Min(T) \in T /\ Min(T) \in Nat /\ \A y \in T : Min(T) <= y
<1>1. \E x \in T : \A y \in T : x <= y
  BY LeastOfSet
<1>2. Min(T) \in T /\ \A y \in T : Min(T) <= y
  BY <1>1 DEF Min
<1> QED BY <1>2

\* What a stream has to do lies before End.
LEMMA WorkIsSlots ==
  ASSUME shape \in Shapes, NEW r, NEW s \in Streams
  PROVE  /\ WorkOf(r, s) \subseteq Nat \ {0}
         /\ \A j \in WorkOf(r, s) : j < End
         /\ s \in {"recv", "send"} => WorkOf(r, s) \subseteq Slots
         /\ End \in Nat /\ End # 0 /\ End \notin WorkOf(r, s)
<1>1. PICK n \in Nat : Slots = 1 .. n /\ Update = n + 1 /\ End = n + 3
  BY ShapeFacts
<1>2. WorkOf(r, s) \subseteq Slots \cup {Update, Update + 1}
  BY DEF WorkOf, Streams, Reductions
<1>3. s \in {"recv", "send"} => WorkOf(r, s) \subseteq Slots
  BY DEF WorkOf
<1> QED BY <1>1, <1>2, <1>3

\* The next slot of a stream leaves exactly the earlier ones behind.
LEMMA NextSlotIs ==
  ASSUME shape \in Shapes, NEW r, NEW s \in Streams, NEW j \in Nat, j < End
  PROVE  /\ NextSlot(r, s, j) \in WorkOf(r, s) \cup {End}
         /\ NextSlot(r, s, j) \in Nat /\ NextSlot(r, s, j) > j
         /\ \A i \in WorkOf(r, s) : NextSlot(r, s, j) > i <=> i <= j
<1> DEFINE T == {i \in WorkOf(r, s) : i > j} \cup {End}
<1>1. T \subseteq Nat /\ T # {} /\ \A i \in T : i > j
  BY WorkIsSlots
<1>2. T \subseteq WorkOf(r, s) \cup {End} /\ \A i \in WorkOf(r, s) : i > j => i \in T
  OBVIOUS
<1> HIDE DEF T
<1>3. Min(T) \in T /\ Min(T) \in Nat /\ \A y \in T : Min(T) <= y
  BY <1>1, LeastIsThere
<1>4. NextSlot(r, s, j) = Min(T)
  BY DEF NextSlot, T
<1> QED BY <1>1, <1>2, <1>3, <1>4, WorkIsSlots

------------------------------------------------------------------------------
(* The order of the streams.                                                *)

\* The rank whose sends v receives, backward or forward.
Feeder(v, b) == <<v[1], IF b THEN v[2] + 1 ELSE v[2] - 1>>

\* Streams stand at slots of their work.
NextOk(n) ==
  /\ n \in [PipeRanks -> [Streams -> Nat]]
  /\ \A w \in PipeRanks, s \in Streams : n[w][s] \in WorkOf(w[2], s) \cup {End}

\* The order the events enforce: computed after received, sent after computed,
\* received after sent.
ComputedReceived(n) ==
  \A w \in PipeRanks : \A j \in WorkOf(w[2], "recv") : n[w]["comp"] > j => n[w]["recv"] > j
SentComputed(n) ==
  \A w \in PipeRanks : \A j \in WorkOf(w[2], "send") : n[w]["send"] > j => n[w]["comp"] > j
ReceivedSent(n) ==
  \A w \in PipeRanks : \A j \in WorkOf(w[2], "recv") : n[w]["recv"] > j => n[Feeder(w, Backward(j))]["send"] > j
OrderOk(n) == NextOk(n) /\ ComputedReceived(n) /\ SentComputed(n) /\ ReceivedSent(n)

\* From n to m every stream has done nothing more or the slot that was next.
Moves(n, m) ==
  \A w \in PipeRanks, s \in Streams :
    \/ m[w][s] = n[w][s]
    \/ \A i \in WorkOf(w[2], s) : m[w][s] > i <=> i <= n[w][s]
\* And only what the streams wait for allowed it.
InTime(n, m) ==
  \A w \in PipeRanks :
    /\ m[w]["comp"] # n[w]["comp"] /\ n[w]["comp"] \in WorkOf(w[2], "recv") => n[w]["recv"] > n[w]["comp"]
    /\ m[w]["send"] # n[w]["send"] => n[w]["comp"] > n[w]["send"]
    /\ m[w]["recv"] # n[w]["recv"] => m[Feeder(w, Backward(n[w]["recv"]))]["send"] > n[w]["recv"]

\* A rank is a replica and a stage.
LEMMA RankParts ==
  ASSUME shape \in Shapes, NEW w \in PipeRanks
  PROVE  /\ w = <<w[1], w[2]>> /\ w[1] \in 0 .. shape.replicas - 1
         /\ w[2] \in 0 .. LastStage /\ w[2] \in Nat /\ LastStage \in Nat
BY ShapeFacts DEF PipeRanks, LastStage

\* What a rank receives its neighbour sends, and the other way round in the other direction.
LEMMA Neighbours ==
  ASSUME shape \in Shapes, NEW v \in PipeRanks, NEW j \in WorkOf(v[2], "recv"), NEW u, u = Feeder(v, Backward(j))
  PROVE  /\ j \in Slots /\ u \in PipeRanks /\ j \in WorkOf(u[2], "send") /\ Peer(u, j) = v
         /\ \A b \in Slots : (Backward(b) <=> ~Backward(j)) => b \in WorkOf(u[2], "recv") /\ Feeder(u, Backward(b)) = v
<1>1. /\ v = <<v[1], v[2]>> /\ v[1] \in 0 .. shape.replicas - 1
      /\ v[2] \in 0 .. LastStage /\ v[2] \in Nat /\ LastStage \in Nat
  BY RankParts
<1>2. j \in Slots /\ (IF Backward(j) THEN v[2] < LastStage ELSE v[2] > 0)
  BY DEF WorkOf
<1>3. CASE Backward(j)
  <2>1. u = <<v[1], v[2] + 1>> /\ v[2] + 1 \in 0 .. LastStage
    BY <1>1, <1>2, <1>3 DEF Feeder
  <2>2. u \in PipeRanks /\ u[1] = v[1] /\ u[2] = v[2] + 1
    BY <1>1, <2>1 DEF PipeRanks
  <2>3. j \in WorkOf(u[2], "send")
    BY <2>2, <1>1, <1>2, <1>3 DEF WorkOf
  <2>4. Peer(u, j) = v
    BY <2>2, <1>1, <1>3 DEF Peer
  <2>5. ASSUME NEW b \in Slots, ~Backward(b) PROVE b \in WorkOf(u[2], "recv") /\ Feeder(u, Backward(b)) = v
    BY <2>2, <2>5, <1>1 DEF WorkOf, Feeder
  <2> QED BY <1>2, <1>3, <2>2, <2>3, <2>4, <2>5
<1>4. CASE ~Backward(j)
  <2>1. u = <<v[1], v[2] - 1>> /\ v[2] - 1 \in 0 .. LastStage
    BY <1>1, <1>2, <1>4 DEF Feeder
  <2>2. u \in PipeRanks /\ u[1] = v[1] /\ u[2] = v[2] - 1
    BY <1>1, <2>1 DEF PipeRanks
  <2>3. j \in WorkOf(u[2], "send")
    BY <2>2, <1>1, <1>2, <1>4 DEF WorkOf
  <2>4. Peer(u, j) = v
    BY <2>2, <1>1, <1>4 DEF Peer
  <2>5. ASSUME NEW b \in Slots, Backward(b) PROVE b \in WorkOf(u[2], "recv") /\ Feeder(u, Backward(b)) = v
    BY <2>2, <2>5, <1>1 DEF WorkOf, Feeder
  <2> QED BY <1>2, <1>4, <2>2, <2>3, <2>4, <2>5
<1> QED BY <1>3, <1>4

\* What a rank sends its neighbour receives.
LEMMA Peers ==
  ASSUME shape \in Shapes, NEW w \in PipeRanks, NEW j \in WorkOf(w[2], "send"), NEW v, v = Peer(w, j)
  PROVE  /\ j \in Slots /\ v \in PipeRanks /\ j \in WorkOf(v[2], "recv") /\ Feeder(v, Backward(j)) = w
<1>1. /\ w = <<w[1], w[2]>> /\ w[1] \in 0 .. shape.replicas - 1
      /\ w[2] \in 0 .. LastStage /\ w[2] \in Nat /\ LastStage \in Nat
  BY RankParts
<1>2. j \in Slots /\ (IF Backward(j) THEN w[2] > 0 ELSE w[2] < LastStage)
  BY DEF WorkOf
<1>3. CASE Backward(j)
  <2>1. v = <<w[1], w[2] - 1>> /\ w[2] - 1 \in 0 .. LastStage
    BY <1>1, <1>2, <1>3 DEF Peer
  <2>2. v \in PipeRanks /\ v[1] = w[1] /\ v[2] = w[2] - 1
    BY <1>1, <2>1 DEF PipeRanks
  <2>3. j \in WorkOf(v[2], "recv")
    BY <2>2, <1>1, <1>2, <1>3 DEF WorkOf
  <2>4. Feeder(v, Backward(j)) = w
    BY <2>2, <1>1, <1>3 DEF Feeder
  <2> QED BY <1>2, <2>2, <2>3, <2>4
<1>4. CASE ~Backward(j)
  <2>1. v = <<w[1], w[2] + 1>> /\ w[2] + 1 \in 0 .. LastStage
    BY <1>1, <1>2, <1>4 DEF Peer
  <2>2. v \in PipeRanks /\ v[1] = w[1] /\ v[2] = w[2] + 1
    BY <1>1, <2>1 DEF PipeRanks
  <2>3. j \in WorkOf(v[2], "recv")
    BY <2>2, <1>1, <1>2, <1>4 DEF WorkOf
  <2>4. Feeder(v, Backward(j)) = w
    BY <2>2, <1>1, <1>4 DEF Feeder
  <2> QED BY <1>2, <2>2, <2>3, <2>4
<1> QED BY <1>3, <1>4

\* A feeder's other sends of the kind are what the rank receives of the kind.
LEMMA SameKind ==
  ASSUME shape \in Shapes, NEW v \in PipeRanks, NEW j \in WorkOf(v[2], "recv"), NEW i \in Slots,
         Backward(i) <=> Backward(j)
  PROVE  i \in WorkOf(v[2], "recv")
BY DEF WorkOf

\* What a rank's neighbour sends it needs what the rank sent the other way before.
LEMMA ChainOfNeighbours ==
  ASSUME shape \in Shapes, NEW n, OrderOk(n), NEW v \in PipeRanks, NEW j \in WorkOf(v[2], "recv"),
         n[Feeder(v, Backward(j))]["send"] > j, NEW b \in Slots, b < j, Backward(b) <=> ~Backward(j)
  PROVE  n[v]["comp"] > b
<1> DEFINE u == Feeder(v, Backward(j))
<1>1. /\ j \in Slots /\ u \in PipeRanks /\ j \in WorkOf(u[2], "send")
      /\ b \in WorkOf(u[2], "recv") /\ Feeder(u, Backward(b)) = v
  BY Neighbours
<1>2. n[u]["send"] > j
  OBVIOUS
<1> HIDE DEF u
<1>3. n[u]["comp"] > j
  BY <1>1, <1>2 DEF OrderOk, SentComputed
<1>4. n[u]["comp"] \in Nat /\ b \in Nat /\ j \in Nat
  BY <1>1, SlotTypes DEF OrderOk, NextOk, Streams
<1>5. n[u]["comp"] > b
  BY <1>3, <1>4
<1>6. n[u]["recv"] > b
  BY <1>1, <1>5 DEF OrderOk, ComputedReceived
<1>7. n[v]["send"] > b
  BY <1>1, <1>6 DEF OrderOk, ReceivedSent
<1>8. b \in WorkOf(v[2], "send")
  BY <1>1, Neighbours
<1> QED BY <1>7, <1>8 DEF OrderOk, SentComputed

\* The computing stream does every slot and the update.
LEMMA SlotsComputed ==
  ASSUME NEW r
  PROVE  WorkOf(r, "comp") = Slots \cup {Update}
BY DEF WorkOf

\* A slot done stays done; one newly done was the next.
LEMMA MovesOn ==
  ASSUME shape \in Shapes, NEW n, NEW m, NextOk(n), NextOk(m), Moves(n, m),
         NEW w \in PipeRanks, NEW s \in Streams, NEW j \in WorkOf(w[2], s)
  PROVE  /\ (n[w][s] > j => m[w][s] > j)
         /\ m[w][s] > j => (n[w][s] > j \/ (n[w][s] = j /\ m[w][s] # n[w][s]))
<1>1. n[w][s] \in Nat /\ m[w][s] \in Nat /\ j \in Nat
  BY WorkIsSlots DEF NextOk
<1>2. m[w][s] = n[w][s] \/ (m[w][s] > j <=> j <= n[w][s])
  BY DEF Moves
<1>3. CASE m[w][s] = n[w][s]
  BY <1>3
<1>4. CASE m[w][s] > j <=> j <= n[w][s]
  BY <1>1, <1>4
<1> QED BY <1>2, <1>3, <1>4

\* Steps in time keep the order.
LEMMA OrderKept ==
  ASSUME shape \in Shapes, NEW n, NEW m, OrderOk(n), NextOk(m), Moves(n, m), InTime(n, m)
  PROVE  OrderOk(m)
<1>0. NextOk(n)
  BY DEF OrderOk
<1>1. ComputedReceived(m)
  <2> SUFFICES ASSUME NEW w \in PipeRanks, NEW j \in WorkOf(w[2], "recv"), m[w]["comp"] > j
               PROVE  m[w]["recv"] > j
    BY DEF ComputedReceived
  <2>1. j \in WorkOf(w[2], "comp") /\ "comp" \in Streams /\ "recv" \in Streams
    BY WorkIsSlots, SlotsComputed DEF Streams
  <2>2. n[w]["comp"] > j \/ (n[w]["comp"] = j /\ m[w]["comp"] # n[w]["comp"])
    BY <1>0, <2>1, MovesOn
  <2>3. n[w]["recv"] > j
    BY <2>2 DEF OrderOk, ComputedReceived, InTime
  <2> QED BY <1>0, <2>1, <2>3, MovesOn
<1>2. SentComputed(m)
  <2> SUFFICES ASSUME NEW w \in PipeRanks, NEW j \in WorkOf(w[2], "send"), m[w]["send"] > j
               PROVE  m[w]["comp"] > j
    BY DEF SentComputed
  <2>1. j \in WorkOf(w[2], "comp") /\ "comp" \in Streams /\ "send" \in Streams
    BY WorkIsSlots, SlotsComputed DEF Streams
  <2>2. n[w]["send"] > j \/ (n[w]["send"] = j /\ m[w]["send"] # n[w]["send"])
    BY <1>0, <2>1, MovesOn
  <2>3. n[w]["comp"] > j
    BY <2>2 DEF OrderOk, SentComputed, InTime
  <2> QED BY <1>0, <2>1, <2>3, MovesOn
<1>3. ReceivedSent(m)
  <2> SUFFICES ASSUME NEW w \in PipeRanks, NEW j \in WorkOf(w[2], "recv"), m[w]["recv"] > j
               PROVE  m[Feeder(w, Backward(j))]["send"] > j
    BY DEF ReceivedSent
  <2>1. "recv" \in Streams /\ "send" \in Streams
    BY DEF Streams
  <2>2. n[w]["recv"] > j \/ (n[w]["recv"] = j /\ m[w]["recv"] # n[w]["recv"])
    BY <1>0, <2>1, MovesOn
  <2>3. CASE n[w]["recv"] > j
    <3> DEFINE u == Feeder(w, Backward(j))
    <3>1. n[u]["send"] > j
      BY <2>3 DEF OrderOk, ReceivedSent
    <3>2. u \in PipeRanks /\ j \in WorkOf(u[2], "send")
      BY Neighbours
    <3> HIDE DEF u
    <3>3. m[u]["send"] > j
      BY <1>0, <2>1, <3>1, <3>2, MovesOn
    <3> QED BY <3>3 DEF u
  <2>4. CASE n[w]["recv"] = j /\ m[w]["recv"] # n[w]["recv"]
    BY <2>4 DEF InTime
  <2> QED BY <2>2, <2>3, <2>4
<1> QED BY <1>1, <1>2, <1>3 DEF OrderOk

\* What depends on the shape only stays.
LEMMA ShapeKept ==
  ASSUME shape' = shape
  PROVE  /\ PipeRanks' = PipeRanks /\ Micros' = Micros /\ Steps' = Steps /\ Slots' = Slots
         /\ Update' = Update /\ End' = End /\ Chunks' = Chunks /\ Gradients' = Gradients
         /\ \A j : StepOf(j)' = StepOf(j)
         /\ \A j : MicroOf(j)' = MicroOf(j)
         /\ \A j : Backward(j)' <=> Backward(j)
         /\ \A r, s : WorkOf(r, s)' = WorkOf(r, s)
<1>1. /\ PipeRanks' = PipeRanks /\ Micros' = Micros /\ Steps' = Steps /\ Slots' = Slots
      /\ Update' = Update /\ End' = End /\ Chunks' = Chunks /\ LastStage' = LastStage /\ Reductions' = Reductions
  BY DEF PipeRanks, LastStage, Micros, Steps, Slots, Update, End, Chunks, Reductions
<1>2. Gradients' = Gradients
  BY <1>1 DEF Gradients
<1>3. /\ \A j : StepOf(j)' = StepOf(j)
      /\ \A j : MicroOf(j)' = MicroOf(j)
      /\ \A j : Backward(j)' <=> Backward(j)
  BY DEF StepOf, MicroOf, Backward
<1>4. \A r, s : WorkOf(r, s)' = WorkOf(r, s)
  BY <1>1, <1>3 DEF WorkOf
<1> QED BY <1>1, <1>2, <1>3, <1>4

\* Steps in time keep the order.
LEMMA OrderKeptShape ==
  ASSUME shape' = shape, OrderOk(next')
  PROVE  OrderOk(next)'
<1>1. NextOk(next)'
  BY ShapeKept DEF OrderOk, NextOk
<1>2. ComputedReceived(next)' /\ SentComputed(next)'
  BY ShapeKept DEF OrderOk, ComputedReceived, SentComputed
<1>3. ReceivedSent(next)'
  BY ShapeKept DEF OrderOk, ReceivedSent, Feeder
<1> QED BY <1>1, <1>2, <1>3 DEF OrderOk

------------------------------------------------------------------------------
(* What is on the wires.                                                    *)

\* Activations, by their step, and gradients.
Data == Nat \cup Gradients

\* What belongs into the buffer of slot j: the activation of its step, or a
\* gradient that contains the step's.
Carries(data, j) ==
  IF Backward(j)
  THEN /\ data \in Gradients /\ data[Garbage] = 0
       /\ IF shape.accumulate = 1 THEN data[StepOf(j)] = 1 ELSE data[StepOf(j)] >= 1
  ELSE data = StepOf(j)

\* Slots sent to v that v has not received yet, backward or forward.
InFlight(n, v, b) ==
  {j \in WorkOf(v[2], "recv") : (Backward(j) <=> b) /\ n[Feeder(v, b)]["send"] > j /\ ~(n[v]["recv"] > j)}

\* The line holds exactly what is in flight, in order.
Lines(q, line, flying) ==
  /\ q \in Seq(Slots) /\ Len(q) = Len(line)
  /\ \A k \in 1 .. Len(q) : q[k] \in flying /\ Carries(line[k], q[k])
  /\ \A k, l \in 1 .. Len(q) : k < l => q[k] < q[l]
  /\ \A j \in flying : \E k \in 1 .. Len(q) : q[k] = j
LineOk(line, flying) == line \in Seq(Data) /\ \E q : Lines(q, line, flying)

\* Every wire holds what is in flight; where sends meet receives, nothing is.
WireOk(n, wr) ==
  /\ wr \in [PipeRanks -> [BOOLEAN -> Seq(Data)]]
  /\ \A v \in PipeRanks, b \in BOOLEAN : LineOk(wr[v][b], InFlight(n, v, b)) /\ (~shape.buffered => wr[v][b] = <<>>)

\* Nothing is on a line iff nothing is in flight.
LEMMA EmptyLine ==
  ASSUME NEW line, NEW flying, LineOk(line, flying)
  PROVE  line = <<>> <=> flying = {}
<1>1. PICK q : Lines(q, line, flying)
  BY DEF LineOk
<1>2. q \in Seq(Slots) /\ line \in Seq(Data) /\ Len(q) = Len(line) /\ Len(q) \in Nat
  BY <1>1 DEF Lines, LineOk
<1>3. line = <<>> <=> Len(line) = 0
  BY <1>2
<1>4. flying = {} <=> Len(q) = 0
  <2>1. Len(q) # 0 => 1 \in 1 .. Len(q)
    BY <1>2
  <2> QED BY <1>1, <1>2, <2>1 DEF Lines
<1> QED BY <1>2, <1>3, <1>4

\* An empty line is right at first.
LEMMA NothingFlies ==
  LineOk(<<>>, {})
<1>1. Lines(<<>>, <<>>, {})
  BY DEF Lines
<1> QED BY <1>1 DEF LineOk

\* Sending a later slot lengthens the line at its end.
LEMMA LineGrows ==
  ASSUME shape \in Shapes, NEW line, NEW flying, LineOk(line, flying), NEW j \in Slots, \A i \in flying : i < j,
         NEW data \in Data, Carries(data, j)
  PROVE  LineOk(Append(line, data), flying \cup {j})
<1>1. PICK q : Lines(q, line, flying)
  BY DEF LineOk
<1>2. q \in Seq(Slots) /\ line \in Seq(Data) /\ Len(q) = Len(line) /\ Len(q) \in Nat
  BY <1>1 DEF Lines, LineOk
<1> DEFINE p == Append(q, j)
           more == Append(line, data)
<1>3. /\ p \in Seq(Slots) /\ more \in Seq(Data) /\ Len(p) = Len(q) + 1 /\ Len(more) = Len(p)
      /\ \A k \in 1 .. Len(q) : p[k] = q[k] /\ more[k] = line[k]
      /\ p[Len(q) + 1] = j /\ more[Len(q) + 1] = data
  BY <1>2
<1> HIDE DEF p, more
<1>4. \A k \in 1 .. Len(p) : k \in 1 .. Len(q) \/ k = Len(q) + 1
  BY <1>2, <1>3
<1>5. \A k \in 1 .. Len(p) : p[k] \in flying \cup {j} /\ Carries(more[k], p[k])
  BY <1>1, <1>3, <1>4 DEF Lines
<1>6. ASSUME NEW k \in 1 .. Len(p), NEW l \in 1 .. Len(p), k < l PROVE p[k] < p[l]
  <2>1. k \in 1 .. Len(q)
    BY <1>2, <1>3, <1>6
  <2>2. CASE l \in 1 .. Len(q)
    BY <1>1, <1>3, <1>6, <2>1, <2>2 DEF Lines
  <2>3. CASE l = Len(q) + 1
    <3>1. q[k] \in flying
      BY <1>1, <2>1 DEF Lines
    <3> QED BY <1>3, <2>1, <2>3, <3>1
  <2> QED BY <1>4, <2>2, <2>3
<1>7. ASSUME NEW i \in flying \cup {j} PROVE \E k \in 1 .. Len(p) : p[k] = i
  <2>1. CASE i \in flying
    <3>1. PICK k \in 1 .. Len(q) : q[k] = i
      BY <1>1, <2>1 DEF Lines
    <3>2. k \in 1 .. Len(p)
      BY <1>2, <1>3
    <3> QED BY <1>3, <3>1, <3>2
  <2>2. CASE i = j
    <3>1. Len(q) + 1 \in 1 .. Len(p)
      BY <1>2, <1>3
    <3> QED BY <1>3, <2>2, <3>1
  <2> QED BY <2>1, <2>2
<1>8. Lines(p, more, flying \cup {j})
  BY <1>3, <1>5, <1>6, <1>7 DEF Lines
<1> QED BY <1>3, <1>8 DEF LineOk, more

\* The head of a line is the first slot in flight.
LEMMA LineShrinks ==
  ASSUME shape \in Shapes, NEW line, NEW flying, LineOk(line, flying), line # <<>>
  PROVE  \E h \in flying : /\ Carries(Head(line), h) /\ Head(line) \in Data /\ \A i \in flying : h <= i
                           /\ LineOk(Tail(line), flying \ {h})
<1>1. PICK q : Lines(q, line, flying)
  BY DEF LineOk
<1>2. q \in Seq(Slots) /\ line \in Seq(Data) /\ Len(q) = Len(line) /\ Len(q) \in Nat
  BY <1>1 DEF Lines, LineOk
<1>3. Len(q) >= 1
  BY <1>2
<1> DEFINE p == Tail(q)
           less == Tail(line)
           h == q[1]
<1>4. /\ p \in Seq(Slots) /\ less \in Seq(Data) /\ Len(p) = Len(q) - 1 /\ Len(less) = Len(p)
      /\ \A k \in 1 .. Len(p) : p[k] = q[k + 1] /\ less[k] = line[k + 1]
      /\ Head(line) = line[1] /\ line[1] \in Data
  <2>1. p \in Seq(Slots) /\ Len(p) = Len(q) - 1 /\ \A k \in 1 .. Len(p) : p[k] = q[k + 1]
    BY <1>2, <1>3
  <2>2. less \in Seq(Data) /\ Len(less) = Len(line) - 1 /\ \A k \in 1 .. Len(less) : less[k] = line[k + 1]
    BY <1>2, <1>3
  <2>3. Head(line) = line[1] /\ line[1] \in Data
    BY <1>2, <1>3
  <2> HIDE DEF p, less
  <2> QED BY <2>1, <2>2, <2>3, <1>2
<1>5. 1 \in 1 .. Len(q)
  BY <1>2, <1>3
<1>6. h \in flying /\ Carries(Head(line), h) /\ h \in Slots
  BY <1>1, <1>2, <1>4, <1>5 DEF Lines
<1> HIDE DEF p, less
<1>7. \A k \in 1 .. Len(p) : k + 1 \in 1 .. Len(q) /\ 1 < k + 1
  BY <1>2, <1>4
<1>8. \A k \in 1 .. Len(q) : k = 1 \/ (k - 1 \in 1 .. Len(p) /\ k = (k - 1) + 1)
  BY <1>2, <1>4
<1>9. \A k \in 1 .. Len(p) : h < p[k] /\ p[k] \in flying /\ Carries(less[k], p[k])
  <2> TAKE k \in 1 .. Len(p)
  <2>1. k + 1 \in 1 .. Len(q) /\ 1 < k + 1
    BY <1>7
  <2> QED BY <1>1, <1>4, <1>5, <2>1 DEF Lines
<1>10. \A k \in 1 .. Len(p) : p[k] \in flying \ {h}
  <2> TAKE k \in 1 .. Len(p)
  <2>1. p[k] \in Slots /\ h < p[k]
    BY <1>4, <1>9
  <2>2. p[k] # h
    BY <2>1, <1>6, SlotTypes
  <2> QED BY <2>2, <1>9
<1>11. ASSUME NEW k \in 1 .. Len(p), NEW l \in 1 .. Len(p), k < l PROVE p[k] < p[l]
  <2>1. k + 1 \in 1 .. Len(q) /\ l + 1 \in 1 .. Len(q) /\ k + 1 < l + 1
    BY <1>7, <1>11, <1>4, <1>2
  <2>2. q[k + 1] < q[l + 1]
    BY <1>1, <2>1 DEF Lines
  <2> QED BY <2>2, <1>4
<1>12. ASSUME NEW i \in flying, i # h PROVE \E k \in 1 .. Len(p) : p[k] = i
  <2>1. PICK k \in 1 .. Len(q) : q[k] = i
    BY <1>1 DEF Lines
  <2>2. k # 1
    BY <2>1, <1>12
  <2>3. k - 1 \in 1 .. Len(p) /\ k = (k - 1) + 1
    BY <1>8, <2>2
  <2>4. p[k - 1] = q[(k - 1) + 1]
    BY <1>4, <2>3
  <2> QED BY <2>1, <2>3, <2>4
<1>13. Lines(p, less, flying \ {h})
  BY <1>4, <1>9, <1>10, <1>11, <1>12 DEF Lines
<1>14. LineOk(less, flying \ {h})
  BY <1>13, <1>4 DEF LineOk
<1>15. \A i \in flying : h <= i
  <2> TAKE i \in flying
  <2>1. CASE i = h
    BY <2>1, <1>6, SlotTypes
  <2>2. CASE i # h
    <3>1. PICK k \in 1 .. Len(p) : p[k] = i
      BY <1>12, <2>2
    <3>2. h < i /\ i \in Slots
      BY <3>1, <1>9, <1>4
    <3> QED BY <3>2, <1>6, SlotTypes
  <2> QED BY <2>1, <2>2
<1> HIDE DEF h
<1> QED BY <1>4, <1>6, <1>14, <1>15 DEF less

------------------------------------------------------------------------------
(* What is in the buffers.                                                  *)

\* The last computation that uses what was received for a slot.
Until(j) == IF Backward(j) THEN j ELSE j + shape.micros
Buffer(held, back, w, j) == IF Backward(j) THEN back[w][MicroOf(j)] ELSE held[w][MicroOf(j)]

\* Until then the buffer keeps it.
BufferOk(n, held, back) ==
  /\ held \in [PipeRanks -> [Micros -> Nat]] /\ back \in [PipeRanks -> [Micros -> Gradients]]
  /\ \A w \in PipeRanks : \A j \in WorkOf(w[2], "recv") :
       n[w]["recv"] > j /\ ~(n[w]["comp"] > Until(j)) => Carries(Buffer(held, back, w, j), j)
\* Forward slots were computed from their own activation.
OutputOk(n, out) ==
  /\ out \in [PipeRanks -> [Slots -> Nat]]
  /\ \A w \in PipeRanks, j \in Slots : ~Backward(j) /\ n[w]["comp"] > j => out[w][j] = StepOf(j)

\* What Fill does to the buffers.
Filled(held, back, held2, back2, v, i, data) ==
  IF Backward(i)
  THEN back2 = [back EXCEPT ![v][MicroOf(i)] = data] /\ held2 = held
  ELSE held2 = [held EXCEPT ![v][MicroOf(i)] = data] /\ back2 = back

\* Streams only go forward.
LEMMA MovesUp ==
  ASSUME shape \in Shapes, NEW n, NEW m, NextOk(n), NextOk(m), Moves(n, m),
         NEW w \in PipeRanks, NEW s \in Streams
  PROVE  m[w][s] \in Nat /\ n[w][s] \in Nat /\ m[w][s] >= n[w][s]
<1>1. /\ n[w][s] \in Nat /\ m[w][s] \in Nat
      /\ n[w][s] \in WorkOf(w[2], s) \cup {End} /\ m[w][s] \in WorkOf(w[2], s) \cup {End}
  BY DEF NextOk
<1>2. m[w][s] = n[w][s] \/ \A i \in WorkOf(w[2], s) : m[w][s] > i <=> i <= n[w][s]
  BY DEF Moves
<1>3. \A i \in WorkOf(w[2], s) : i \in Nat /\ i < End
  BY WorkIsSlots
<1>4. End \in Nat
  BY WorkIsSlots
<1>5. ASSUME \A i \in WorkOf(w[2], s) : m[w][s] > i <=> i <= n[w][s] PROVE m[w][s] >= n[w][s]
  <2>1. CASE n[w][s] \in WorkOf(w[2], s)
    BY <1>1, <1>5, <2>1
  <2>2. CASE n[w][s] = End
    <3>1. \A i \in WorkOf(w[2], s) : m[w][s] > i
      BY <1>1, <1>3, <1>4, <1>5, <2>2
    <3>2. m[w][s] \notin WorkOf(w[2], s)
      BY <3>1, <1>1
    <3> QED BY <3>2, <1>1, <2>2
  <2> QED BY <1>1, <2>1, <2>2
<1> QED BY <1>1, <1>2, <1>5

\* Buffers nobody fills keep what they hold.
LEMMA BuffersKept ==
  ASSUME shape \in Shapes, NEW n, NEW m, NextOk(n), NextOk(m), Moves(n, m),
         \A w \in PipeRanks : m[w]["recv"] = n[w]["recv"],
         NEW held, NEW back, BufferOk(n, held, back)
  PROVE  BufferOk(m, held, back)
<1>1. ASSUME NEW w \in PipeRanks, NEW j \in WorkOf(w[2], "recv"), m[w]["recv"] > j, ~(m[w]["comp"] > Until(j))
      PROVE  Carries(Buffer(held, back, w, j), j)
  <2>1. "comp" \in Streams
    BY DEF Streams
  <2>2. m[w]["comp"] \in Nat /\ n[w]["comp"] \in Nat /\ m[w]["comp"] >= n[w]["comp"]
    BY <2>1, MovesUp
  <2>3. Until(j) \in Nat
    BY WorkIsSlots, ShapeFacts DEF Until, Streams
  <2>4. ~(n[w]["comp"] > Until(j))
    BY <1>1, <2>2, <2>3
  <2> QED BY <1>1, <2>4 DEF BufferOk
<1> QED BY <1>1 DEF BufferOk

\* A buffer is filled only after its last use: what comes from the neighbour was
\* computed there from what this rank had sent after that use.
LEMMA BuffersFilled ==
  ASSUME shape \in Shapes, NEW n, NEW m, OrderOk(n), OrderOk(m), Moves(n, m),
         NEW v \in PipeRanks, NEW i \in WorkOf(v[2], "recv"), n[v]["recv"] = i, m[v]["recv"] # i,
         \A w \in PipeRanks : m[w]["comp"] = n[w]["comp"] /\ (w # v => m[w]["recv"] = n[w]["recv"]),
         NEW held, NEW back, NEW held2, NEW back2, NEW data,
         BufferOk(n, held, back), Carries(data, i), Filled(held, back, held2, back2, v, i, data)
  PROVE  BufferOk(m, held2, back2)
<1>0. NextOk(n) /\ NextOk(m) /\ "recv" \in Streams /\ "comp" \in Streams
  BY DEF OrderOk, Streams
<1>1. i \in Slots /\ MicroOf(i) \in Micros /\ StepOf(i) \in Nat /\ i \in Nat
  BY WorkIsSlots, SlotTypes, <1>0 DEF Steps
<1>2. /\ held \in [PipeRanks -> [Micros -> Nat]] /\ back \in [PipeRanks -> [Micros -> Gradients]]
  BY DEF BufferOk
<1>3. /\ held2 \in [PipeRanks -> [Micros -> Nat]] /\ back2 \in [PipeRanks -> [Micros -> Gradients]]
  <2>1. CASE Backward(i)
    <3>1. data \in Gradients
      BY <2>1 DEF Carries
    <3>2. back2 = [back EXCEPT ![v][MicroOf(i)] = data] /\ held2 = held
      BY <2>1 DEF Filled
    <3>3. back2 \in [PipeRanks -> [Micros -> Gradients]]
      BY <3>1, <3>2, <1>1, <1>2
    <3> QED BY <3>2, <3>3, <1>2
  <2>2. CASE ~Backward(i)
    <3>1. data \in Nat
      BY <2>2, <1>1 DEF Carries
    <3>2. held2 = [held EXCEPT ![v][MicroOf(i)] = data] /\ back2 = back
      BY <2>2 DEF Filled
    <3>3. held2 \in [PipeRanks -> [Micros -> Nat]]
      BY <3>1, <3>2, <1>1, <1>2
    <3> QED BY <3>2, <3>3, <1>2
  <2> QED BY <2>1, <2>2
<1>4. m[v]["recv"] > i /\ m[v]["recv"] \in Nat
  <2>1. m[v]["recv"] \in Nat /\ n[v]["recv"] \in Nat /\ m[v]["recv"] >= n[v]["recv"]
    BY <1>0, MovesUp
  <2> QED BY <2>1
<1>5. m[Feeder(v, Backward(i))]["send"] > i
  BY <1>4 DEF OrderOk, ReceivedSent
<1>6. Buffer(held2, back2, v, i) = data
  <2>1. CASE Backward(i)
    BY <2>1, <1>1, <1>2 DEF Filled, Buffer
  <2>2. CASE ~Backward(i)
    BY <2>2, <1>1, <1>2 DEF Filled, Buffer
  <2> QED BY <2>1, <2>2
<1>7. ASSUME NEW w \in PipeRanks, NEW j \in WorkOf(w[2], "recv"), m[w]["recv"] > j, ~(m[w]["comp"] > Until(j))
      PROVE  Carries(Buffer(held2, back2, w, j), j)
  <2>1. j \in Slots /\ MicroOf(j) \in Micros /\ j \in Nat
    BY WorkIsSlots, SlotTypes, <1>0
  <2>2. CASE w = v /\ SameUse(i, j)
    <3>1. j = i \/ j < i
      <4>1. n[v]["recv"] > j \/ (n[v]["recv"] = j /\ m[v]["recv"] # n[v]["recv"])
        BY <2>2, <1>0, <1>7, MovesOn
      <4> QED BY <4>1, <2>1, <1>1
    <3>2. CASE j = i
      BY <3>2, <2>2, <1>6
    <3>3. CASE j < i
      <4>1. /\ j + shape.micros <= i - shape.micros
            /\ i - shape.micros \in Slots /\ (Backward(i - shape.micros) <=> ~Backward(i))
        BY <3>3, <2>1, <2>2, <1>1, UsesApart
      <4>2. shape.micros \in Nat \ {0}
        BY ShapeFacts
      <4>3. i - shape.micros < i
        BY <4>2, <1>1
      <4>4. m[v]["comp"] > i - shape.micros
        BY <4>1, <4>3, <1>5, ChainOfNeighbours
      <4>5. Until(j) <= i - shape.micros
        BY <4>1, <4>2, <2>1, <1>1 DEF Until
      <4>6. m[v]["comp"] \in Nat /\ Until(j) \in Nat
        BY <1>0, <4>2, <2>1 DEF NextOk, Until
      <4> QED BY <4>1, <4>2, <4>4, <4>5, <4>6, <1>1, <1>7, <2>2
    <3> QED BY <3>1, <3>2, <3>3
  <2>3. CASE ~(w = v /\ SameUse(i, j))
    <3>1. Buffer(held2, back2, w, j) = Buffer(held, back, w, j)
      <4>1. CASE w # v
        <5>1. held2[w] = held[w] /\ back2[w] = back[w]
          BY <4>1, <1>1, <1>2 DEF Filled
        <5> QED BY <5>1 DEF Buffer
      <4>2. CASE w = v /\ ~SameUse(i, j)
        <5>1. CASE Backward(i)
          BY <5>1, <4>2, <1>1, <1>2, <2>1 DEF Filled, Buffer, SameUse
        <5>2. CASE ~Backward(i)
          BY <5>2, <4>2, <1>1, <1>2, <2>1 DEF Filled, Buffer, SameUse
        <5> QED BY <5>1, <5>2
      <4> QED BY <4>1, <4>2, <2>3
    <3>2. n[w]["recv"] > j
      <4>1. n[w]["recv"] > j \/ (n[w]["recv"] = j /\ m[w]["recv"] # n[w]["recv"])
        BY <1>0, <1>7, MovesOn
      <4>2. ~(n[w]["recv"] = j /\ m[w]["recv"] # n[w]["recv"])
        <5>1. CASE w # v
          BY <5>1
        <5>2. CASE w = v
          <6>1. j # i
            BY <5>2, <2>3 DEF SameUse
          <6> QED BY <6>1, <5>2
        <5> QED BY <5>1, <5>2
      <4> QED BY <4>1, <4>2
    <3>3. ~(n[w]["comp"] > Until(j))
      BY <1>7
    <3> QED BY <3>1, <3>2, <3>3 DEF BufferOk
  <2> QED BY <2>2, <2>3
<1> QED BY <1>3, <1>7 DEF BufferOk

\* So a computation finds the activation of its step,
LEMMA HeldIsRight ==
  ASSUME shape \in Shapes, OrderOk(next), BufferOk(next, input, outgrad),
         NEW w \in PipeRanks, NEW j \in Slots, next[w]["comp"] = j,
         j \in WorkOf(w[2], "recv") => next[w]["recv"] > j
  PROVE  Held(w, j) = StepOf(j)
<1>1. CASE w[2] = 0
  BY <1>1 DEF Held
<1>2. CASE w[2] # 0
  <2> DEFINE b == IF Backward(j) THEN j - shape.micros ELSE j
  <2>0. shape.micros \in Nat \ {0} /\ j \in Nat /\ w[2] > 0 /\ w[2] \in Nat
    BY <1>2, RankParts, ShapeFacts, SlotTypes
  <2>1. b \in Slots /\ ~Backward(b) /\ StepOf(b) = StepOf(j) /\ MicroOf(b) = MicroOf(j)
    BY ForwardBefore
  <2>2. b \in WorkOf(w[2], "recv")
    <3> HIDE DEF b
    <3> QED BY <2>0, <2>1 DEF WorkOf
  <2>3. next[w]["recv"] > b
    <3>1. CASE Backward(j)
      <4>1. next[w]["comp"] > b
        BY <2>0, <3>1
      <4> HIDE DEF b
      <4> QED BY <4>1, <2>2 DEF OrderOk, ComputedReceived
    <3>2. CASE ~Backward(j)
      BY <2>2, <3>2
    <3> QED BY <3>1, <3>2
  <2>4. ~(next[w]["comp"] > Until(b))
    <3>1. Until(b) = b + shape.micros
      BY <2>1 DEF Until
    <3> QED BY <3>1, <2>0
  <2> HIDE DEF b
  <2>5. Carries(Buffer(input, outgrad, w, b), b)
    BY <2>2, <2>3, <2>4 DEF BufferOk
  <2> QED BY <2>5, <2>1, <1>2 DEF Carries, Buffer, Held
<1> QED BY <1>1, <1>2

\* and backward() adds the gradient of its step.
LEMMA ContributionIsRight ==
  ASSUME shape \in Shapes, OrderOk(next), BufferOk(next, input, outgrad), OutputOk(next, output),
         NEW w \in PipeRanks, NEW j \in Slots, Backward(j), next[w]["comp"] = j,
         j \in WorkOf(w[2], "recv") => next[w]["recv"] > j
  PROVE  Carries(Contribution(w, j), j)
<1> DEFINE g == IF w[2] = LastStage THEN [NoGradient EXCEPT ![StepOf(j)] = 1] ELSE outgrad[w][MicroOf(j)]
<1>1. Held(w, j) = StepOf(j)
  BY HeldIsRight
<1>2. shape.micros \in Nat \ {0} /\ j \in Nat /\ StepOf(j) \in Steps /\ StepOf(j) \in Nat \ {0}
  BY ShapeFacts, SlotTypes DEF Steps
<1>3. output[w][j - shape.micros] = StepOf(j)
  <2>1. j - shape.micros \in Slots /\ ~Backward(j - shape.micros) /\ StepOf(j - shape.micros) = StepOf(j)
    BY ForwardBefore
  <2>2. next[w]["comp"] > j - shape.micros
    BY <1>2
  <2> QED BY <2>1, <2>2 DEF OutputOk
<1>4. Contribution(w, j) = g
  BY <1>1, <1>3 DEF Contribution
<1>5. CASE w[2] = LastStage
  <2>1. g = [NoGradient EXCEPT ![StepOf(j)] = 1]
    BY <1>5
  <2> HIDE DEF g
  <2>2. g \in Gradients /\ g[Garbage] = 0 /\ g[StepOf(j)] = 1
    BY <2>1, <1>2 DEF NoGradient, Gradients, Garbage
  <2> QED BY <2>2, <1>4 DEF Carries
<1>6. CASE w[2] # LastStage
  <2>1. w[2] < LastStage
    BY <1>6, RankParts
  <2>2. j \in WorkOf(w[2], "recv")
    BY <2>1 DEF WorkOf
  <2>3. Until(j) = j
    BY DEF Until
  <2>4. ~(next[w]["comp"] > Until(j))
    BY <2>3, <1>2
  <2>5. Carries(Buffer(input, outgrad, w, j), j)
    BY <2>2, <2>4 DEF BufferOk
  <2>6. Buffer(input, outgrad, w, j) = g
    BY <1>6 DEF Buffer
  <2> QED BY <2>5, <2>6, <1>4
<1> QED BY <1>5, <1>6

------------------------------------------------------------------------------
(* What the gradients contain.                                              *)

\* The gradient of a micro-batch has what the backward slots done so far computed.
Local(n, w, i, g) ==
  /\ g \in Gradients /\ g[Garbage] = 0
  /\ \A j \in Slots : Backward(j) /\ MicroOf(j) = i =>
       /\ (n[w]["comp"] > j => g[StepOf(j)] >= 1)
       /\ (shape.accumulate = 1 => g[StepOf(j)] = IF n[w]["comp"] > j THEN 1 ELSE 0)

\* It has the same of every accumulation step, from so many replicas.
Whole(g, number) ==
  /\ g \in Gradients /\ g[Garbage] = 0
  /\ \A k \in Steps : IF shape.accumulate = 1 THEN g[k] = number ELSE g[k] >= number

\* Ranks whose gradients of chunk c are sums over the replicas.
Reduced(n, w, c) ==
  /\ shape.replicas > 1 /\ n[w]["dp"] > Update
  /\ shape.mode = "allreduce" \/ n[w]["dp"] = End \/ w = ChunkOwner(c, w[2])

\* The replicas of a stage reduce together, when all they computed is there.
ReductionOk(n) ==
  \A w \in PipeRanks :
    /\ shape.replicas > 1 /\ n[w]["dp"] > Update => n[w]["comp"] >= Update
    /\ \A v \in PipeRanks : v[2] = w[2] => n[v]["dp"] = n[w]["dp"]

ByChunk == [PipeRanks -> [Chunks -> [Micros -> Gradients]]]
\* Gradients of a stage's inputs, of its parameters, and those the optimizer used.
OwnOk(n, own) ==
  /\ own \in [PipeRanks -> [Micros -> Gradients]]
  /\ \A w \in PipeRanks, i \in Micros : Local(n, w, i, own[w][i])
SharedOk(n, shared) ==
  /\ shared \in ByChunk
  /\ \A w \in PipeRanks, c \in Chunks, i \in Micros :
       /\ shape.replicas = 1 \/ n[w]["dp"] <= Update => Local(n, w, i, shared[w][c][i])
       /\ Reduced(n, w, c) => Whole(shared[w][c][i], shape.replicas)
AppliedOk(n, used) ==
  /\ used \in ByChunk
  /\ \A w \in PipeRanks, c \in Chunks, i \in Micros : n[w]["comp"] = End => Whole(used[w][c][i], shape.replicas)

\* A gradient stays what it is while its slots do.
LEMMA LocalKept ==
  ASSUME NEW n, NEW m, NEW w, NEW i, NEW g, Local(n, w, i, g),
         \A k \in Slots : Backward(k) /\ MicroOf(k) = i => (m[w]["comp"] > k <=> n[w]["comp"] > k)
  PROVE  Local(m, w, i, g)
BY DEF Local

\* A backward slot adds its own to it.
LEMMA LocalAdded ==
  ASSUME shape \in Shapes, NEW n, NEW m, NEW w, NEW g, NEW h, NEW j \in Slots, Backward(j),
         Local(n, w, MicroOf(j), g), Carries(h, j), n[w]["comp"] = j,
         \A k \in Slots : m[w]["comp"] > k <=> k <= j
  PROVE  Local(m, w, MicroOf(j), Plus(g, h))
<1>1. /\ g \in Gradients /\ h \in Gradients /\ g[Garbage] = 0 /\ h[Garbage] = 0
      /\ IF shape.accumulate = 1 THEN h[StepOf(j)] = 1 ELSE h[StepOf(j)] >= 1
  BY DEF Local, Carries
<1> DEFINE D == {Garbage} \cup Steps
           s == Plus(g, h)
<1>2. \A k \in D : g[k] \in Nat /\ h[k] \in Nat
  BY <1>1 DEF Gradients
<1>3. s = [k \in D |-> g[k] + h[k]]
  BY <1>1 DEF Plus, Gradients
<1>4. s \in Gradients /\ s[Garbage] = 0 /\ \A k \in Steps : s[k] = g[k] + h[k]
  <2>1. s \in [D -> Nat]
    BY <1>2, <1>3
  <2>2. Garbage \in D /\ \A k \in Steps : k \in D
    OBVIOUS
  <2> HIDE DEF s
  <2> QED BY <2>1, <2>2, <1>1, <1>2, <1>3 DEF Gradients
<1>5. ASSUME NEW k \in Slots, Backward(k), MicroOf(k) = MicroOf(j)
      PROVE  /\ (m[w]["comp"] > k => s[StepOf(k)] >= 1)
             /\ (shape.accumulate = 1 => s[StepOf(k)] = IF m[w]["comp"] > k THEN 1 ELSE 0)
  <2>1. StepOf(k) \in Steps /\ StepOf(j) \in Steps /\ k \in Nat /\ j \in Nat
    BY SlotTypes
  <2>2. s[StepOf(k)] = g[StepOf(k)] + h[StepOf(k)] /\ g[StepOf(k)] \in Nat /\ h[StepOf(k)] \in Nat
    BY <2>1, <1>2, <1>4
  <2>3. /\ (n[w]["comp"] > k => g[StepOf(k)] >= 1)
        /\ (shape.accumulate = 1 => g[StepOf(k)] = IF n[w]["comp"] > k THEN 1 ELSE 0)
    BY <1>5 DEF Local
  <2>4. CASE k = j
    <3>1. m[w]["comp"] > k /\ ~(n[w]["comp"] > k)
      BY <2>1, <2>4
    <3>2. s[StepOf(k)] >= 1
      BY <1>1, <2>2, <2>4
    <3>3. shape.accumulate = 1 => s[StepOf(k)] = 1
      BY <1>1, <2>2, <2>3, <2>4, <3>1
    <3> QED BY <3>1, <3>2, <3>3
  <2>5. CASE k # j
    <3>1. SameUse(k, j) /\ SameUse(j, k)
      BY <1>5 DEF SameUse
    <3>2. k < j \/ j < k
      BY <2>1, <2>5
    <3>3. shape.accumulate # 1
      BY <3>1, <3>2, UsesApart
    <3>4. m[w]["comp"] > k => n[w]["comp"] > k
      BY <2>1, <2>5
    <3> QED BY <2>2, <2>3, <3>3, <3>4
  <2> QED BY <2>4, <2>5
<1> HIDE DEF s
<1> QED BY <1>4, <1>5 DEF Local, s

\* After all slots it has every step once.
LEMMA LocalIsWhole ==
  ASSUME shape \in Shapes, NEW n, NEW w, NEW i \in Micros, NEW g, Local(n, w, i, g),
         n[w]["comp"] \in Nat, n[w]["comp"] >= Update
  PROVE  Whole(g, 1)
<1>1. ASSUME NEW k \in Steps PROVE IF shape.accumulate = 1 THEN g[k] = 1 ELSE g[k] >= 1
  <2>1. PICK j \in Slots : Backward(j) /\ StepOf(j) = k /\ MicroOf(j) = i
    BY BackwardSlotOf
  <2>2. n[w]["comp"] > j
    BY ShapeFacts
  <2> QED BY <2>1, <2>2 DEF Local
<1> QED BY <1>1 DEF Local, Whole

\* A stage has a rank for every replica.
LEMMA GroupCounted ==
  ASSUME shape \in Shapes, NEW r \in 0 .. LastStage
  PROVE  IsFiniteSet(Group(r)) /\ Cardinality(Group(r)) = shape.replicas
<1> DEFINE D == 0 .. shape.replicas - 1
           f == [d \in D |-> <<d, r>>]
<1>1. shape.replicas \in Nat \ {0}
  BY ShapeFacts
<1>2. IsFiniteSet(D) /\ Cardinality(D) = shape.replicas
  <2> DEFINE b == shape.replicas - 1
  <2>1. b \in Int /\ 0 \in Int
    BY <1>1
  <2> HIDE DEF b
  <2>2. IsFiniteSet(0 .. b) /\ Cardinality(0 .. b) = IF 0 > b THEN 0 ELSE b - 0 + 1
    BY <2>1, FS_Interval
  <2> QED BY <2>2, <1>1 DEF b
<1>3. \A d \in D : f[d] \in Group(r)
  BY DEF Group, PipeRanks
<1>4. \A w \in Group(r) : w[1] \in D /\ f[w[1]] = w
  <2> TAKE w \in Group(r)
  <2>1. w \in PipeRanks /\ w[2] = r
    BY DEF Group
  <2>2. w = <<w[1], w[2]>> /\ w[1] \in 0 .. shape.replicas - 1
    BY <2>1, RankParts
  <2> QED BY <2>1, <2>2
<1>5. \A d, e \in D : f[d] = f[e] => d = e
  <2> TAKE d, e \in D
  <2>1. f[d][1] = d /\ f[e][1] = e
    OBVIOUS
  <2> QED BY <2>1
<1>6. f \in Bijection(D, Group(r))
  <2>1. f \in [D -> Group(r)]
    BY <1>3
  <2>2. \A w \in Group(r) : \E d \in D : f[d] = w
    BY <1>4
  <2> HIDE DEF f
  <2> QED BY <2>1, <2>2, <1>5 DEF Bijection, Injection, Surjection, IsInjective
<1>7. ExistsBijection(D, Group(r))
  BY <1>6 DEF ExistsBijection
<1> HIDE DEF D
<1> QED BY <1>2, <1>7, FS_Bijection

\* The sum over them has every step once from each.
LEMMA SumIsWhole ==
  ASSUME shape \in Shapes, NEW r \in 0 .. LastStage, NEW g, \A w \in Group(r) : Whole(g[w], 1)
  PROVE  Whole(SumOver(Group(r), g), shape.replicas)
<1> DEFINE D == {Garbage} \cup Steps
           v(k) == [x \in Group(r) |-> g[x][k]]
           t == SumOver(Group(r), g)
           S == Group(r)
<1>1. IsFiniteSet(S) /\ Cardinality(S) = shape.replicas /\ shape.replicas \in Nat
  BY GroupCounted, ShapeFacts
<1>2. t = [k \in D |-> SumFunctionOnSet(v(k), S)]
  BY DEF SumOver
<1>3. \A k \in D : \A x \in S : v(k)[x] = g[x][k] /\ g[x][k] \in Nat
  BY DEF Whole, Gradients
<1> HIDE DEF v, t, S
<1>4. \A k \in D : Alike(v(k), S, S, t[k])
  <2> TAKE k \in D
  <2>1. t[k] = SumFunctionOnSet(v(k), S)
    BY <1>2
  <2>2. \A x \in S : v(k)[x] \in Nat
    BY <1>3
  <2> QED BY <1>1, <2>1, <2>2, SumFits
<1>5. t \in Gradients
  <2>1. \A k \in D : t[k] \in Nat
    BY <1>4 DEF Alike
  <2> HIDE DEF D
  <2>2. t \in [D -> Nat]
    BY <1>2, <2>1
  <2> QED BY <2>2 DEF Gradients, D
<1>6. t[Garbage] = 0
  <2>1. Garbage \in D
    OBVIOUS
  <2>2. \A x \in S : v(Garbage)[x] = 0
    BY <1>3, <2>1 DEF Whole, S
  <2> QED BY <1>4, <2>1, <2>2 DEF Alike
<1>7. ASSUME NEW k \in Steps PROVE IF shape.accumulate = 1 THEN t[k] = shape.replicas ELSE t[k] >= shape.replicas
  <2>1. k \in D
    OBVIOUS
  <2>2. Alike(v(k), S, S, t[k])
    BY <1>4, <2>1
  <2>3. \A x \in S : IF shape.accumulate = 1 THEN v(k)[x] = 1 ELSE v(k)[x] >= 1
    BY <1>3, <2>1 DEF Whole, S
  <2> QED BY <1>1, <2>2, <2>3 DEF Alike
<1> QED BY <1>5, <1>6, <1>7 DEF Whole, t

------------------------------------------------------------------------------
(* The invariant, and sends.                                                *)

\* All of it, of a state given by its parts.
InvAt(n, wr, held, back, out, own, shared, used) ==
  /\ OrderOk(n) /\ WireOk(n, wr) /\ BufferOk(n, held, back) /\ OutputOk(n, out)
  /\ OwnOk(n, own) /\ ReductionOk(n) /\ SharedOk(n, shared) /\ AppliedOk(n, used)

\* From n to m stream s of rank w has done its next slot, and nothing else.
OneGoes(n, m, w, s) ==
  /\ NextOk(m)
  /\ m[w][s] # n[w][s] /\ \A i \in WorkOf(w[2], s) : m[w][s] > i <=> i <= n[w][s]
  /\ \A v \in PipeRanks, t \in Streams : v # w \/ t # s => m[v][t] = n[v][t]

\* Advance moves one stream past one slot.
LEMMA Advancing ==
  ASSUME shape \in Shapes, NEW n, NextOk(n), NEW w \in PipeRanks, NEW s \in Streams, NEW j \in WorkOf(w[2], s),
         n[w][s] = j, NEW m, m = [n EXCEPT ![w][s] = NextSlot(w[2], s, j)]
  PROVE  OneGoes(n, m, w, s) /\ Moves(n, m)
<1> DEFINE x == NextSlot(w[2], s, j)
<1>1. j \in Nat /\ j < End
  BY WorkIsSlots
<1>2. /\ x \in WorkOf(w[2], s) \cup {End} /\ x \in Nat /\ x > j
      /\ \A i \in WorkOf(w[2], s) : x > i <=> i <= j
  BY <1>1, NextSlotIs
<1>3. n \in [PipeRanks -> [Streams -> Nat]]
  BY DEF NextOk
<1>4. m = [n EXCEPT ![w][s] = x]
  OBVIOUS
<1> HIDE DEF x
<1>5. m \in [PipeRanks -> [Streams -> Nat]] /\ m[w][s] = x
  BY <1>2, <1>3, <1>4
<1>6. \A v \in PipeRanks, t \in Streams : v # w \/ t # s => m[v][t] = n[v][t]
  BY <1>3, <1>4
<1>7. ASSUME NEW v \in PipeRanks, NEW t \in Streams PROVE m[v][t] \in WorkOf(v[2], t) \cup {End}
  <2>1. CASE v = w /\ t = s
    BY <1>2, <1>5, <2>1
  <2>2. CASE ~(v = w /\ t = s)
    BY <1>6, <2>2 DEF NextOk
  <2> QED BY <2>1, <2>2
<1>8. NextOk(m)
  BY <1>5, <1>7 DEF NextOk
<1>9. OneGoes(n, m, w, s)
  BY <1>1, <1>2, <1>5, <1>6, <1>8 DEF OneGoes
<1>10. Moves(n, m)
  <2> SUFFICES ASSUME NEW v \in PipeRanks, NEW t \in Streams
               PROVE  m[v][t] = n[v][t] \/ \A i \in WorkOf(v[2], t) : m[v][t] > i <=> i <= n[v][t]
    BY DEF Moves
  <2>1. CASE v = w /\ t = s
    BY <1>2, <1>5, <2>1
  <2>2. CASE ~(v = w /\ t = s)
    BY <1>6, <2>2
  <2> QED BY <2>1, <2>2
<1> QED BY <1>9, <1>10

\* What only the computing and reducing streams say.
LEMMA ComputedKept ==
  ASSUME NEW n, NEW m, \A w \in PipeRanks : m[w]["comp"] = n[w]["comp"] /\ m[w]["dp"] = n[w]["dp"],
         NEW out, NEW own, NEW shared, NEW used,
         OutputOk(n, out), OwnOk(n, own), ReductionOk(n), SharedOk(n, shared), AppliedOk(n, used)
  PROVE  OutputOk(m, out) /\ OwnOk(m, own) /\ ReductionOk(m) /\ SharedOk(m, shared) /\ AppliedOk(m, used)
<1>1. \A w \in PipeRanks : \A i, g : Local(n, w, i, g) => Local(m, w, i, g)
  BY DEF Local
<1>2. \A w \in PipeRanks : \A c : Reduced(m, w, c) => Reduced(n, w, c)
  BY DEF Reduced
<1>3. OutputOk(m, out)
  BY DEF OutputOk
<1>4. OwnOk(m, own)
  BY <1>1 DEF OwnOk
<1>5. ReductionOk(m)
  BY DEF ReductionOk
<1>6. SharedOk(m, shared)
  BY <1>1, <1>2 DEF SharedOk
<1>7. AppliedOk(m, used)
  BY DEF AppliedOk
<1> QED BY <1>3, <1>4, <1>5, <1>6, <1>7

\* Nothing has been sent or received between n and m.
NothingPasses(n, m) == \A w \in PipeRanks : m[w]["send"] = n[w]["send"] /\ m[w]["recv"] = n[w]["recv"]

\* The wires stay right.
LEMMA WireKept ==
  ASSUME shape \in Shapes, NEW n, NEW m, NothingPasses(n, m),
         NEW wr, WireOk(n, wr)
  PROVE  WireOk(m, wr)
<1>1. ASSUME NEW v \in PipeRanks, NEW b \in BOOLEAN PROVE InFlight(m, v, b) = InFlight(n, v, b)
  <2>1. ASSUME NEW j \in WorkOf(v[2], "recv"), Backward(j) <=> b
        PROVE  m[Feeder(v, b)]["send"] = n[Feeder(v, b)]["send"]
    <3>1. Feeder(v, Backward(j)) \in PipeRanks
      BY Neighbours
    <3>2. Feeder(v, b) = Feeder(v, Backward(j))
      BY <2>1 DEF Feeder
    <3> QED BY <3>1, <3>2 DEF NothingPasses
  <2>2. m[v]["recv"] = n[v]["recv"]
    BY DEF NothingPasses
  <2> QED BY <2>1, <2>2 DEF InFlight
<1> QED BY <1>1 DEF WireOk

\* What a rank sends after computing it belongs to the slot.
LEMMA PayloadCarries ==
  ASSUME shape \in Shapes, NEW w \in PipeRanks, NEW j \in Slots, next[w]["comp"] > j,
         OutputOk(next, output), OwnOk(next, ingrad)
  PROVE  Payload(w, j) \in Data /\ Carries(Payload(w, j), j)
<1>1. MicroOf(j) \in Micros /\ StepOf(j) \in Nat /\ StepOf(j) \in Steps
  BY SlotTypes DEF Steps
<1>2. CASE Backward(j)
  <2>1. Local(next, w, MicroOf(j), ingrad[w][MicroOf(j)])
    BY <1>1 DEF OwnOk
  <2>2. Payload(w, j) = ingrad[w][MicroOf(j)]
    BY <1>2 DEF Payload
  <2> QED BY <1>2, <2>1, <2>2 DEF Local, Carries, Data
<1>3. CASE ~Backward(j)
  <2>1. Payload(w, j) = StepOf(j)
    BY <1>3 DEF Payload, OutputOk
  <2> QED BY <1>1, <1>3, <2>1 DEF Carries, Data
<1> QED BY <1>2, <1>3

\* Only the receiver of what was sent has one more in flight.
LEMMA SentFlies ==
  ASSUME shape \in Shapes, NEW n, NEW m, NextOk(n), NEW w \in PipeRanks, NEW j \in WorkOf(w[2], "send"), n[w]["send"] = j,
         OneGoes(n, m, w, "send"), ReceivedSent(n), NEW v \in PipeRanks, NEW b \in BOOLEAN
  PROVE  InFlight(m, v, b) = InFlight(n, v, b) \cup (IF v = Peer(w, j) /\ (Backward(j) <=> b) THEN {j} ELSE {})
<1>0. "send" \in Streams /\ "recv" \in Streams
  BY DEF Streams
<1>1. /\ j \in Slots /\ Peer(w, j) \in PipeRanks /\ j \in WorkOf(Peer(w, j)[2], "recv")
      /\ Feeder(Peer(w, j), Backward(j)) = w
  BY Peers
<1>2. \A u \in PipeRanks : m[u]["recv"] = n[u]["recv"] /\ (u # w => m[u]["send"] = n[u]["send"])
  BY <1>0 DEF OneGoes
<1>3. ASSUME NEW i \in WorkOf(v[2], "recv"), Backward(i) <=> b
      PROVE  i \in InFlight(m, v, b) <=>
               i \in InFlight(n, v, b) \/ (i = j /\ v = Peer(w, j))
  <2> DEFINE u == Feeder(v, b)
  <2>1. u = Feeder(v, Backward(i))
    BY <1>3 DEF Feeder
  <2>2. i \in Slots /\ u \in PipeRanks /\ i \in WorkOf(u[2], "send") /\ Peer(u, i) = v
    BY <2>1, Neighbours
  <2>3. CASE u = w
    <3>1. m[w]["send"] > i <=> i <= j
      BY <2>2, <2>3 DEF OneGoes
    <3>2. i \in Nat /\ j \in Nat
      BY <1>1, <2>2, SlotTypes
    <3>3. i = j => v = Peer(w, j)
      BY <2>2, <2>3
    <3>4. v = Peer(w, j) /\ i = j => ~(n[v]["recv"] > i)
      <4>1. SUFFICES ASSUME v = Peer(w, j), i = j, n[v]["recv"] > i PROVE FALSE
        OBVIOUS
      <4>2. n[Feeder(v, Backward(i))]["send"] > i
        BY <4>1 DEF ReceivedSent
      <4> QED BY <4>1, <4>2, <2>1, <2>3, <3>2
    <3> QED BY <3>1, <3>2, <3>3, <3>4, <2>3, <1>2, <1>3 DEF InFlight
  <2>4. CASE u # w
    <3>1. m[u]["send"] = n[u]["send"]
      BY <1>2, <2>2, <2>4
    <3>2. ~(i = j /\ v = Peer(w, j))
      BY <2>1, <2>4, <1>1
    <3> QED BY <3>1, <3>2, <1>2 DEF InFlight
  <2> QED BY <2>3, <2>4
<1>4. ASSUME NEW i \in InFlight(m, v, b) PROVE i \in WorkOf(v[2], "recv") /\ (Backward(i) <=> b)
  BY DEF InFlight
<1>5. ASSUME NEW i \in InFlight(n, v, b) PROVE i \in WorkOf(v[2], "recv") /\ (Backward(i) <=> b)
  BY DEF InFlight
<1>6. CASE v = Peer(w, j) /\ (Backward(j) <=> b)
  BY <1>1, <1>3, <1>4, <1>5, <1>6
<1>7. CASE ~(v = Peer(w, j) /\ (Backward(j) <=> b))
  BY <1>3, <1>4, <1>5, <1>7
<1> QED BY <1>6, <1>7

\* Send keeps the invariant: the slot joins the line of its receiver.
LEMMA SendStep ==
  ASSUME shape \in Shapes, InvAt(next, wire, input, outgrad, output, ingrad, grad, applied),
         NEW w \in PipeRanks, Send(w, next[w]["send"])
  PROVE  InvAt(next', wire', input, outgrad, output, ingrad, grad, applied)
<1> DEFINE j == next[w]["send"]
           v == Peer(w, j)
           b == Backward(j)
<1>0. NextOk(next) /\ "send" \in Streams /\ "recv" \in Streams /\ "comp" \in Streams /\ "dp" \in Streams
  BY DEF InvAt, OrderOk, Streams
<1>1. j \in WorkOf(w[2], "send") /\ j \in Slots
  <2>1. j \in Slots /\ j \in WorkOf(w[2], "send") \cup {End}
    BY <1>0 DEF NextOk, Send
  <2> QED BY <2>1, ShapeFacts
<1>2. OneGoes(next, next', w, "send") /\ Moves(next, next')
  <2>1. next' = [next EXCEPT ![w]["send"] = NextSlot(w[2], "send", j)]
    BY DEF Send, Advance
  <2> QED BY <1>0, <1>1, <2>1, Advancing
<1>3. next[w]["comp"] > j
  BY DEF Send, Ready, EventsReady, Through
<1>4. \A u \in PipeRanks : /\ next'[u]["recv"] = next[u]["recv"] /\ next'[u]["comp"] = next[u]["comp"]
                          /\ next'[u]["dp"] = next[u]["dp"] /\ (u # w => next'[u]["send"] = next[u]["send"])
  BY <1>0, <1>2 DEF OneGoes
<1>5. OrderOk(next')
  <2>1. InTime(next, next')
    BY <1>3, <1>4 DEF InTime
  <2>2. NextOk(next')
    BY <1>2 DEF OneGoes
  <2> QED BY <1>2, <2>1, <2>2, OrderKept DEF InvAt
<1>6. Payload(w, j) \in Data /\ Carries(Payload(w, j), j)
  BY <1>1, <1>3, PayloadCarries DEF InvAt
<1>7. /\ v \in PipeRanks /\ j \in WorkOf(v[2], "recv") /\ Feeder(v, b) = w /\ b \in BOOLEAN
  BY <1>1, Peers, SlotTypes
<1>8. WireOk(next', wire')
  <2>1. wire \in [PipeRanks -> [BOOLEAN -> Seq(Data)]]
    BY DEF InvAt, WireOk
  <2>2. wire' = [wire EXCEPT ![v][b] = Append(@, Payload(w, j))] /\ shape.buffered
    BY DEF Send
  <2> HIDE DEF j, v, b
  <2>3. ASSUME NEW u \in PipeRanks, NEW c \in BOOLEAN
        PROVE  LineOk(wire'[u][c], InFlight(next', u, c)) /\ wire'[u][c] \in Seq(Data)
    <3>1. LineOk(wire[u][c], InFlight(next, u, c))
      BY DEF InvAt, WireOk
    <3>2. InFlight(next', u, c) = InFlight(next, u, c) \cup (IF u = v /\ (b <=> c) THEN {j} ELSE {})
      BY <1>0, <1>1, <1>2, SentFlies DEF j, v, b, InvAt, OrderOk
    <3>3. CASE u = v /\ (b <=> c)
      <4>0. b = c
        BY <3>3, <1>7
      <4>1. wire'[u][c] = Append(wire[u][c], Payload(w, j))
        BY <4>0, <2>1, <2>2, <3>3
      <4>2. \A i \in InFlight(next, u, c) : i < j
        <5> TAKE i \in InFlight(next, u, c)
        <5>1. next[w]["send"] > i /\ i \in WorkOf(u[2], "recv")
          BY <4>0, <3>3, <1>7 DEF InFlight
        <5>2. i \in Nat /\ j \in Nat
          BY <5>1, <1>0, <1>1, WorkIsSlots
        <5> QED BY <5>1, <5>2 DEF j
      <4>3. LineOk(Append(wire[u][c], Payload(w, j)), InFlight(next, u, c) \cup {j})
        BY <3>1, <4>2, <1>1, <1>6, LineGrows
      <4> QED BY <3>2, <3>3, <4>1, <4>3 DEF LineOk
    <3>4. CASE ~(u = v /\ (b <=> c))
      <4>1. wire'[u][c] = wire[u][c]
        <5>1. u # v \/ b # c
          BY <3>4
        <5> QED BY <5>1, <2>1, <2>2
      <4>2. InFlight(next', u, c) = InFlight(next, u, c)
        BY <3>2, <3>4
      <4> QED BY <3>1, <4>1, <4>2 DEF LineOk
    <3> QED BY <3>3, <3>4
  <2>4. wire' \in [PipeRanks -> [BOOLEAN -> Seq(Data)]]
    <3>1. DOMAIN wire' = PipeRanks /\ \A u \in PipeRanks : DOMAIN wire'[u] = BOOLEAN /\ wire'[u] = [c \in BOOLEAN |-> wire'[u][c]]
      BY <2>1, <2>2
    <3>2. wire' = [u \in PipeRanks |-> wire'[u]]
      BY <2>1, <2>2
    <3>3. \A u \in PipeRanks : wire'[u] \in [BOOLEAN -> Seq(Data)]
      BY <3>1, <2>3
    <3> QED BY <3>2, <3>3
  <2> QED BY <2>2, <2>3, <2>4 DEF WireOk
<1>9. BufferOk(next', input, outgrad)
  <2>1. NextOk(next')
    BY <1>2 DEF OneGoes
  <2> QED BY <1>0, <1>2, <1>4, <2>1, BuffersKept DEF InvAt
<1>10. OutputOk(next', output) /\ OwnOk(next', ingrad) /\ ReductionOk(next') /\ SharedOk(next', grad) /\ AppliedOk(next', applied)
  BY <1>4, ComputedKept DEF InvAt
<1> QED BY <1>5, <1>8, <1>9, <1>10 DEF InvAt

------------------------------------------------------------------------------
(* Receives and meetings.                                                   *)

\* Receive keeps the invariant: the head of the line is the slot that is next.
LEMMA ReceiveStep ==
  ASSUME shape \in Shapes, InvAt(next, wire, input, outgrad, output, ingrad, grad, applied),
         NEW v \in PipeRanks, Receive(v, next[v]["recv"])
  PROVE  InvAt(next', wire', input', outgrad', output, ingrad, grad, applied)
<1> DEFINE i == next[v]["recv"]
           b == Backward(i)
<1>0. NextOk(next) /\ "send" \in Streams /\ "recv" \in Streams /\ "comp" \in Streams /\ "dp" \in Streams
  BY DEF InvAt, OrderOk, Streams
<1>1. i \in WorkOf(v[2], "recv") /\ i \in Slots
  <2>1. i \in Slots /\ i \in WorkOf(v[2], "recv") \cup {End}
    BY <1>0 DEF NextOk, Receive
  <2> QED BY <2>1, ShapeFacts
<1>2. OneGoes(next, next', v, "recv") /\ Moves(next, next')
  <2>1. next' = [next EXCEPT ![v]["recv"] = NextSlot(v[2], "recv", i)]
    BY DEF Receive, Advance
  <2> QED BY <1>0, <1>1, <2>1, Advancing
<1>3. \A u \in PipeRanks : /\ next'[u]["send"] = next[u]["send"] /\ next'[u]["comp"] = next[u]["comp"]
                          /\ next'[u]["dp"] = next[u]["dp"] /\ (u # v => next'[u]["recv"] = next[u]["recv"])
  BY <1>0, <1>2 DEF OneGoes
<1>4. b \in BOOLEAN /\ i \in Nat
  BY <1>1, SlotTypes
<1> DEFINE line == wire[v][b]
           flying == InFlight(next, v, b)
<1>5. LineOk(line, flying) /\ line # <<>>
  BY <1>4 DEF InvAt, WireOk, Receive
<1>6. PICK h \in flying : /\ Carries(Head(line), h) /\ Head(line) \in Data /\ \A k \in flying : h <= k
                          /\ LineOk(Tail(line), flying \ {h})
  <2> HIDE DEF line, flying
  <2> QED BY <1>5, LineShrinks
<1>7. h \in WorkOf(v[2], "recv") /\ (Backward(h) <=> b) /\ next[Feeder(v, b)]["send"] > h /\ ~(next[v]["recv"] > h)
  BY DEF InFlight
<1>8. h \in Nat
  BY <1>7, <1>0, WorkIsSlots
<1>9. Feeder(v, b) \in PipeRanks /\ next[Feeder(v, b)]["send"] \in Nat
  <2>1. Feeder(v, b) \in PipeRanks
    BY <1>1, Neighbours
  <2> QED BY <2>1, <1>0 DEF NextOk
<1>10. i \in flying
  <2>1. next[Feeder(v, b)]["send"] > i
    BY <1>4, <1>7, <1>8, <1>9
  <2>2. ~(next[v]["recv"] > i)
    BY <1>4
  <2> QED BY <1>1, <2>1, <2>2 DEF InFlight
<1>11. h = i
  <2>1. h <= i
    BY <1>6, <1>10
  <2> QED BY <2>1, <1>4, <1>7, <1>8
<1>12. OrderOk(next')
  <2>1. next[Feeder(v, b)]["send"] > i
    BY <1>7, <1>11
  <2>2. InTime(next, next')
    BY <1>3, <1>9, <2>1 DEF InTime
  <2>3. NextOk(next')
    BY <1>2 DEF OneGoes
  <2> QED BY <1>2, <2>2, <2>3, OrderKept DEF InvAt
<1>13. WireOk(next', wire')
  <2>1. wire \in [PipeRanks -> [BOOLEAN -> Seq(Data)]]
    BY DEF InvAt, WireOk
  <2>2. wire' = [wire EXCEPT ![v][b] = Tail(@)] /\ shape.buffered
    BY DEF Receive
  <2>3. ASSUME NEW u \in PipeRanks, NEW c \in BOOLEAN
        PROVE  LineOk(wire'[u][c], InFlight(next', u, c)) /\ wire'[u][c] \in Seq(Data)
    <3>1. CASE u = v /\ (b <=> c)
      <4>1. b = c
        BY <3>1, <1>4
      <4>2. wire'[u][c] = Tail(line)
        <5> HIDE DEF b
        <5> QED BY <2>1, <2>2, <3>1, <4>1, <1>4
      <4>3. InFlight(next', v, b) = flying \ {i}
        <5>1. ASSUME NEW k \in WorkOf(v[2], "recv") PROVE next'[v]["recv"] > k <=> (next[v]["recv"] > k \/ k = i)
          <6>1. next'[v]["recv"] > k <=> k <= i
            BY <1>2 DEF OneGoes
          <6>2. k \in Nat
            BY <1>0, WorkIsSlots
          <6> QED BY <6>1, <6>2, <1>4
        <5>2. next'[Feeder(v, b)]["send"] = next[Feeder(v, b)]["send"]
          BY <1>3, <1>9
        <5> HIDE DEF i, b
        <5> QED BY <5>1, <5>2 DEF InFlight
      <4>4. LineOk(Tail(line), flying \ {i})
        BY <1>6, <1>11
      <4> HIDE DEF line, flying, i, b
      <4> QED BY <3>1, <4>1, <4>2, <4>3, <4>4 DEF LineOk
    <3>2. CASE ~(u = v /\ (b <=> c))
      <4>1. wire'[u][c] = wire[u][c]
        <5>1. u # v \/ b # c
          BY <3>2
        <5> HIDE DEF b
        <5> QED BY <5>1, <2>1, <2>2
      <4>2. InFlight(next', u, c) = InFlight(next, u, c)
        <5>1. ASSUME NEW k \in WorkOf(u[2], "recv"), Backward(k) <=> c
              PROVE  /\ next'[u]["recv"] > k <=> next[u]["recv"] > k
                     /\ next'[Feeder(u, c)]["send"] = next[Feeder(u, c)]["send"]
          <6>1. next'[Feeder(u, c)]["send"] = next[Feeder(u, c)]["send"]
            <7>1. Feeder(u, Backward(k)) \in PipeRanks
              BY Neighbours
            <7>2. Feeder(u, c) = Feeder(u, Backward(k))
              BY <5>1 DEF Feeder
            <7> QED BY <7>1, <7>2, <1>3
          <6>2. CASE u # v
            BY <6>1, <6>2, <1>3
          <6>3. CASE u = v
            <7>1. k # i
              BY <3>2, <5>1, <6>3
            <7>2. next'[v]["recv"] > k <=> k <= i
              BY <6>3, <1>2 DEF OneGoes
            <7>3. k \in Nat
              BY <1>0, WorkIsSlots
            <7> QED BY <6>1, <6>3, <7>1, <7>2, <7>3, <1>4
          <6> QED BY <6>2, <6>3
        <5> HIDE DEF i, b
        <5> QED BY <5>1 DEF InFlight
      <4>3. LineOk(wire[u][c], InFlight(next, u, c))
        BY DEF InvAt, WireOk
      <4> QED BY <4>1, <4>2, <4>3 DEF LineOk
    <3> QED BY <3>1, <3>2
  <2> HIDE DEF i, b
  <2>4. wire' \in [PipeRanks -> [BOOLEAN -> Seq(Data)]]
    <3>1. DOMAIN wire' = PipeRanks /\ \A u \in PipeRanks : DOMAIN wire'[u] = BOOLEAN /\ wire'[u] = [c \in BOOLEAN |-> wire'[u][c]]
      BY <2>1, <2>2
    <3>2. wire' = [u \in PipeRanks |-> wire'[u]]
      BY <2>1, <2>2
    <3>3. \A u \in PipeRanks : wire'[u] \in [BOOLEAN -> Seq(Data)]
      BY <3>1, <2>3
    <3> QED BY <3>2, <3>3
  <2> QED BY <2>2, <2>3, <2>4 DEF WireOk
<1>14. BufferOk(next', input', outgrad')
  <2>1. Filled(input, outgrad, input', outgrad', v, i, Head(line))
    BY DEF Receive, Fill, Filled
  <2>2. Carries(Head(line), i)
    BY <1>6, <1>11
  <2>3. next'[v]["recv"] # i
    BY <1>2 DEF OneGoes
  <2>4. OrderOk(next) /\ BufferOk(next, input, outgrad)
    BY DEF InvAt
  <2>5. \A u \in PipeRanks : next'[u]["comp"] = next[u]["comp"] /\ (u # v => next'[u]["recv"] = next[u]["recv"])
    BY <1>3
  <2>6. next[v]["recv"] = i
    OBVIOUS
  <2> HIDE DEF line, i, b
  <2> QED BY <1>1, <1>2, <1>12, <2>1, <2>2, <2>3, <2>4, <2>5, <2>6, BuffersFilled
<1>15. OutputOk(next', output) /\ OwnOk(next', ingrad) /\ ReductionOk(next') /\ SharedOk(next', grad) /\ AppliedOk(next', applied)
  BY <1>3, ComputedKept DEF InvAt
<1> QED BY <1>12, <1>13, <1>14, <1>15 DEF InvAt

\* A meeting keeps the invariant: both calls are of the same slot.
LEMMA MeetStep ==
  ASSUME shape \in Shapes, InvAt(next, wire, input, outgrad, output, ingrad, grad, applied),
         NEW w \in PipeRanks, NEW v \in PipeRanks, Meet(w, next[w]["send"], v, next[v]["recv"])
  PROVE  InvAt(next', wire, input', outgrad', output, ingrad, grad, applied)
<1> DEFINE j == next[w]["send"]
           i == next[v]["recv"]
           b == Backward(j)
           mid == [next EXCEPT ![w]["send"] = NextSlot(w[2], "send", j)]
<1>0. NextOk(next) /\ "send" \in Streams /\ "recv" \in Streams /\ "comp" \in Streams /\ "dp" \in Streams
  BY DEF InvAt, OrderOk, Streams
<1>1. /\ ~shape.buffered /\ i \in Slots /\ j \in Slots /\ v = Peer(w, j) /\ (Backward(i) <=> b)
      /\ next[w]["comp"] > j
      /\ next' = [next EXCEPT ![w]["send"] = NextSlot(w[2], "send", j), ![v]["recv"] = NextSlot(v[2], "recv", i)]
      /\ Filled(input, outgrad, input', outgrad', v, i, Payload(w, j))
  BY DEF Meet, Ready, EventsReady, Through, Fill, Filled
<1>2. j \in WorkOf(w[2], "send") /\ i \in WorkOf(v[2], "recv") /\ i \in Nat /\ j \in Nat
  <2>1. j \in WorkOf(w[2], "send") \cup {End} /\ i \in WorkOf(v[2], "recv") \cup {End}
    BY <1>0 DEF NextOk
  <2> QED BY <1>1, <2>1, ShapeFacts
<1>3. OneGoes(next, mid, w, "send") /\ Moves(next, mid)
  <2>1. mid = [next EXCEPT ![w]["send"] = NextSlot(w[2], "send", j)]
    OBVIOUS
  <2> HIDE DEF mid
  <2> QED BY <1>0, <1>2, <2>1, Advancing
<1>4. NextOk(mid) /\ mid[v]["recv"] = i
  BY <1>0, <1>3 DEF OneGoes
<1>5. next' = [mid EXCEPT ![v]["recv"] = NextSlot(v[2], "recv", i)]
  BY <1>1
<1> HIDE DEF mid
<1>6. OneGoes(mid, next', v, "recv") /\ Moves(mid, next')
  <2>1. mid[v]["recv"] = i /\ next' = [mid EXCEPT ![v]["recv"] = NextSlot(v[2], "recv", i)]
    BY <1>4, <1>5
  <2> HIDE DEF i
  <2> QED BY <1>0, <1>2, <1>4, <2>1, Advancing
<1>7. /\ NextOk(next')
      /\ next'[w]["send"] # j /\ next'[v]["recv"] # i
      /\ \A k \in WorkOf(w[2], "send") : next'[w]["send"] > k <=> k <= j
      /\ \A k \in WorkOf(v[2], "recv") : next'[v]["recv"] > k <=> k <= i
      /\ \A u \in PipeRanks : /\ next'[u]["comp"] = next[u]["comp"] /\ next'[u]["dp"] = next[u]["dp"]
                              /\ (u # w => next'[u]["send"] = next[u]["send"])
                              /\ (u # v => next'[u]["recv"] = next[u]["recv"])
  BY <1>0, <1>3, <1>4, <1>6 DEF OneGoes
<1>8. Moves(next, next')
  <2> SUFFICES ASSUME NEW u \in PipeRanks, NEW s \in Streams
               PROVE  next'[u][s] = next[u][s] \/ \A k \in WorkOf(u[2], s) : next'[u][s] > k <=> k <= next[u][s]
    BY DEF Moves
  <2>1. CASE s = "send"
    BY <1>7, <2>1
  <2>2. CASE s = "recv"
    BY <1>7, <2>2
  <2>3. CASE s = "comp" \/ s = "dp"
    BY <1>7, <2>3
  <2> QED BY <2>1, <2>2, <2>3 DEF Streams
<1>9. j \in WorkOf(v[2], "recv") /\ Feeder(v, b) = w /\ b \in BOOLEAN
  BY <1>1, <1>2, Peers, SlotTypes
<1>10. \A u \in PipeRanks, c \in BOOLEAN : wire[u][c] = <<>> /\ InFlight(next, u, c) = {}
  <2> TAKE u \in PipeRanks, c \in BOOLEAN
  <2>1. wire[u][c] = <<>> /\ LineOk(wire[u][c], InFlight(next, u, c))
    BY <1>1 DEF InvAt, WireOk
  <2> QED BY <2>1, EmptyLine
<1>11. i = j
  <2>1. ~(i < j)
    <3>1. SUFFICES ASSUME i < j PROVE FALSE
      OBVIOUS
    <3>2. next[Feeder(v, b)]["send"] > i /\ ~(next[v]["recv"] > i)
      BY <3>1, <1>2, <1>9
    <3>3. i \in InFlight(next, v, b)
      BY <1>1, <1>2, <3>2 DEF InFlight
    <3> QED BY <3>3, <1>9, <1>10
  <2>2. ~(j < i)
    <3>1. SUFFICES ASSUME j < i PROVE FALSE
      OBVIOUS
    <3>2. next[v]["recv"] > j
      BY <3>1, <1>2
    <3>3. next[Feeder(v, Backward(j))]["send"] > j
      BY <3>2, <1>9 DEF InvAt, OrderOk, ReceivedSent
    <3> QED BY <3>3, <1>2, <1>9
  <2> QED BY <2>1, <2>2, <1>2
<1>12. OrderOk(next')
  <2>1. next'[w]["send"] > j
    BY <1>2, <1>7
  <2>2. Feeder(v, Backward(i)) = w
    BY <1>9, <1>11
  <2>3. InTime(next, next')
    BY <1>1, <1>7, <1>11, <2>1, <2>2 DEF InTime
  <2> QED BY <1>7, <1>8, <2>3, OrderKept DEF InvAt
<1>13. WireOk(next', wire)
  <2>1. ASSUME NEW u \in PipeRanks, NEW c \in BOOLEAN, NEW k \in InFlight(next', u, c) PROVE FALSE
    <3>1. /\ k \in WorkOf(u[2], "recv") /\ (Backward(k) <=> c)
          /\ next'[Feeder(u, c)]["send"] > k /\ ~(next'[u]["recv"] > k)
      BY DEF InFlight
    <3>2. Feeder(u, c) = Feeder(u, Backward(k))
      BY <3>1 DEF Feeder
    <3>3. /\ k \in Slots /\ Feeder(u, c) \in PipeRanks /\ k \in WorkOf(Feeder(u, c)[2], "send")
          /\ Peer(Feeder(u, c), k) = u
      BY <3>1, <3>2, Neighbours
    <3>4. next[Feeder(u, c)]["send"] > k \/ next[Feeder(u, c)]["send"] = k
      BY <1>0, <1>7, <1>8, <3>1, <3>3, MovesOn
    <3>5. ~(next[u]["recv"] > k)
      BY <1>0, <1>7, <1>8, <3>1, MovesOn
    <3>6. ~(next[Feeder(u, c)]["send"] > k)
      <4>1. SUFFICES ASSUME next[Feeder(u, c)]["send"] > k PROVE FALSE
        OBVIOUS
      <4>2. k \in InFlight(next, u, c)
        BY <3>1, <3>5, <4>1 DEF InFlight
      <4> QED BY <4>2, <1>10
    <3>7. Feeder(u, c) = w
      <4>1. next'[Feeder(u, c)]["send"] # next[Feeder(u, c)]["send"]
        BY <3>1, <3>6
      <4> QED BY <4>1, <3>3, <1>7
    <3>8. k = j /\ u = v
      BY <3>3, <3>4, <3>6, <3>7, <1>1
    <3>9. next'[v]["recv"] > i
      BY <1>2, <1>7
    <3> QED BY <3>1, <3>8, <3>9, <1>11
  <2>2. \A u \in PipeRanks, c \in BOOLEAN : InFlight(next', u, c) = {}
    BY <2>1
  <2>3. wire \in [PipeRanks -> [BOOLEAN -> Seq(Data)]]
    BY DEF InvAt, WireOk
  <2> QED BY <1>10, <2>2, <2>3, NothingFlies DEF WireOk
<1>14. BufferOk(next', input', outgrad')
  <2>1. Carries(Payload(w, j), i)
    BY <1>1, <1>11, PayloadCarries DEF InvAt
  <2>2. OrderOk(next) /\ BufferOk(next, input, outgrad)
    BY DEF InvAt
  <2>3. \A u \in PipeRanks : next'[u]["comp"] = next[u]["comp"] /\ (u # v => next'[u]["recv"] = next[u]["recv"])
    BY <1>7
  <2>4. next[v]["recv"] = i /\ next'[v]["recv"] # i /\ Filled(input, outgrad, input', outgrad', v, i, Payload(w, j))
    BY <1>1, <1>7
  <2> HIDE DEF i, j, b
  <2> QED BY <1>2, <1>8, <1>12, <2>1, <2>2, <2>3, <2>4, BuffersFilled
<1>15. OutputOk(next', output) /\ OwnOk(next', ingrad) /\ ReductionOk(next') /\ SharedOk(next', grad) /\ AppliedOk(next', applied)
  BY <1>7, ComputedKept DEF InvAt
<1> QED BY <1>12, <1>13, <1>14, <1>15 DEF InvAt

------------------------------------------------------------------------------
(* Computation.                                                             *)

\* What the computing stream's step keeps, whatever it computes.
LEMMA ComputingGoes ==
  ASSUME shape \in Shapes, OrderOk(next), WireOk(next, wire), BufferOk(next, input, outgrad), ReductionOk(next),
         NEW w \in PipeRanks, NEW j \in Slots \cup {Update}, next[w]["comp"] = j,
         j \in WorkOf(w[2], "recv") => next[w]["recv"] > j,
         next' = [next EXCEPT ![w]["comp"] = NextSlot(w[2], "comp", j)]
  PROVE  /\ OneGoes(next, next', w, "comp")
         /\ \A k \in Slots \cup {Update} : next'[w]["comp"] > k <=> k <= j
         /\ \A u \in PipeRanks : next'[u]["dp"] = next[u]["dp"] /\ (u # w => next'[u]["comp"] = next[u]["comp"])
         /\ OrderOk(next') /\ WireOk(next', wire) /\ BufferOk(next', input, outgrad) /\ ReductionOk(next')
<1>0. NextOk(next) /\ "send" \in Streams /\ "recv" \in Streams /\ "comp" \in Streams /\ "dp" \in Streams
  BY DEF OrderOk, Streams
<1>1. WorkOf(w[2], "comp") = Slots \cup {Update}
  BY SlotsComputed
<1>2. OneGoes(next, next', w, "comp") /\ Moves(next, next')
  BY <1>0, <1>1, Advancing
<1>3. /\ NextOk(next') /\ \A k \in Slots \cup {Update} : next'[w]["comp"] > k <=> k <= j
  BY <1>1, <1>2 DEF OneGoes
<1>4. \A u \in PipeRanks : /\ next'[u]["send"] = next[u]["send"] /\ next'[u]["recv"] = next[u]["recv"]
                          /\ next'[u]["dp"] = next[u]["dp"] /\ (u # w => next'[u]["comp"] = next[u]["comp"])
  BY <1>0, <1>2 DEF OneGoes
<1>5. OrderOk(next')
  <2>1. InTime(next, next')
    BY <1>4 DEF InTime
  <2> QED BY <1>2, <1>3, <2>1, OrderKept
<1>6. WireOk(next', wire)
  <2>1. NothingPasses(next, next')
    BY <1>4 DEF NothingPasses
  <2>2. WireOk(next, wire)
    OBVIOUS
  <2> QED BY <2>1, <2>2, WireKept
<1>7. BufferOk(next', input, outgrad)
  <2>1. \A u \in PipeRanks : next'[u]["recv"] = next[u]["recv"]
    BY <1>4
  <2> QED BY <1>0, <1>2, <1>3, <2>1, BuffersKept
<1>8. ReductionOk(next')
  <2> SUFFICES ASSUME NEW u \in PipeRanks
               PROVE  /\ shape.replicas > 1 /\ next'[u]["dp"] > Update => next'[u]["comp"] >= Update
                      /\ \A v \in PipeRanks : v[2] = u[2] => next'[v]["dp"] = next'[u]["dp"]
    BY DEF ReductionOk
  <2>1. next'[u]["comp"] \in Nat /\ next[u]["comp"] \in Nat /\ next'[u]["comp"] >= next[u]["comp"]
    BY <1>0, <1>2, <1>3, MovesUp
  <2>2. Update \in Nat
    BY ShapeFacts
  <2>3. shape.replicas > 1 /\ next[u]["dp"] > Update => next[u]["comp"] >= Update
    BY DEF ReductionOk
  <2>4. \A v \in PipeRanks : v[2] = u[2] => next'[v]["dp"] = next'[u]["dp"]
    BY <1>4 DEF ReductionOk
  <2> QED BY <2>1, <2>2, <2>3, <2>4, <1>4
<1> QED BY <1>2, <1>3, <1>4, <1>5, <1>6, <1>7, <1>8

\* Gradients no slot has changed stay what they were.
LEMMA SharedKept ==
  ASSUME NEW n, NEW m, \A u \in PipeRanks : m[u]["dp"] = n[u]["dp"],
         NEW shared, SharedOk(n, shared),
         \A u \in PipeRanks, k \in Slots : Backward(k) => (m[u]["comp"] > k <=> n[u]["comp"] > k)
  PROVE  SharedOk(m, shared)
<1>1. \A u \in PipeRanks : \A i, g : Local(n, u, i, g) => Local(m, u, i, g)
  <2> TAKE u \in PipeRanks
  <2> TAKE i, g
  <2>1. \A k \in Slots : Backward(k) /\ MicroOf(k) = i => (m[u]["comp"] > k <=> n[u]["comp"] > k)
    OBVIOUS
  <2> QED BY <2>1, LocalKept
<1>2. \A u \in PipeRanks : \A c : Reduced(m, u, c) => Reduced(n, u, c)
  BY DEF Reduced
<1> QED BY <1>1, <1>2 DEF SharedOk

LEMMA OwnKept ==
  ASSUME NEW n, NEW m, NEW own, OwnOk(n, own),
         \A u \in PipeRanks, k \in Slots : Backward(k) => (m[u]["comp"] > k <=> n[u]["comp"] > k)
  PROVE  OwnOk(m, own)
<1>1. \A u \in PipeRanks : \A i, g : Local(n, u, i, g) => Local(m, u, i, g)
  <2> TAKE u \in PipeRanks
  <2> TAKE i, g
  <2>1. \A k \in Slots : Backward(k) /\ MicroOf(k) = i => (m[u]["comp"] > k <=> n[u]["comp"] > k)
    OBVIOUS
  <2> QED BY <2>1, LocalKept
<1> QED BY <1>1 DEF OwnOk

\* No rank has updated that had not.
LEMMA AppliedKept ==
  ASSUME NEW n, NEW m, NEW used, AppliedOk(n, used),
         \A u \in PipeRanks : m[u]["comp"] = End => n[u]["comp"] = End
  PROVE  AppliedOk(m, used)
BY DEF AppliedOk

\* ComputeForward keeps the invariant.
LEMMA ForwardStep ==
  ASSUME shape \in Shapes, InvAt(next, wire, input, outgrad, output, ingrad, grad, applied),
         NEW w \in PipeRanks, ComputeForward(w, next[w]["comp"])
  PROVE  InvAt(next', wire, input, outgrad, output', ingrad, grad, applied)
<1> DEFINE j == next[w]["comp"]
<1>1. /\ j \in Slots /\ ~Backward(j) /\ next[w]["recv"] > j
      /\ next' = [next EXCEPT ![w]["comp"] = NextSlot(w[2], "comp", j)]
      /\ output' = [output EXCEPT ![w][j] = Held(w, j)]
  BY DEF ComputeForward, Ready, EventsReady, Through, Advance
<1>2. next[w]["comp"] = j
  OBVIOUS
<1> HIDE DEF j
<1>3. /\ \A k \in Slots \cup {Update} : next'[w]["comp"] > k <=> k <= j
      /\ \A u \in PipeRanks : next'[u]["dp"] = next[u]["dp"] /\ (u # w => next'[u]["comp"] = next[u]["comp"])
      /\ OrderOk(next') /\ WireOk(next', wire) /\ BufferOk(next', input, outgrad) /\ ReductionOk(next')
  <2>1. OrderOk(next) /\ WireOk(next, wire) /\ BufferOk(next, input, outgrad) /\ ReductionOk(next)
    BY DEF InvAt
  <2> QED BY <1>1, <1>2, <2>1, ComputingGoes
<1>4. Held(w, j) = StepOf(j)
  BY <1>1, <1>2, HeldIsRight DEF InvAt
<1>5. j \in Nat /\ StepOf(j) \in Nat /\ \A k \in Slots : k \in Nat
  BY <1>1, SlotTypes DEF Steps
<1>6. \A u \in PipeRanks, k \in Slots : k # j => (next'[u]["comp"] > k <=> next[u]["comp"] > k)
  <2> TAKE u \in PipeRanks, k \in Slots
  <2>1. CASE u # w
    BY <1>3, <2>1
  <2>2. CASE u = w
    <3>1. next'[w]["comp"] > k <=> k <= j
      BY <1>3
    <3> QED BY <1>2, <1>5, <2>2, <3>1
  <2> QED BY <2>1, <2>2
<1>7. OutputOk(next', output')
  <2>1. output \in [PipeRanks -> [Slots -> Nat]]
    BY DEF InvAt, OutputOk
  <2>2. output' \in [PipeRanks -> [Slots -> Nat]]
    BY <1>1, <1>4, <1>5, <2>1
  <2>3. ASSUME NEW u \in PipeRanks, NEW k \in Slots, ~Backward(k), next'[u]["comp"] > k PROVE output'[u][k] = StepOf(k)
    <3>1. CASE u = w /\ k = j
      BY <1>1, <1>4, <2>1, <3>1
    <3>2. CASE ~(u = w /\ k = j)
      <4>1. output'[u][k] = output[u][k]
        BY <1>1, <2>1, <3>2
      <4>2. next[u]["comp"] > k
        BY <1>3, <1>6, <2>3, <3>2
      <4> QED BY <4>1, <4>2, <2>3 DEF InvAt, OutputOk
    <3> QED BY <3>1, <3>2
  <2> QED BY <2>2, <2>3 DEF OutputOk
<1>8. OwnOk(next', ingrad) /\ SharedOk(next', grad)
  <2>1. \A u \in PipeRanks, k \in Slots : Backward(k) => (next'[u]["comp"] > k <=> next[u]["comp"] > k)
    BY <1>1, <1>6
  <2>2. \A u \in PipeRanks : next'[u]["dp"] = next[u]["dp"]
    BY <1>3
  <2> QED BY <2>1, <2>2, OwnKept, SharedKept DEF InvAt
<1>9. AppliedOk(next', applied)
  <2>1. next'[w]["comp"] # End
    <3>1. ~(next'[w]["comp"] > Update)
      BY <1>1, <1>3, ShapeFacts
    <3> QED BY <3>1, ShapeFacts
  <2>2. \A u \in PipeRanks : next'[u]["comp"] = End => next[u]["comp"] = End
    BY <1>3, <2>1
  <2> QED BY <2>2, AppliedKept DEF InvAt
<1> QED BY <1>3, <1>7, <1>8, <1>9 DEF InvAt

\* ComputeBackward keeps the invariant.
LEMMA BackwardStep ==
  ASSUME shape \in Shapes, InvAt(next, wire, input, outgrad, output, ingrad, grad, applied),
         NEW w \in PipeRanks, ComputeBackward(w, next[w]["comp"])
  PROVE  InvAt(next', wire, input, outgrad, output, ingrad', grad', applied)
<1> DEFINE j == next[w]["comp"]
           more == Contribution(w, j)
<1>1. /\ j \in Slots /\ Backward(j) /\ next[w]["recv"] > j
      /\ next' = [next EXCEPT ![w]["comp"] = NextSlot(w[2], "comp", j)]
      /\ ingrad' = [ingrad EXCEPT ![w][MicroOf(j)] = Plus(@, more)]
      /\ grad' = [grad EXCEPT ![w] = [c \in Chunks |-> [grad[w][c] EXCEPT ![MicroOf(j)] = Plus(grad[w][c][MicroOf(j)], more)]]]
  BY DEF ComputeBackward, Ready, EventsReady, Through, Advance
<1>2. next[w]["comp"] = j
  OBVIOUS
<1>3. Carries(more, j)
  BY <1>1, <1>2, ContributionIsRight DEF InvAt
<1> HIDE DEF j, more
<1>4. /\ \A k \in Slots \cup {Update} : next'[w]["comp"] > k <=> k <= j
      /\ \A u \in PipeRanks : next'[u]["dp"] = next[u]["dp"] /\ (u # w => next'[u]["comp"] = next[u]["comp"])
      /\ OrderOk(next') /\ WireOk(next', wire) /\ BufferOk(next', input, outgrad) /\ ReductionOk(next')
  <2>1. OrderOk(next) /\ WireOk(next, wire) /\ BufferOk(next, input, outgrad) /\ ReductionOk(next)
    BY DEF InvAt
  <2> QED BY <1>1, <1>2, <2>1, ComputingGoes
<1>5. j \in Nat /\ MicroOf(j) \in Micros /\ \A k \in Slots : k \in Nat
  BY <1>1, SlotTypes
<1>6. \A u \in PipeRanks, k \in Slots : (u # w \/ k # j) => (next'[u]["comp"] > k <=> next[u]["comp"] > k)
  <2> TAKE u \in PipeRanks, k \in Slots
  <2>1. CASE u # w
    BY <1>4, <2>1
  <2>2. CASE u = w
    <3>1. next'[w]["comp"] > k <=> k <= j
      BY <1>4
    <3> QED BY <1>2, <1>5, <2>2, <3>1
  <2> QED BY <2>1, <2>2
<1>7. OutputOk(next', output)
  <2>1. ASSUME NEW u \in PipeRanks, NEW k \in Slots, ~Backward(k), next'[u]["comp"] > k PROVE output[u][k] = StepOf(k)
    <3>1. k # j
      BY <1>1, <2>1
    <3>2. next[u]["comp"] > k
      BY <1>6, <2>1, <3>1
    <3> QED BY <2>1, <3>2 DEF InvAt, OutputOk
  <2> QED BY <2>1 DEF InvAt, OutputOk
<1>8. ASSUME NEW g, Local(next, w, MicroOf(j), g) PROVE Local(next', w, MicroOf(j), Plus(g, more))
  <2>1. \A k \in Slots : next'[w]["comp"] > k <=> k <= j
    BY <1>4
  <2> QED BY <1>1, <1>2, <1>3, <1>8, <2>1, LocalAdded
<1>9. ASSUME NEW u \in PipeRanks, NEW i, u # w \/ i # MicroOf(j), NEW g, Local(next, u, i, g) PROVE Local(next', u, i, g)
  <2>1. \A k \in Slots : Backward(k) /\ MicroOf(k) = i => (next'[u]["comp"] > k <=> next[u]["comp"] > k)
    BY <1>6, <1>9
  <2> QED BY <1>9, <2>1, LocalKept
<1>10. OwnOk(next', ingrad')
  <2>1. /\ ingrad \in [PipeRanks -> [Micros -> Gradients]]
        /\ \A u \in PipeRanks, i \in Micros : Local(next, u, i, ingrad[u][i])
    BY DEF InvAt, OwnOk
  <2>2. ASSUME NEW u \in PipeRanks, NEW i \in Micros PROVE Local(next', u, i, ingrad'[u][i])
    <3>1. CASE u = w /\ i = MicroOf(j)
      <4>1. ingrad'[u][i] = Plus(ingrad[u][i], more)
        BY <1>1, <2>1, <3>1
      <4> QED BY <4>1, <3>1, <2>1, <1>8
    <3>2. CASE u # w \/ i # MicroOf(j)
      <4>1. ingrad'[u][i] = ingrad[u][i]
        BY <1>1, <2>1, <3>2
      <4> QED BY <4>1, <3>2, <2>1, <1>9
    <3> QED BY <3>1, <3>2
  <2>3. ingrad' \in [PipeRanks -> [Micros -> Gradients]]
    <3>1. \A u \in PipeRanks, i \in Micros : ingrad'[u][i] \in Gradients
      BY <2>2 DEF Local
    <3>2. /\ ingrad' = [u \in PipeRanks |-> ingrad'[u]]
          /\ \A u \in PipeRanks : ingrad'[u] = [i \in Micros |-> ingrad'[u][i]]
      BY <1>1, <2>1
    <3>3. \A u \in PipeRanks : ingrad'[u] \in [Micros -> Gradients]
      BY <3>1, <3>2
    <3> QED BY <3>2, <3>3
  <2> QED BY <2>2, <2>3 DEF OwnOk
<1>11. ~(shape.replicas > 1 /\ next[w]["dp"] > Update)
  <2>1. shape.replicas > 1 /\ next[w]["dp"] > Update => next[w]["comp"] >= Update
    BY DEF InvAt, ReductionOk
  <2> QED BY <1>1, <1>2, <2>1, ShapeFacts
<1>12. SharedOk(next', grad')
  <2>1. grad \in ByChunk
    BY DEF InvAt, SharedOk
  <2>2. /\ \A u \in PipeRanks : u # w => grad'[u] = grad[u]
        /\ grad'[w] = [c \in Chunks |-> [grad[w][c] EXCEPT ![MicroOf(j)] = Plus(grad[w][c][MicroOf(j)], more)]]
        /\ grad' = [u \in PipeRanks |-> grad'[u]]
    <3> DEFINE own == [c \in Chunks |-> [grad[w][c] EXCEPT ![MicroOf(j)] = Plus(grad[w][c][MicroOf(j)], more)]]
    <3>1. grad' = [grad EXCEPT ![w] = own]
      BY <1>1
    <3>2. grad \in [PipeRanks -> [Chunks -> [Micros -> Gradients]]]
      BY <2>1 DEF ByChunk
    <3>3. grad'[w] = own
      <4> HIDE DEF own
      <4> QED BY <3>1, <3>2
    <3>4. (\A u \in PipeRanks : u # w => grad'[u] = grad[u]) /\ grad' = [u \in PipeRanks |-> grad'[u]]
      <4> HIDE DEF own
      <4> QED BY <3>1, <3>2
    <3> QED BY <3>3, <3>4
  <2>3. \A c \in Chunks, i \in Micros : grad'[w][c][i] = IF i = MicroOf(j) THEN Plus(grad[w][c][i], more) ELSE grad[w][c][i]
    BY <2>1, <2>2 DEF ByChunk
  <2>4. shape.replicas = 1 \/ next[w]["dp"] <= Update
    <3>1. next[w]["dp"] \in Nat
      BY DEF InvAt, OrderOk, NextOk, Streams
    <3> QED BY <3>1, <1>11, ShapeFacts
  <2>5. ASSUME NEW c \in Chunks, NEW i \in Micros PROVE Local(next', w, i, grad'[w][c][i])
    <3>1. Local(next, w, i, grad[w][c][i])
      BY <2>4 DEF InvAt, SharedOk
    <3>2. CASE i = MicroOf(j)
      BY <3>1, <3>2, <2>3, <1>8
    <3>3. CASE i # MicroOf(j)
      BY <3>1, <3>3, <2>3, <1>9
    <3> QED BY <3>2, <3>3
  <2>6. grad' \in ByChunk
    <3>1. \A c \in Chunks, i \in Micros : grad'[w][c][i] \in Gradients
      BY <2>5 DEF Local
    <3>2. \A c \in Chunks : grad'[w][c] = [i \in Micros |-> grad'[w][c][i]]
      BY <2>1, <2>2 DEF ByChunk
    <3>3. \A c \in Chunks : grad'[w][c] \in [Micros -> Gradients]
      BY <3>1, <3>2
    <3>4. grad'[w] \in [Chunks -> [Micros -> Gradients]]
      <4>1. grad'[w] = [c \in Chunks |-> grad'[w][c]]
        BY <2>2
      <4> QED BY <4>1, <3>3
    <3>5. \A u \in PipeRanks : grad'[u] \in [Chunks -> [Micros -> Gradients]]
      BY <3>4, <2>1, <2>2 DEF ByChunk
    <3> QED BY <2>2, <3>5 DEF ByChunk
  <2>7. ASSUME NEW u \in PipeRanks, NEW c \in Chunks, NEW i \in Micros
        PROVE  /\ (shape.replicas = 1 \/ next'[u]["dp"] <= Update => Local(next', u, i, grad'[u][c][i]))
               /\ (Reduced(next', u, c) => Whole(grad'[u][c][i], shape.replicas))
    <3>1. CASE u = w
      <4>1. ~Reduced(next', u, c)
        BY <3>1, <1>4, <1>11 DEF Reduced
      <4> QED BY <4>1, <3>1, <2>5
    <3>2. CASE u # w
      <4>1. grad'[u][c][i] = grad[u][c][i] /\ next'[u]["dp"] = next[u]["dp"]
        BY <3>2, <2>2, <1>4
      <4>2. Reduced(next', u, c) => Reduced(next, u, c)
        BY <4>1 DEF Reduced
      <4>3. /\ (shape.replicas = 1 \/ next[u]["dp"] <= Update => Local(next, u, i, grad[u][c][i]))
            /\ (Reduced(next, u, c) => Whole(grad[u][c][i], shape.replicas))
        BY DEF InvAt, SharedOk
      <4> QED BY <4>1, <4>2, <4>3, <3>2, <1>9
    <3> QED BY <3>1, <3>2
  <2> QED BY <2>6, <2>7 DEF SharedOk
<1>13. AppliedOk(next', applied)
  <2>1. next'[w]["comp"] # End
    <3>1. ~(next'[w]["comp"] > Update)
      BY <1>1, <1>4, ShapeFacts
    <3> QED BY <3>1, ShapeFacts
  <2>2. \A u \in PipeRanks : next'[u]["comp"] = End => next[u]["comp"] = End
    BY <1>4, <2>1
  <2> QED BY <2>2, AppliedKept DEF InvAt
<1> QED BY <1>4, <1>7, <1>10, <1>12, <1>13 DEF InvAt

------------------------------------------------------------------------------
(* The optimizer and the collectives.                                       *)

\* OptimizerStep keeps the invariant: it uses gradients that are reduced.
LEMMA OptimizerStepKeeps ==
  ASSUME shape \in Shapes, InvAt(next, wire, input, outgrad, output, ingrad, grad, applied),
         NEW w \in PipeRanks, OptimizerStep(w)
  PROVE  InvAt(next', wire, input, outgrad, output, ingrad, grad, applied')
<1>1. /\ next[w]["comp"] = Update /\ next[w]["dp"] > Update + 1
      /\ next' = [next EXCEPT ![w]["comp"] = NextSlot(w[2], "comp", Update)]
      /\ applied' = [applied EXCEPT ![w] = grad[w]]
  BY DEF OptimizerStep, Ready, Through, Advance
<1>2. Update \in Slots \cup {Update} /\ Update \in Nat /\ Update \notin Slots /\ \A k \in Slots : k \in Nat /\ k < Update
  BY ShapeFacts
<1>3. /\ \A k \in Slots \cup {Update} : next'[w]["comp"] > k <=> k <= Update
      /\ \A u \in PipeRanks : next'[u]["dp"] = next[u]["dp"] /\ (u # w => next'[u]["comp"] = next[u]["comp"])
      /\ OrderOk(next') /\ WireOk(next', wire) /\ BufferOk(next', input, outgrad) /\ ReductionOk(next')
  <2>1. OrderOk(next) /\ WireOk(next, wire) /\ BufferOk(next, input, outgrad) /\ ReductionOk(next)
    BY DEF InvAt
  <2>2. Update \in WorkOf(w[2], "recv") => next[w]["recv"] > Update
    BY <1>2 DEF WorkOf
  <2> QED BY <1>1, <1>2, <2>1, <2>2, ComputingGoes
<1>4. \A u \in PipeRanks, k \in Slots : next'[u]["comp"] > k <=> next[u]["comp"] > k
  <2> TAKE u \in PipeRanks, k \in Slots
  <2>1. CASE u # w
    BY <1>3, <2>1
  <2>2. CASE u = w
    <3>1. next'[w]["comp"] > k <=> k <= Update
      BY <1>3
    <3> QED BY <1>1, <1>2, <2>2, <3>1
  <2> QED BY <2>1, <2>2
<1>5. OutputOk(next', output)
  BY <1>4 DEF InvAt, OutputOk
<1>6. OwnOk(next', ingrad) /\ SharedOk(next', grad)
  <2>1. \A u \in PipeRanks, k \in Slots : Backward(k) => (next'[u]["comp"] > k <=> next[u]["comp"] > k)
    BY <1>4
  <2>2. \A u \in PipeRanks : next'[u]["dp"] = next[u]["dp"]
    BY <1>3
  <2> QED BY <2>1, <2>2, OwnKept, SharedKept DEF InvAt
<1>7. next[w]["dp"] = End
  <2>1. next[w]["dp"] \in WorkOf(w[2], "dp") \cup {End}
    BY DEF InvAt, OrderOk, NextOk, Streams
  <2>2. WorkOf(w[2], "dp") \subseteq {Update, Update + 1}
    BY DEF WorkOf, Reductions
  <2> QED BY <1>1, <1>2, <2>1, <2>2
<1>8. ASSUME NEW c \in Chunks, NEW i \in Micros PROVE Whole(grad[w][c][i], shape.replicas)
  <2>1. CASE shape.replicas = 1
    <3>1. Local(next, w, i, grad[w][c][i])
      BY <2>1 DEF InvAt, SharedOk
    <3>2. next[w]["comp"] \in Nat /\ next[w]["comp"] >= Update
      BY <1>1, <1>2
    <3>3. Whole(grad[w][c][i], 1)
      BY <3>1, <3>2, LocalIsWhole
    <3> QED BY <2>1, <3>3
  <2>2. CASE shape.replicas # 1
    <3>1. Reduced(next, w, c)
      BY <1>1, <1>2, <1>7, <2>2, ShapeFacts DEF Reduced
    <3> QED BY <3>1 DEF InvAt, SharedOk
  <2> QED BY <2>1, <2>2
<1>9. AppliedOk(next', applied')
  <2>1. applied \in ByChunk /\ grad \in ByChunk
    BY DEF InvAt, AppliedOk, SharedOk
  <2>2. applied' \in ByChunk /\ applied'[w] = grad[w] /\ \A u \in PipeRanks : u # w => applied'[u] = applied[u]
    BY <1>1, <2>1 DEF ByChunk
  <2>3. ASSUME NEW u \in PipeRanks, NEW c \in Chunks, NEW i \in Micros, next'[u]["comp"] = End
        PROVE  Whole(applied'[u][c][i], shape.replicas)
    <3>1. CASE u = w
      BY <1>8, <2>2, <3>1
    <3>2. CASE u # w
      <4>1. next[u]["comp"] = End
        BY <1>3, <2>3, <3>2
      <4> QED BY <2>2, <3>2, <4>1 DEF InvAt, AppliedOk
    <3> QED BY <3>1, <3>2
  <2> QED BY <2>2, <2>3 DEF AppliedOk
<1> QED BY <1>3, <1>5, <1>6, <1>9 DEF InvAt

\* What the collective of a stage's replicas leaves in their gradients.
LEMMA CollectedIsWhole ==
  ASSUME shape \in Shapes, shape.replicas > 1, SharedOk(next, grad), NextOk(next),
         NEW r \in 0 .. LastStage, NEW j \in Reductions,
         \A w \in Group(r) : next[w]["dp"] = j /\ next[w]["comp"] >= Update,
         NEW c \in Chunks, NEW i \in Micros
  PROVE  /\ j = Update => Whole(Total(r, c)[i], shape.replicas)
         /\ j # Update => Whole(grad[ChunkOwner(c, r)][c][i], shape.replicas)
<1>1. ChunkOwner(c, r) \in Group(r) /\ Group(r) \subseteq PipeRanks
  BY ShapeFacts DEF ChunkOwner, Group, PipeRanks, Chunks
<1>2. Update \in Nat
  BY ShapeFacts
<1>3. ASSUME j = Update PROVE Whole(Total(r, c)[i], shape.replicas)
  <2> DEFINE g == [w \in Group(r) |-> grad[w][c][i]]
  <2>1. ASSUME NEW w \in Group(r) PROVE Whole(g[w], 1)
    <3>1. next[w]["dp"] <= Update /\ next[w]["comp"] >= Update /\ next[w]["comp"] \in Nat
      BY <1>1, <1>2, <1>3 DEF NextOk, Streams
    <3>2. Local(next, w, i, grad[w][c][i])
      BY <1>1, <3>1 DEF SharedOk
    <3>3. Whole(grad[w][c][i], 1)
      BY <1>1, <3>1, <3>2, LocalIsWhole
    <3> QED BY <3>3
  <2>2. Total(r, c)[i] = SumOver(Group(r), g)
    BY DEF Total
  <2> HIDE DEF g
  <2> QED BY <2>1, <2>2, SumIsWhole
<1>4. ASSUME j # Update PROVE Whole(grad[ChunkOwner(c, r)][c][i], shape.replicas)
  <2>1. j = Update + 1
    BY <1>4 DEF Reductions
  <2>2. ChunkOwner(c, r) = ChunkOwner(c, ChunkOwner(c, r)[2])
    BY DEF ChunkOwner
  <2>3. Reduced(next, ChunkOwner(c, r), c)
    BY <1>1, <1>2, <2>1, <2>2 DEF Reduced
  <2> QED BY <1>1, <2>3 DEF SharedOk
<1> QED BY <1>3, <1>4

\* How far the reducing streams of the stage are after a collective.
LEMMA ReductionGoes ==
  ASSUME shape \in Shapes, NEW r, NEW j \in Reductions, NEW x, x = NextSlot(r, "dp", j)
  PROVE  /\ shape.replicas > 1 /\ j \in {Update, Update + 1} /\ j \in Nat /\ x \in Nat /\ x > Update
         /\ shape.mode = "allreduce" => j = Update
         /\ shape.mode # "allreduce" /\ j = Update => x # End
         /\ x \in WorkOf(r, "dp") \cup {End} /\ \A i \in WorkOf(r, "dp") : x > i <=> i <= j
<1>1. WorkOf(r, "dp") = Reductions /\ "dp" \in Streams
  BY DEF WorkOf, Streams
<1>2. j \in {Update, Update + 1} /\ shape.replicas # 1 /\ (shape.mode = "allreduce" => j = Update)
  BY DEF Reductions
<1>3. Update \in Nat /\ End = Update + 2
  BY ShapeFacts
<1>4. j \in Nat /\ j < End
  BY <1>2, <1>3
<1>5. x \in Reductions \cup {End} /\ x \in Nat /\ x > j /\ \A i \in Reductions : x > i <=> i <= j
  BY <1>1, <1>4, NextSlotIs
<1>6. ASSUME shape.mode # "allreduce", j = Update PROVE x # End
  <2>1. Update + 1 \in Reductions
    BY <1>2, <1>6 DEF Reductions
  <2> QED BY <2>1, <1>3, <1>5, <1>6
<1>7. shape.replicas > 1
  BY <1>2, ShapeFacts
<1>8. x > Update
  BY <1>2, <1>3, <1>5
<1>9. x \in WorkOf(r, "dp") \cup {End} /\ \A i \in WorkOf(r, "dp") : x > i <=> i <= j
  <2>1. ASSUME NEW i \in Reductions PROVE x > i <=> i <= j
    BY <1>5, <2>1
  <2> QED BY <1>1, <1>5, <2>1
<1> QED BY <1>2, <1>4, <1>5, <1>6, <1>7, <1>8, <1>9

\* Reduce keeps the invariant, on streams, where it waits for the last backward slot.
LEMMA ReduceKeeps ==
  ASSUME shape \in Shapes, shape.replicas > 1 => shape.streams,
         InvAt(next, wire, input, outgrad, output, ingrad, grad, applied),
         NEW r \in 0 .. LastStage, NEW j, Reduce(r, j)
  PROVE  InvAt(next', wire, input, outgrad, output, ingrad, grad', applied)
<1> DEFINE x == NextSlot(r, "dp", j)
<1>0. NextOk(next) /\ "send" \in Streams /\ "recv" \in Streams /\ "comp" \in Streams /\ "dp" \in Streams
  BY DEF InvAt, OrderOk, Streams
<1>1. /\ j \in Reductions
      /\ next' = [w \in PipeRanks |-> IF w[2] = r THEN [next[w] EXCEPT !["dp"] = x] ELSE next[w]]
      /\ grad' = IF shape.mode = "allreduce" THEN AllReduce(r)
                 ELSE IF j = Update THEN ReduceToOwners(r) ELSE SpreadFromOwners(r)
  BY DEF Reduce
<1>2. /\ shape.replicas > 1 /\ j \in {Update, Update + 1} /\ j \in Nat /\ x \in Nat /\ x > Update
      /\ shape.mode = "allreduce" => j = Update
      /\ shape.mode # "allreduce" /\ j = Update => x # End
      /\ x \in WorkOf(r, "dp") \cup {End} /\ \A i \in WorkOf(r, "dp") : x > i <=> i <= j
  BY <1>1, ReductionGoes
<1> HIDE DEF x
<1>3. \A w \in Group(r) : w \in PipeRanks /\ w[2] = r
  BY DEF Group
<1>4. \A w \in PipeRanks : w[2] = r => w \in Group(r)
  BY DEF Group
<1>5. \A w \in Group(r) : next[w]["dp"] = j /\ next[w]["comp"] >= Update
  <2> TAKE w \in Group(r)
  <2>1. next[w]["dp"] = j /\ next[w]["comp"] > Update - 1
    BY <1>2 DEF Reduce, ReductionReady, Through
  <2>2. next[w]["comp"] \in Nat /\ Update \in Nat
    BY <1>0, <1>3, ShapeFacts DEF NextOk
  <2> QED BY <2>1, <2>2
<1>6. next \in [PipeRanks -> [Streams -> Nat]]
  BY <1>0 DEF NextOk
<1>7. \A w \in PipeRanks : /\ next'[w]["send"] = next[w]["send"] /\ next'[w]["recv"] = next[w]["recv"]
                          /\ next'[w]["comp"] = next[w]["comp"]
                          /\ next'[w]["dp"] = IF w[2] = r THEN x ELSE next[w]["dp"]
  BY <1>0, <1>1, <1>6
<1>8. NextOk(next')
  <2>1. next' \in [PipeRanks -> [Streams -> Nat]]
    BY <1>0, <1>1, <1>2, <1>6
  <2>2. ASSUME NEW w \in PipeRanks, NEW s \in Streams PROVE next'[w][s] \in WorkOf(w[2], s) \cup {End}
    <3>1. CASE w[2] = r /\ s = "dp"
      BY <1>2, <1>7, <3>1
    <3>2. CASE ~(w[2] = r /\ s = "dp")
      <4>1. next'[w][s] = next[w][s]
        BY <1>7, <3>2 DEF Streams
      <4> QED BY <4>1, <1>0 DEF NextOk
    <3> QED BY <3>1, <3>2
  <2> QED BY <2>1, <2>2 DEF NextOk
<1>9. Moves(next, next')
  <2> SUFFICES ASSUME NEW w \in PipeRanks, NEW s \in Streams
               PROVE  next'[w][s] = next[w][s] \/ \A i \in WorkOf(w[2], s) : next'[w][s] > i <=> i <= next[w][s]
    BY DEF Moves
  <2>1. CASE w[2] = r /\ s = "dp"
    <3>1. next[w]["dp"] = j
      BY <1>4, <1>5, <2>1
    <3> QED BY <3>1, <1>2, <1>7, <2>1
  <2>2. CASE ~(w[2] = r /\ s = "dp")
    BY <1>7, <2>2 DEF Streams
  <2> QED BY <2>1, <2>2
<1>10. OrderOk(next')
  <2>1. InTime(next, next')
    BY <1>7 DEF InTime
  <2> QED BY <1>8, <1>9, <2>1, OrderKept DEF InvAt
<1>11. WireOk(next', wire)
  <2>1. NothingPasses(next, next')
    BY <1>7 DEF NothingPasses
  <2> QED BY <2>1, WireKept DEF InvAt
<1>12. BufferOk(next', input, outgrad)
  <2>1. \A w \in PipeRanks : next'[w]["recv"] = next[w]["recv"]
    BY <1>7
  <2> QED BY <1>0, <1>8, <1>9, <2>1, BuffersKept DEF InvAt
<1>13. OutputOk(next', output)
  BY <1>7 DEF InvAt, OutputOk
<1>14. OwnOk(next', ingrad)
  <2>1. \A u \in PipeRanks, k \in Slots : Backward(k) => (next'[u]["comp"] > k <=> next[u]["comp"] > k)
    BY <1>7
  <2> QED BY <2>1, OwnKept DEF InvAt
<1>15. ReductionOk(next')
  <2> SUFFICES ASSUME NEW w \in PipeRanks
               PROVE  /\ shape.replicas > 1 /\ next'[w]["dp"] > Update => next'[w]["comp"] >= Update
                      /\ \A v \in PipeRanks : v[2] = w[2] => next'[v]["dp"] = next'[w]["dp"]
    BY DEF ReductionOk
  <2>1. shape.replicas > 1 /\ next[w]["dp"] > Update => next[w]["comp"] >= Update
    BY DEF InvAt, ReductionOk
  <2>2. \A v \in PipeRanks : v[2] = w[2] => next[v]["dp"] = next[w]["dp"]
    BY DEF InvAt, ReductionOk
  <2>3. CASE w[2] = r
    BY <1>4, <1>5, <1>7, <2>3
  <2>4. CASE w[2] # r
    BY <1>7, <2>1, <2>2, <2>4
  <2> QED BY <2>3, <2>4
<1>16. AppliedOk(next', applied)
  <2>1. \A u \in PipeRanks : next'[u]["comp"] = End => next[u]["comp"] = End
    BY <1>7
  <2> QED BY <2>1, AppliedKept DEF InvAt
<1>17. grad \in ByChunk /\ SharedOk(next, grad)
  BY DEF InvAt, SharedOk
<1>18. ASSUME NEW c \in Chunks, NEW i \in Micros
       PROVE  /\ j = Update => Whole(Total(r, c)[i], shape.replicas)
              /\ j # Update => Whole(grad[ChunkOwner(c, r)][c][i], shape.replicas)
  BY <1>0, <1>1, <1>2, <1>5, <1>17, CollectedIsWhole
<1>19. \A c \in Chunks : ChunkOwner(c, r) \in PipeRanks /\ ChunkOwner(c, r)[2] = r
  BY ShapeFacts DEF ChunkOwner, PipeRanks, Chunks
<1>20. ASSUME NEW u \in PipeRanks, u[2] # r PROVE grad'[u] = grad[u]
  <2>1. \A c \in Chunks : u # ChunkOwner(c, r)
    BY <1>19, <1>20
  <2>2. grad[u] = [c \in Chunks |-> grad[u][c]]
    BY <1>17 DEF ByChunk
  <2> QED BY <1>1, <1>20, <2>1, <2>2 DEF AllReduce, ReduceToOwners, SpreadFromOwners
<1>21. ASSUME NEW u \in PipeRanks, u[2] = r, NEW c \in Chunks
       PROVE  grad'[u][c] = IF shape.mode = "allreduce" \/ (j = Update /\ u = ChunkOwner(c, r)) THEN Total(r, c)
                            ELSE IF j = Update THEN grad[u][c] ELSE grad[ChunkOwner(c, r)][c]
  BY <1>1, <1>21 DEF AllReduce, ReduceToOwners, SpreadFromOwners
<1>22. /\ grad' = [u \in PipeRanks |-> grad'[u]]
       /\ \A u \in PipeRanks : grad'[u] = [c \in Chunks |-> grad'[u][c]]
  <2>1. grad' = [u \in PipeRanks |-> grad'[u]]
    BY <1>1 DEF AllReduce, ReduceToOwners, SpreadFromOwners
  <2>2. ASSUME NEW u \in PipeRanks PROVE grad'[u] = [c \in Chunks |-> grad'[u][c]]
    <3>1. CASE u[2] # r
      BY <1>17, <1>20, <3>1 DEF ByChunk
    <3>2. CASE u[2] = r
      BY <1>1, <3>2 DEF AllReduce, ReduceToOwners, SpreadFromOwners
    <3> QED BY <3>1, <3>2
  <2> QED BY <2>1, <2>2
<1>23. ASSUME NEW c \in Chunks PROVE /\ j = Update => Total(r, c) \in [Micros -> Gradients]
                                     /\ \A u \in PipeRanks : grad[u][c] \in [Micros -> Gradients]
  <2>1. \A i \in Micros : j = Update => Total(r, c)[i] \in Gradients
    BY <1>18 DEF Whole
  <2>2. Total(r, c) = [i \in Micros |-> Total(r, c)[i]]
    BY DEF Total
  <2>3. \A u \in PipeRanks : grad[u][c] \in [Micros -> Gradients]
    BY <1>17 DEF ByChunk
  <2> QED BY <2>1, <2>2, <2>3
<1>24. grad' \in ByChunk
  <2>1. ASSUME NEW u \in PipeRanks, NEW c \in Chunks PROVE grad'[u][c] \in [Micros -> Gradients]
    <3>1. CASE u[2] # r
      BY <1>20, <1>23, <3>1
    <3>2. CASE u[2] = r
      BY <1>2, <1>19, <1>21, <1>23, <3>2
    <3> QED BY <3>1, <3>2
  <2>2. \A u \in PipeRanks : grad'[u] \in [Chunks -> [Micros -> Gradients]]
    BY <1>22, <2>1
  <2> QED BY <1>22, <2>2 DEF ByChunk
<1>25. ASSUME NEW u \in PipeRanks, NEW c \in Chunks, NEW i \in Micros
       PROVE  /\ (shape.replicas = 1 \/ next'[u]["dp"] <= Update => Local(next', u, i, grad'[u][c][i]))
              /\ (Reduced(next', u, c) => Whole(grad'[u][c][i], shape.replicas))
  <2>1. CASE u[2] # r
    <3>1. grad'[u][c][i] = grad[u][c][i] /\ next'[u]["dp"] = next[u]["dp"] /\ next'[u]["comp"] = next[u]["comp"]
      BY <1>7, <1>20, <2>1
    <3>2. /\ (shape.replicas = 1 \/ next[u]["dp"] <= Update => Local(next, u, i, grad[u][c][i]))
          /\ (Reduced(next, u, c) => Whole(grad[u][c][i], shape.replicas))
      BY <1>17 DEF SharedOk
    <3>3. Reduced(next', u, c) => Reduced(next, u, c)
      BY <3>1 DEF Reduced
    <3>4. ASSUME Local(next, u, i, grad[u][c][i]) PROVE Local(next', u, i, grad[u][c][i])
      <4>1. \A k \in Slots : Backward(k) /\ MicroOf(k) = i => (next'[u]["comp"] > k <=> next[u]["comp"] > k)
        BY <3>1
      <4> QED BY <3>4, <4>1, LocalKept
    <3> QED BY <3>1, <3>2, <3>3, <3>4
  <2>2. CASE u[2] = r
    <3>1. next'[u]["dp"] = x
      BY <1>7, <2>2
    <3>2. ~(shape.replicas = 1 \/ next'[u]["dp"] <= Update)
      BY <1>2, <3>1, ShapeFacts
    <3>3. ASSUME Reduced(next', u, c) PROVE Whole(grad'[u][c][i], shape.replicas)
      <4>1. shape.mode = "allreduce" \/ x = End \/ u = ChunkOwner(c, r)
        BY <2>2, <3>1, <3>3 DEF Reduced
      <4> QED BY <4>1, <1>2, <1>18, <1>21, <2>2
    <3> QED BY <3>2, <3>3
  <2> QED BY <2>1, <2>2
<1>26. SharedOk(next', grad')
  BY <1>24, <1>25 DEF SharedOk
<1> QED BY <1>10, <1>11, <1>12, <1>13, <1>14, <1>15, <1>16, <1>26 DEF InvAt

------------------------------------------------------------------------------
(* The beginning of an iteration.                                           *)

\* At the first slots no stream has done anything.
LEMMA NothingDoneYet ==
  ASSUME shape \in Shapes, NEW n, n = FirstSlots
  PROVE  /\ NextOk(n)
         /\ \A w \in PipeRanks, s \in Streams : \A j \in WorkOf(w[2], s) : ~(n[w][s] > j)
         /\ \A w \in PipeRanks : n[w]["comp"] # End
         /\ \A v, w \in PipeRanks : v[2] = w[2] => n[v]["dp"] = n[w]["dp"]
         /\ shape.replicas > 1 => \A w \in PipeRanks : ~(n[w]["dp"] > Update)
<1>0. 0 \in Nat /\ 0 < End /\ "comp" \in Streams /\ "dp" \in Streams
  BY ShapeFacts DEF Streams
<1>1. n = [w \in PipeRanks |-> [s \in Streams |-> NextSlot(w[2], s, 0)]]
  BY DEF FirstSlots
<1>2. ASSUME NEW w \in PipeRanks, NEW s \in Streams
      PROVE  /\ n[w][s] = NextSlot(w[2], s, 0)
             /\ n[w][s] \in WorkOf(w[2], s) \cup {End} /\ n[w][s] \in Nat
             /\ \A i \in WorkOf(w[2], s) : n[w][s] > i <=> i <= 0
  BY <1>0, <1>1, NextSlotIs
<1>3. NextOk(n)
  BY <1>1, <1>2 DEF NextOk
<1>4. \A w \in PipeRanks, s \in Streams : \A j \in WorkOf(w[2], s) : ~(n[w][s] > j)
  <2> TAKE w \in PipeRanks, s \in Streams
  <2> TAKE j \in WorkOf(w[2], s)
  <2>1. j \in Nat \ {0}
    BY WorkIsSlots
  <2> QED BY <2>1, <1>2
<1>5. \A w \in PipeRanks : n[w]["comp"] # End
  <2> TAKE w \in PipeRanks
  <2>1. Update \in WorkOf(w[2], "comp")
    BY SlotsComputed
  <2>2. ~(n[w]["comp"] > Update)
    BY <1>0, <1>4, <2>1
  <2> QED BY <2>2, ShapeFacts
<1>6. \A v, w \in PipeRanks : v[2] = w[2] => n[v]["dp"] = n[w]["dp"]
  BY <1>0, <1>2
<1>7. ASSUME shape.replicas > 1, NEW w \in PipeRanks PROVE ~(n[w]["dp"] > Update)
  <2>1. Update \in WorkOf(w[2], "dp")
    BY <1>7, ShapeFacts DEF WorkOf, Reductions
  <2> QED BY <1>0, <1>4, <2>1
<1> QED BY <1>3, <1>4, <1>5, <1>6, <1>7

\* A cleared gradient is right then,
LEMMA NoGradientIsLocal ==
  ASSUME shape \in Shapes, NEW n, NEW w, \A j \in Slots : ~(n[w]["comp"] > j), NEW i
  PROVE  Local(n, w, i, NoGradient)
<1>1. NoGradient \in Gradients /\ \A k \in {Garbage} \cup Steps : NoGradient[k] = 0
  BY DEF NoGradient, Gradients
<1>2. \A j \in Slots : NoGradient[StepOf(j)] = 0
  BY <1>1, SlotTypes
<1> QED BY <1>1, <1>2 DEF Local

\* and so is the state an iteration begins with.
LEMMA FreshIteration ==
  ASSUME shape \in Shapes, NEW n, n = FirstSlots, NEW wr, NEW held, NEW back, NEW out, NEW own, NEW shared, NEW used,
         wr \in [PipeRanks -> [BOOLEAN -> Seq(Data)]], \A v \in PipeRanks, b \in BOOLEAN : wr[v][b] = <<>>,
         held = NewBuffers(0), back \in [PipeRanks -> [Micros -> Gradients]],
         out = [w \in PipeRanks |-> [j \in Slots |-> 0]],
         own = NewBuffers(NoGradient), shared = NewGradients, used \in ByChunk
  PROVE  InvAt(n, wr, held, back, out, own, shared, used)
<1>1. /\ NextOk(n)
      /\ \A w \in PipeRanks, s \in Streams : \A j \in WorkOf(w[2], s) : ~(n[w][s] > j)
      /\ \A w \in PipeRanks : n[w]["comp"] # End
      /\ \A v, w \in PipeRanks : v[2] = w[2] => n[v]["dp"] = n[w]["dp"]
      /\ shape.replicas > 1 => \A w \in PipeRanks : ~(n[w]["dp"] > Update)
  BY NothingDoneYet
<1>2. \A w \in PipeRanks : /\ \A j \in WorkOf(w[2], "recv") : j \in Slots /\ ~(n[w]["recv"] > j)
                           /\ \A j \in WorkOf(w[2], "send") : ~(n[w]["send"] > j)
                           /\ \A j \in Slots : ~(n[w]["comp"] > j)
  BY <1>1, SlotsComputed, WorkIsSlots DEF Streams
<1>3. OrderOk(n)
  BY <1>1, <1>2 DEF OrderOk, ComputedReceived, SentComputed, ReceivedSent
<1>4. WireOk(n, wr)
  <2>1. ASSUME NEW v \in PipeRanks, NEW b \in BOOLEAN, NEW j \in InFlight(n, v, b) PROVE FALSE
    <3>1. j \in WorkOf(v[2], "recv") /\ (Backward(j) <=> b) /\ n[Feeder(v, b)]["send"] > j
      BY DEF InFlight
    <3>2. Feeder(v, b) = Feeder(v, Backward(j))
      BY <3>1 DEF Feeder
    <3>3. Feeder(v, b) \in PipeRanks /\ j \in WorkOf(Feeder(v, b)[2], "send")
      BY <3>1, <3>2, Neighbours
    <3> QED BY <1>2, <3>1, <3>3
  <2>2. \A v \in PipeRanks, b \in BOOLEAN : InFlight(n, v, b) = {}
    BY <2>1
  <2> QED BY <2>2, NothingFlies DEF WireOk
<1>5. held \in [PipeRanks -> [Micros -> Nat]]
  BY DEF NewBuffers
<1>6. BufferOk(n, held, back)
  BY <1>2, <1>5 DEF BufferOk
<1>7. OutputOk(n, out)
  BY <1>2 DEF OutputOk
<1>8. \A w \in PipeRanks : \A i : Local(n, w, i, NoGradient)
  BY <1>2, NoGradientIsLocal
<1>9. NoGradient \in Gradients
  BY DEF NoGradient, Gradients
<1>10. OwnOk(n, own)
  BY <1>8, <1>9 DEF OwnOk, NewBuffers
<1>11. ReductionOk(n)
  BY <1>1 DEF ReductionOk
<1>12. SharedOk(n, shared)
  <2>1. shared \in ByChunk
    BY <1>9 DEF NewGradients, ByChunk
  <2>2. \A w \in PipeRanks, c \in Chunks, i \in Micros : shared[w][c][i] = NoGradient
    BY DEF NewGradients
  <2>3. \A w \in PipeRanks : \A c : ~Reduced(n, w, c)
    BY <1>1 DEF Reduced
  <2> QED BY <1>8, <2>1, <2>2, <2>3 DEF SharedOk
<1>13. AppliedOk(n, used)
  BY <1>1 DEF AppliedOk
<1> QED BY <1>3, <1>4, <1>6, <1>7, <1>10, <1>11, <1>12, <1>13 DEF InvAt

\* NextIteration keeps the invariant: all has arrived.
LEMMA NextIterationKeeps ==
  ASSUME shape \in Shapes, shape' = shape, InvAt(next, wire, input, outgrad, output, ingrad, grad, applied), NextIteration
  PROVE  InvAt(next', wire, input', outgrad, output', ingrad', grad', applied)
<1>1. wire \in [PipeRanks -> [BOOLEAN -> Seq(Data)]] /\ outgrad \in [PipeRanks -> [Micros -> Gradients]] /\ applied \in ByChunk
  BY DEF InvAt, WireOk, BufferOk, AppliedOk
<1>2. ASSUME NEW v \in PipeRanks, NEW b \in BOOLEAN PROVE wire[v][b] = <<>>
  <2>1. next[v]["recv"] > Update + 1 /\ next[v]["recv"] \in Nat
    BY DEF NextIteration, IterationDone, Through, Streams, InvAt, OrderOk, NextOk
  <2>2. \A j \in WorkOf(v[2], "recv") : next[v]["recv"] > j
    <3> TAKE j \in WorkOf(v[2], "recv")
    <3>1. j \in Slots
      BY DEF WorkOf
    <3> QED BY <2>1, <3>1, ShapeFacts
  <2>3. InFlight(next, v, b) = {}
    BY <2>2 DEF InFlight
  <2>4. LineOk(wire[v][b], InFlight(next, v, b))
    BY DEF InvAt, WireOk
  <2> QED BY <2>3, <2>4, EmptyLine
<1>3. /\ next' = FirstSlots /\ input' = NewBuffers(0) /\ ingrad' = NewBuffers(NoGradient) /\ grad' = NewGradients
      /\ output' = [w \in PipeRanks |-> [j \in Slots |-> 0]]
  BY DEF NextIteration
<1> QED BY <1>1, <1>2, <1>3, FreshIteration

\* The invariant of the reached states.
GInv == shape \in Shapes /\ InvAt(next, wire, input, outgrad, output, ingrad, grad, applied)

\* It holds at first.
LEMMA StartsWhole == GPipeInit => GInv
<1> SUFFICES ASSUME GPipeInit PROVE GInv
  OBVIOUS
<1>1. shape \in Shapes
  BY DEF GPipeInit
<1>2. NoGradient \in Gradients
  BY DEF NoGradient, Gradients
<1>3. wire \in [PipeRanks -> [BOOLEAN -> Seq(Data)]] /\ \A v \in PipeRanks, b \in BOOLEAN : wire[v][b] = <<>>
  BY DEF GPipeInit
<1>4. outgrad \in [PipeRanks -> [Micros -> Gradients]] /\ applied \in ByChunk
  BY <1>2 DEF GPipeInit, NewBuffers, NewGradients, ByChunk
<1>5. /\ next = FirstSlots /\ input = NewBuffers(0) /\ ingrad = NewBuffers(NoGradient) /\ grad = NewGradients
      /\ output = [w \in PipeRanks |-> [j \in Slots |-> 0]]
  BY DEF GPipeInit
<1>6. InvAt(next, wire, input, outgrad, output, ingrad, grad, applied)
  BY <1>1, <1>3, <1>4, <1>5, FreshIteration
<1> QED BY <1>1, <1>6 DEF GInv

\* The invariant of the parts of the next state is that of the next state.
LEMMA InvKept ==
  ASSUME shape \in Shapes, shape' = shape, InvAt(next', wire', input', outgrad', output', ingrad', grad', applied')
  PROVE  GInv'
<1>1. /\ PipeRanks' = PipeRanks /\ Micros' = Micros /\ Steps' = Steps /\ Slots' = Slots
      /\ Update' = Update /\ End' = End /\ Chunks' = Chunks /\ Gradients' = Gradients
      /\ \A j : StepOf(j)' = StepOf(j)
      /\ \A j : MicroOf(j)' = MicroOf(j)
      /\ \A j : Backward(j)' <=> Backward(j)
      /\ \A r, s : WorkOf(r, s)' = WorkOf(r, s)
  BY ShapeKept
<1>2. OrderOk(next)'
  BY OrderKeptShape DEF InvAt
<1>3. \A data, j : Carries(data, j)' <=> Carries(data, j)
  BY <1>1 DEF Carries, Garbage
<1>4. Data' = Data
  BY <1>1 DEF Data
<1>5. \A line, flying : LineOk(line, flying)' <=> LineOk(line, flying)
  BY <1>1, <1>3, <1>4 DEF LineOk, Lines
<1>6. \A v, b : InFlight(next, v, b)' = InFlight(next', v, b)
  BY <1>1 DEF InFlight, Feeder
<1>7. WireOk(next, wire)'
  BY <1>1, <1>4, <1>5, <1>6 DEF InvAt, WireOk
<1>8. BufferOk(next, input, outgrad)'
  <2>1. \A w, j : Buffer(input, outgrad, w, j)' = Buffer(input', outgrad', w, j)
    BY <1>1 DEF Buffer
  <2>2. \A j : Until(j)' = Until(j)
    BY <1>1 DEF Until
  <2> QED BY <1>1, <1>3, <2>1, <2>2 DEF InvAt, BufferOk
<1>9. OutputOk(next, output)'
  BY <1>1 DEF InvAt, OutputOk
<1>10. \A w, i, g : Local(next, w, i, g)' <=> Local(next', w, i, g)
  BY <1>1 DEF Local, Garbage
<1>11. \A g : Whole(g, shape.replicas)' <=> Whole(g, shape.replicas)
  BY <1>1 DEF Whole, Garbage
<1>12. \A w, c : Reduced(next, w, c)' <=> Reduced(next', w, c)
  BY <1>1 DEF Reduced, ChunkOwner
<1>13. ByChunk' = ByChunk
  BY <1>1 DEF ByChunk
<1>14. OwnOk(next, ingrad)'
  BY <1>1, <1>10 DEF InvAt, OwnOk
<1>15. ReductionOk(next)'
  BY <1>1 DEF InvAt, ReductionOk
<1>16. SharedOk(next, grad)'
  BY <1>1, <1>10, <1>11, <1>12, <1>13 DEF InvAt, SharedOk
<1>17. AppliedOk(next, applied)'
  BY <1>1, <1>11, <1>13 DEF InvAt, AppliedOk
<1> QED BY <1>2, <1>7, <1>8, <1>9, <1>14, <1>15, <1>16, <1>17 DEF InvAt, GInv

------------------------------------------------------------------------------
(* The theorem.                                                             *)

\* Replicas are trained on the accelerator path.  Over Gloo nobody records the event
\* the reduction waits for, see ReductionReady.
ReplicasOnStreams == \A s \in Shapes : s.replicas > 1 => s.streams

\* Every step keeps it.
LEMMA StepsKeepWhole ==
  ASSUME ReplicasOnStreams, GInv, [GPipeNext]_gpipeVars
  PROVE  GInv'
<1>1. shape \in Shapes /\ InvAt(next, wire, input, outgrad, output, ingrad, grad, applied)
  BY DEF GInv
<1>2. CASE UNCHANGED gpipeVars
  <2>1. /\ shape' = shape /\ next' = next /\ wire' = wire /\ input' = input /\ outgrad' = outgrad
        /\ output' = output /\ ingrad' = ingrad /\ grad' = grad /\ applied' = applied
    BY <1>2 DEF gpipeVars
  <2> QED BY <1>1, <2>1, InvKept
<1>3. ASSUME NEW w \in PipeRanks, NEW v \in PipeRanks, Meet(w, next[w]["send"], v, next[v]["recv"]) PROVE GInv'
  <2>1. shape' = shape /\ output' = output /\ wire' = wire /\ ingrad' = ingrad /\ grad' = grad /\ applied' = applied
    BY <1>3 DEF Meet
  <2>2. InvAt(next', wire, input', outgrad', output, ingrad, grad, applied)
    BY <1>1, <1>3, MeetStep
  <2> QED BY <1>1, <2>1, <2>2, InvKept
<1>4. ASSUME NEW w \in PipeRanks, Send(w, next[w]["send"]) PROVE GInv'
  <2>1. /\ shape' = shape /\ input' = input /\ outgrad' = outgrad
        /\ output' = output /\ ingrad' = ingrad /\ grad' = grad /\ applied' = applied
    BY <1>4 DEF Send
  <2>2. InvAt(next', wire', input, outgrad, output, ingrad, grad, applied)
    BY <1>1, <1>4, SendStep
  <2> QED BY <1>1, <2>1, <2>2, InvKept
<1>5. ASSUME NEW w \in PipeRanks, Receive(w, next[w]["recv"]) PROVE GInv'
  <2>1. shape' = shape /\ output' = output /\ ingrad' = ingrad /\ grad' = grad /\ applied' = applied
    BY <1>5 DEF Receive
  <2>2. InvAt(next', wire', input', outgrad', output, ingrad, grad, applied)
    BY <1>1, <1>5, ReceiveStep
  <2> QED BY <1>1, <2>1, <2>2, InvKept
<1>6. ASSUME NEW w \in PipeRanks, ComputeForward(w, next[w]["comp"]) PROVE GInv'
  <2>1. /\ shape' = shape /\ input' = input /\ wire' = wire /\ ingrad' = ingrad
        /\ outgrad' = outgrad /\ grad' = grad /\ applied' = applied
    BY <1>6 DEF ComputeForward
  <2>2. InvAt(next', wire, input, outgrad, output', ingrad, grad, applied)
    BY <1>1, <1>6, ForwardStep
  <2> QED BY <1>1, <2>1, <2>2, InvKept
<1>7. ASSUME NEW w \in PipeRanks, ComputeBackward(w, next[w]["comp"]) PROVE GInv'
  <2>1. /\ shape' = shape /\ input' = input /\ output' = output /\ wire' = wire
        /\ outgrad' = outgrad /\ applied' = applied
    BY <1>7 DEF ComputeBackward
  <2>2. InvAt(next', wire, input, outgrad, output, ingrad', grad', applied)
    BY <1>1, <1>7, BackwardStep
  <2> QED BY <1>1, <2>1, <2>2, InvKept
<1>8. ASSUME NEW w \in PipeRanks, OptimizerStep(w) PROVE GInv'
  <2>1. /\ shape' = shape /\ input' = input /\ output' = output /\ wire' = wire
        /\ ingrad' = ingrad /\ outgrad' = outgrad /\ grad' = grad
    BY <1>8 DEF OptimizerStep
  <2>2. InvAt(next', wire, input, outgrad, output, ingrad, grad, applied')
    BY <1>1, <1>8, OptimizerStepKeeps
  <2> QED BY <1>1, <2>1, <2>2, InvKept
<1>9. ASSUME NEW r \in 0 .. LastStage, NEW j, Reduce(r, j) PROVE GInv'
  <2>1. /\ shape' = shape /\ input' = input /\ output' = output /\ wire' = wire
        /\ ingrad' = ingrad /\ outgrad' = outgrad /\ applied' = applied
    BY <1>9 DEF Reduce
  <2>2. shape.replicas > 1 => shape.streams
    BY <1>1 DEF ReplicasOnStreams
  <2>3. InvAt(next', wire, input, outgrad, output, ingrad, grad', applied)
    BY <1>1, <1>9, <2>2, ReduceKeeps
  <2> QED BY <1>1, <2>1, <2>3, InvKept
<1>10. ASSUME NextIteration PROVE GInv'
  <2>1. shape' = shape /\ wire' = wire /\ outgrad' = outgrad /\ applied' = applied
    BY <1>10 DEF NextIteration
  <2>2. InvAt(next', wire, input', outgrad, output', ingrad', grad', applied)
    BY <1>1, <1>10, <2>1, NextIterationKeeps
  <2> QED BY <1>1, <2>1, <2>2, InvKept
<1> QED BY <1>2, <1>3, <1>4, <1>5, <1>6, <1>7, <1>8, <1>9, <1>10 DEF GPipeNext

\* It contains the property.
LEMMA WholeIsWhole == GInv => UpdateIsWhole
BY DEF GInv, InvAt, AppliedOk, Whole, UpdateIsWhole

\* Every optimizer step of every rank uses the gradients of all micro-batches of all
\* replicas, computed from the data of their slots (UpdateIsWhole), in every iteration,
\* for any number of stages, replicas, micro-batches and accumulation steps, with
\* buffered and with synchronous sends, whatever order NCCL gives the calls.
THEOREM UpdatesStayWhole ==
  ASSUME ReplicasOnStreams
  PROVE  GPipeSpec => []UpdateIsWhole
<1>1. GInv /\ [GPipeNext]_gpipeVars => GInv'
  BY StepsKeepWhole
<1> QED BY StartsWhole, <1>1, WholeIsWhole, PTL DEF GPipeSpec
------------------------------------------------------------------------------
(* The allocation of layers.                                                 *)

\* What is known of an instance.
Known ==
  /\ model.scheme \in {"live", "static"}
  /\ Size \in Nat \ {0} /\ model.total \in Nat /\ model.total >= Size
  /\ IsFiniteSet(StageRanks) /\ Cardinality(StageRanks) = Size
  /\ \A r \in StageRanks :
       /\ model.layerTime[r] \in Nat \ {0} /\ Endpoint(r) \in Nat
       /\ model.limit[r] \in Nat \ {0} /\ model.base[r] \in Nat
       /\ \A pool \in PoolsOf(r) : model.free[r][pool[1]] \in Nat

LEMMA ModelIsKnown == ASSUME model \in Models PROVE Known
<1>1. /\ model.scheme \in {"live", "static"}
      /\ model.layerTime \in Seq(Nat \ {0}) /\ Len(model.layerTime) >= 1
      /\ model.first \in Nat /\ model.last \in Nat
      /\ model.total \in Nat /\ model.total >= Len(model.layerTime)
      /\ \A r \in 1 .. Len(model.layerTime) :
           /\ model.limit[r] \in Nat \ {0} /\ model.base[r] \in Nat
           /\ model.free[r].host \in Nat
           /\ (model.device[r] # "cpu") => (model.free[r].device \in Nat)
  BY AllocationAssumption
<1>2. Size \in Nat \ {0} /\ model.total >= Size /\ StageRanks = 1 .. Size
  BY <1>1 DEF Size, StageRanks
<1>3. IsFiniteSet(StageRanks) /\ Cardinality(StageRanks) = Size
  BY <1>2, FS_Interval
<1>4. ASSUME NEW r \in StageRanks
      PROVE  /\ model.layerTime[r] \in Nat \ {0} /\ Endpoint(r) \in Nat
             /\ \A pool \in PoolsOf(r) : model.free[r][pool[1]] \in Nat
  <2>1. model.layerTime[r] \in Nat \ {0}
    BY <1>1 DEF StageRanks
  <2>2. Endpoint(r) \in Nat
    BY <1>1 DEF Endpoint
  <2>3. ASSUME NEW pool \in PoolsOf(r) PROVE model.free[r][pool[1]] \in Nat
    <3>1. model.free[r].host \in Nat /\ ((model.device[r] # "cpu") => (model.free[r].device \in Nat))
      BY <1>1 DEF StageRanks
    <3>2. pool[1] = "host" \/ (pool[1] = "device" /\ model.device[r] # "cpu")
      BY DEF PoolsOf
    <3> QED BY <3>1, <3>2
  <2> QED BY <2>1, <2>2, <2>3
<1> QED BY <1>1, <1>2, <1>3, <1>4 DEF Known, StageRanks, Size

\* The ranks that take from a pool.
Members(pool) == {r \in StageRanks : pool \in PoolsOf(r)}

LEMMA BudgetIsNumber ==
  ASSUME Known, NEW r \in StageRanks, NEW pool \in PoolsOf(r)
  PROVE  Budget(pool) \in Nat /\ pool \in AllPools /\ r \in Members(pool)
<1> DEFINE reports == {model.free[q][pool[1]] : q \in {s \in StageRanks : pool \in PoolsOf(s)}}
<1>1. reports \subseteq Nat /\ reports # {}
  BY DEF Known
<1>2. \E x \in reports : \A y \in reports : x <= y
  BY <1>1, LeastOfSet
<1>3. Budget(pool) = Min(reports)
  BY DEF Budget
<1> HIDE DEF reports
<1>4. Min(reports) \in reports
  BY <1>2 DEF Min
<1>5. pool \in AllPools /\ r \in Members(pool)
  BY DEF AllPools, Members
<1> QED BY <1>1, <1>3, <1>4, <1>5

\* What a pool holds: the members' own needs and their layers.
LEMMA UsageIsAmount ==
  ASSUME Known, NEW n \in [StageRanks -> Nat], NEW pool
  PROVE  /\ Usage(n, pool) = Amount(model.base, Members(pool)) + Amount(n, Members(pool))
         /\ Amount(model.base, Members(pool)) \in Nat /\ Amount(n, Members(pool)) \in Nat
<1> DEFINE h == [r \in StageRanks |-> IF pool \in PoolsOf(r) THEN model.base[r] + n[r] ELSE 0]
           M == Members(pool)
<1>1. Numbers(model.base, StageRanks) /\ Numbers(n, StageRanks)
  BY DEF Known, Numbers
<1>2. M \in SUBSET StageRanks /\ \A r \in StageRanks : r \in M <=> pool \in PoolsOf(r)
  BY DEF Members
<1>3. MadeOf(h, model.base, n, M, StageRanks)
  <2> HIDE DEF M
  <2> QED BY <1>2 DEF MadeOf
<1>4. Usage(n, pool) = Amount(h, StageRanks)
  BY DEF Usage, SumFunction, Amount
<1> HIDE DEF h, M
<1>5. Amount(h, StageRanks) = Amount(model.base, M) + Amount(n, M)
  BY <1>1, <1>2, <1>3, AmountOfParts
<1>6. Amount(model.base, M) \in Nat /\ Amount(n, M) \in Nat
  BY <1>1, <1>2, AmountIsNumber
<1> QED BY <1>4, <1>5, <1>6 DEF M

\* One layer more.
LEMMA OneMoreIs ==
  ASSUME Known, NEW n \in [StageRanks -> Nat], NEW r \in StageRanks
  PROVE  /\ OneMore(n, r) \in [StageRanks -> Nat] /\ OneMore(n, r)[r] = n[r] + 1
         /\ \A q \in StageRanks : q # r => OneMore(n, r)[q] = n[q]
         /\ \A M \in SUBSET StageRanks :
              Amount(OneMore(n, r), M) = Amount(n, M) + (IF r \in M THEN 1 ELSE 0)
<1> DEFINE m == OneMore(n, r)
<1>1. /\ m \in [StageRanks -> Nat] /\ m[r] = n[r] + 1
      /\ \A q \in StageRanks : q # r => m[q] = n[q]
  BY DEF OneMore
<1> HIDE DEF m
<1>2. ASSUME NEW M \in SUBSET StageRanks
      PROVE  Amount(m, M) = Amount(n, M) + (IF r \in M THEN 1 ELSE 0)
  <2>1. Numbers(n, M) /\ Numbers(m, M)
    <3>1. IsFiniteSet(M)
      BY FS_Subset DEF Known
    <3> QED BY <1>1, <3>1 DEF Numbers
  <2>2. CASE r \in M
    <3> DEFINE U == M \ {r}
    <3>1. U \in SUBSET M /\ \A x \in U : n[x] = m[x]
      BY <1>1
    <3>2. Amount(n, M) = n[r] + Amount(n, U) /\ Amount(m, M) = m[r] + Amount(m, U)
          /\ Amount(n, U) \in Nat
      BY <2>1, <2>2, AmountWithout
    <3> HIDE DEF U
    <3>3. Amount(n, U) = Amount(m, U)
      <4>1. Numbers(n, U)
        BY <2>1, <3>1, AmountIsNumber
      <4> QED BY <3>1, <4>1, AmountSame
    <3> QED BY <1>1, <2>2, <3>2, <3>3
  <2>3. CASE r \notin M
    <3>1. \A x \in M : n[x] = m[x]
      BY <1>1, <2>3
    <3>2. Amount(n, M) = Amount(m, M) /\ Amount(n, M) \in Nat
      BY <2>1, <3>1, AmountSame, AmountIsNumber
    <3> QED BY <2>3, <3>2
  <2> QED BY <2>2, <2>3
<1> QED BY <1>1, <1>2 DEF m

\* If every rank that n gives more has no room left, n gives no more in all: a
\* full host's ranks have as many in s together, else a full accelerator's
\* have, else each rank has.
Covered(n, s, pool) == Amount(n, Members(pool)) <= Amount(s, Members(pool))
HostPool(r) == <<"host", model.host[r]>>
DevicePool(r) == <<"device", model.host[r], model.device[r]>>
ClassOf(n, s, r) ==
  IF Covered(n, s, HostPool(r)) THEN Members(HostPool(r))
  ELSE IF model.device[r] # "cpu" /\ Covered(n, s, DevicePool(r)) THEN Members(DevicePool(r))
  ELSE {r}

LEMMA MembersAlike ==
  ASSUME NEW q \in StageRanks, NEW r \in StageRanks
  PROVE  /\ q \in Members(HostPool(r)) <=> HostPool(q) = HostPool(r)
         /\ q \in Members(DevicePool(r)) <=> (model.device[q] # "cpu" /\ DevicePool(q) = DevicePool(r))
         /\ DevicePool(q) = DevicePool(r) => HostPool(q) = HostPool(r) /\ model.device[q] = model.device[r]
<1>1. HostPool(r) # DevicePool(q) /\ HostPool(q) # DevicePool(r)
  <2>1. HostPool(r)[1] = "host" /\ DevicePool(q)[1] = "device" /\ HostPool(q)[1] = "host" /\ DevicePool(r)[1] = "device"
    BY DEF HostPool, DevicePool
  <2>2. "host" # "device"
    OBVIOUS
  <2> QED BY <2>1, <2>2
<1>2. PoolsOf(q) = {HostPool(q)} \cup IF model.device[q] = "cpu" THEN {} ELSE {DevicePool(q)}
  BY DEF PoolsOf, HostPool, DevicePool
<1>3. \A p : q \in Members(p) <=> p \in PoolsOf(q)
  BY DEF Members
<1>4. DevicePool(q) = DevicePool(r) => HostPool(q) = HostPool(r) /\ model.device[q] = model.device[r]
  BY DEF DevicePool, HostPool
<1> QED BY <1>1, <1>2, <1>3, <1>4

LEMMA ClassesOfRanks ==
  ASSUME NEW n, NEW s
  PROVE  Classes([r \in StageRanks |-> ClassOf(n, s, r)], StageRanks)
<1> DEFINE c == [r \in StageRanks |-> ClassOf(n, s, r)]
<1>1. SUFFICES ASSUME NEW x \in StageRanks
               PROVE  ClassOf(n, s, x) \in SUBSET StageRanks /\ x \in ClassOf(n, s, x)
                      /\ \A y \in ClassOf(n, s, x) : ClassOf(n, s, y) = ClassOf(n, s, x)
  <2> HIDE DEF c
  <2> QED BY DEF Classes, c
<1>2. \A p : Members(p) \in SUBSET StageRanks
  BY DEF Members
<1>3. CASE Covered(n, s, HostPool(x))
  <2>1. ClassOf(n, s, x) = Members(HostPool(x))
    BY <1>3 DEF ClassOf
  <2>2. x \in Members(HostPool(x))
    BY MembersAlike
  <2>3. ASSUME NEW y \in Members(HostPool(x)) PROVE ClassOf(n, s, y) = Members(HostPool(x))
    <3>1. y \in StageRanks /\ HostPool(y) = HostPool(x)
      BY <1>2, MembersAlike
    <3> QED BY <1>3, <3>1 DEF ClassOf
  <2> QED BY <1>2, <2>1, <2>2, <2>3
<1>4. CASE ~Covered(n, s, HostPool(x)) /\ model.device[x] # "cpu" /\ Covered(n, s, DevicePool(x))
  <2>1. ClassOf(n, s, x) = Members(DevicePool(x))
    BY <1>4 DEF ClassOf
  <2>2. x \in Members(DevicePool(x))
    BY <1>4, MembersAlike
  <2>3. ASSUME NEW y \in Members(DevicePool(x)) PROVE ClassOf(n, s, y) = Members(DevicePool(x))
    <3>1. y \in StageRanks /\ model.device[y] # "cpu" /\ DevicePool(y) = DevicePool(x) /\ HostPool(y) = HostPool(x)
      BY <1>2, MembersAlike
    <3> QED BY <1>4, <3>1 DEF ClassOf
  <2> QED BY <1>2, <2>1, <2>2, <2>3
<1>5. CASE ~Covered(n, s, HostPool(x)) /\ ~(model.device[x] # "cpu" /\ Covered(n, s, DevicePool(x)))
  <2>1. ClassOf(n, s, x) = {x}
    BY <1>5 DEF ClassOf
  <2> QED BY <2>1
<1> QED BY <1>3, <1>4, <1>5

LEMMA Exchange ==
  ASSUME Known, NEW s \in [StageRanks -> Nat], NEW n \in [StageRanks -> Nat], Fits(n),
         \A q \in StageRanks : s[q] < n[q] => ~Eligible(s, q)
  PROVE  Given(n) <= Given(s)
<1> DEFINE c == [r \in StageRanks |-> ClassOf(n, s, r)]
<1>1. Numbers(s, StageRanks) /\ Numbers(n, StageRanks)
  BY DEF Known, Numbers
<1>2. Classes(c, StageRanks)
  BY ClassesOfRanks
<1>3. ASSUME NEW r \in StageRanks PROVE Amount(n, ClassOf(n, s, r)) <= Amount(s, ClassOf(n, s, r))
  <2>1. CASE Covered(n, s, HostPool(r))
    BY <2>1 DEF ClassOf, Covered
  <2>2. CASE ~Covered(n, s, HostPool(r)) /\ model.device[r] # "cpu" /\ Covered(n, s, DevicePool(r))
    BY <2>2 DEF ClassOf, Covered
  <2>3. CASE ~Covered(n, s, HostPool(r)) /\ ~(model.device[r] # "cpu" /\ Covered(n, s, DevicePool(r)))
    <3>1. ClassOf(n, s, r) = {r}
      BY <2>3 DEF ClassOf
    <3>2. \A pool \in PoolsOf(r) : ~Covered(n, s, pool)
      BY <2>3 DEF PoolsOf, HostPool, DevicePool
    <3>3. Eligible(s, r)
      <4> SUFFICES ASSUME NEW pool \in PoolsOf(r) PROVE Usage(OneMore(s, r), pool) <= Budget(pool)
        BY DEF Eligible
      <4>1. Budget(pool) \in Nat /\ pool \in AllPools /\ r \in Members(pool)
        BY BudgetIsNumber
      <4>2. Members(pool) \in SUBSET StageRanks
        BY DEF Members
      <4>3. OneMore(s, r) \in [StageRanks -> Nat]
            /\ Amount(OneMore(s, r), Members(pool)) = Amount(s, Members(pool)) + 1
        BY <4>1, <4>2, OneMoreIs
      <4>4. Usage(OneMore(s, r), pool) = Amount(model.base, Members(pool)) + Amount(s, Members(pool)) + 1
        <5>1. Usage(OneMore(s, r), pool) = Amount(model.base, Members(pool)) + Amount(OneMore(s, r), Members(pool))
          BY <4>3, UsageIsAmount
        <5>2. Amount(model.base, Members(pool)) \in Nat /\ Amount(s, Members(pool)) \in Nat
          BY UsageIsAmount
        <5> QED BY <4>3, <5>1, <5>2
      <4>5. Usage(n, pool) = Amount(model.base, Members(pool)) + Amount(n, Members(pool))
            /\ Usage(n, pool) <= Budget(pool)
        BY <4>1, UsageIsAmount DEF Fits
      <4>6. ~(Amount(n, Members(pool)) <= Amount(s, Members(pool)))
        BY <3>2 DEF Covered
      <4>7. Amount(model.base, Members(pool)) \in Nat /\ Amount(s, Members(pool)) \in Nat
            /\ Amount(n, Members(pool)) \in Nat
        BY UsageIsAmount
      <4> QED BY <4>1, <4>4, <4>5, <4>6, <4>7
    <3>4. n[r] <= s[r]
      BY <3>3
    <3>5. Amount(n, {r}) = n[r] /\ Amount(s, {r}) = s[r]
      <4>1. r \in {r} /\ {r} \ {r} = {} /\ {r} \in SUBSET StageRanks
        OBVIOUS
      <4>2. Numbers(n, {r}) /\ Numbers(s, {r})
        BY <1>1, <4>1, AmountIsNumber
      <4>3. Amount(n, {r}) = n[r] + Amount(n, {}) /\ Amount(s, {r}) = s[r] + Amount(s, {})
        BY <4>1, <4>2, AmountWithout
      <4>4. n[r] \in Nat /\ s[r] \in Nat
        OBVIOUS
      <4> QED BY <4>3, <4>4, AmountOfNone
    <3> QED BY <3>1, <3>4, <3>5
  <2> QED BY <2>1, <2>2, <2>3
<1>4. \A r \in StageRanks : Amount(n, c[r]) <= Amount(s, c[r])
  BY <1>3
<1> HIDE DEF c
<1>5. Amount(n, StageRanks) <= Amount(s, StageRanks)
  BY <1>1, <1>2, <1>4, AmountByClasses
<1> QED BY <1>5 DEF Given, Amount

\* Among finitely many numbers one is the largest.
LEMMA LargestOf ==
  ASSUME NEW S, NEW g, Numbers(g, S), S # {}
  PROVE  \E x \in S : \A y \in S : g[y] <= g[x]
<1> DEFINE G == {T \in SUBSET S : T = {} \/ \E x \in T : \A y \in T : g[y] <= g[x]}
<1>1. {} \in G
  OBVIOUS
<1>2. ASSUME NEW T \in SUBSET S, NEW x \in S \ T, T \in G PROVE T \cup {x} \in G
  <2>1. \A y \in S : g[y] \in Nat
    BY DEF Numbers
  <2>2. CASE T = {}
    <3>1. \A y \in T \cup {x} : g[y] <= g[x]
      BY <2>1, <2>2
    <3> QED BY <3>1
  <2>3. CASE T # {}
    <3>1. PICK z \in T : \A y \in T : g[y] <= g[z]
      BY <1>2, <2>3
    <3>2. CASE g[x] <= g[z]
      <4>1. \A y \in T \cup {x} : g[y] <= g[z]
        BY <2>1, <3>1, <3>2
      <4> QED BY <4>1
    <3>3. CASE ~(g[x] <= g[z])
      <4>1. \A y \in T \cup {x} : g[y] <= g[x]
        <5>1. g[x] \in Nat /\ g[z] \in Nat
          BY <2>1
        <5> QED BY <2>1, <3>1, <3>3, <5>1
      <4> QED BY <4>1
    <3> QED BY <3>2, <3>3
  <2> QED BY <2>2, <2>3
<1>3. Grows(G, S)
  BY <1>1, <1>2 DEF Grows
<1>4. S \in G
  <2> HIDE DEF G
  <2> QED BY <1>3, SubsetInduction DEF Numbers
<1> QED BY <1>4

\* A stage with more layers takes longer.
LEMMA TimeGrows ==
  ASSUME Known, NEW r \in StageRanks, NEW a \in Nat, NEW b \in Nat
  PROVE  /\ ComputeTime(r, a) \in Nat
         /\ a <= b => ComputeTime(r, a) <= ComputeTime(r, b)
<1>1. PICK t \in Nat : t = model.layerTime[r]
  BY DEF Known
<1>2. Endpoint(r) \in Nat
  BY DEF Known
<1>3. a * t \in Nat /\ b * t \in Nat
  OBVIOUS
<1>4. ASSUME a <= b PROVE a * t <= b * t
  <2>1. PICK d \in Nat : b = a + d
    <3>1. b - a \in Nat /\ b = a + (b - a)
      BY <1>4
    <3> QED BY <3>1
  <2>2. (a + d) * t = a * t + d * t /\ d * t \in Nat
    OBVIOUS
  <2> QED BY <1>3, <2>1, <2>2
<1>5. ComputeTime(r, a) = a * t + Endpoint(r) /\ ComputeTime(r, b) = b * t + Endpoint(r)
  BY <1>1 DEF ComputeTime
<1> QED BY <1>2, <1>3, <1>4, <1>5

\* The bottleneck is the time of the slowest stage.
Slowest(n) ==
  /\ Bottleneck(n) \in Nat
  /\ \A r \in StageRanks : ComputeTime(r, n[r]) \in Nat /\ ComputeTime(r, n[r]) <= Bottleneck(n)
  /\ \E r \in StageRanks : Bottleneck(n) = ComputeTime(r, n[r])

LEMMA BottleneckIsSlowest ==
  ASSUME Known, NEW n \in [StageRanks -> Nat]
  PROVE  Slowest(n)
<1> DEFINE g == [r \in StageRanks |-> ComputeTime(r, n[r])]
           times == {ComputeTime(r, n[r]) : r \in StageRanks}
<1>1. \A r \in StageRanks : g[r] \in Nat /\ g[r] = ComputeTime(r, n[r])
  BY TimeGrows
<1>2. Numbers(g, StageRanks) /\ StageRanks # {}
  <2>1. 1 \in StageRanks
    BY DEF Known, StageRanks, Size
  <2> HIDE DEF g
  <2> QED BY <1>1, <2>1 DEF Numbers, Known
<1> HIDE DEF g
<1>3. PICK x \in StageRanks : \A y \in StageRanks : g[y] <= g[x]
  BY <1>2, LargestOf
<1>4. g[x] \in times /\ \A t \in times : g[x] >= t
  BY <1>1, <1>3
<1>5. Bottleneck(n) = Max(times)
  BY DEF Bottleneck
<1>6. \A t \in times : t \in Nat
  BY <1>1
<1> HIDE DEF times
<1>7. Max(times) \in times /\ \A t \in times : Max(times) >= t
  BY <1>4 DEF Max
<1> QED BY <1>1, <1>5, <1>6, <1>7 DEF Slowest, times

\* Possible allocations give every layer and at least one to every stage.
LEMMA PossibleAre ==
  ASSUME Known, NEW n \in Possible
  PROVE  /\ n \in [StageRanks -> Nat] /\ Given(n) = model.total
         /\ \A r \in StageRanks : n[r] >= 1
         /\ model.scheme = "live" => Fits(n)
         /\ model.scheme = "static" => \A r \in StageRanks : n[r] <= model.limit[r]
<1>1. n \in [StageRanks -> 1 .. model.total] /\ Given(n) = model.total
  BY DEF Possible, Allocations
<1> QED BY <1>1 DEF Possible, Known

LEMMA GivenIsNumber ==
  ASSUME Known, NEW n \in [StageRanks -> Nat]
  PROVE  Given(n) \in Nat /\ \A r \in StageRanks : n[r] <= Given(n)
<1>1. Numbers(n, StageRanks)
  BY DEF Known, Numbers
<1>2. Given(n) = Amount(n, StageRanks) /\ Given(n) \in Nat
  BY <1>1, AmountIsNumber DEF Given, Amount
<1>3. ASSUME NEW r \in StageRanks PROVE n[r] <= Given(n)
  <2>1. Amount(n, StageRanks) = n[r] + Amount(n, StageRanks \ {r})
        /\ n[r] \in Nat /\ Amount(n, StageRanks \ {r}) \in Nat
    BY <1>1, AmountWithout
  <2> QED BY <1>2, <2>1
<1> QED BY <1>2, <1>3

\* What the greedy loop keeps: the shares fit, and no possible allocation is
\* faster than they are already.
LiveOk(s) ==
  /\ s \in [StageRanks -> Nat \ {0}]
  /\ Fits(s)
  /\ Given(s) <= model.total
  /\ \A n \in Possible : Bottleneck(s) <= Bottleneck(n)

LEMMA LiveGoesOn ==
  ASSUME Known, model.scheme = "live", NEW s, LiveOk(s), Given(s) < model.total,
         NEW r \in StageRanks, Eligible(s, r),
         \A q \in StageRanks \ {r} : Eligible(s, q) => Earlier(Rating(s, r), Rating(s, q))
  PROVE  LiveOk(OneMore(s, r))
<1> DEFINE m == OneMore(s, r)
<1>1. s \in [StageRanks -> Nat] /\ \A q \in StageRanks : s[q] # 0
  BY DEF LiveOk
<1>2. /\ m \in [StageRanks -> Nat] /\ m[r] = s[r] + 1
      /\ \A q \in StageRanks : q # r => m[q] = s[q]
      /\ \A M \in SUBSET StageRanks : Amount(m, M) = Amount(s, M) + (IF r \in M THEN 1 ELSE 0)
  BY <1>1, OneMoreIs
<1> HIDE DEF m
<1>3. m \in [StageRanks -> Nat \ {0}]
  <2>1. \A q \in StageRanks : m[q] \in Nat \ {0}
    BY <1>1, <1>2
  <2> QED BY <1>2, <2>1
<1>4. Fits(m)
  <2> SUFFICES ASSUME NEW pool \in AllPools PROVE Usage(m, pool) <= Budget(pool)
    BY DEF Fits
  <2>1. Usage(s, pool) <= Budget(pool)
    BY DEF LiveOk, Fits
  <2>2. CASE pool \in PoolsOf(r)
    BY <2>2 DEF Eligible, m
  <2>3. CASE pool \notin PoolsOf(r)
    <3>1. Members(pool) \in SUBSET StageRanks /\ r \notin Members(pool)
      BY <2>3 DEF Members
    <3>2. Amount(m, Members(pool)) = Amount(s, Members(pool))
      <4>1. Amount(s, Members(pool)) \in Nat
        BY <1>1, UsageIsAmount
      <4> QED BY <1>2, <3>1, <4>1
    <3>3. Usage(m, pool) = Usage(s, pool)
      BY <1>1, <1>2, <3>2, UsageIsAmount
    <3> QED BY <2>1, <3>3
  <2> QED BY <2>2, <2>3
<1>5. Given(m) <= model.total
  <2>1. Amount(m, StageRanks) = Amount(s, StageRanks) + 1
    BY <1>2
  <2>2. Given(s) \in Nat /\ model.total \in Nat
    BY <1>1, GivenIsNumber DEF Known
  <2> QED BY <2>1, <2>2 DEF Given, Amount
<1>6. ASSUME NEW n \in Possible PROVE Bottleneck(m) <= Bottleneck(n)
  <2>1. n \in [StageRanks -> Nat] /\ Given(n) = model.total /\ Fits(n)
    BY PossibleAre
  <2>2. PICK q \in StageRanks : s[q] < n[q] /\ Eligible(s, q)
    <3>1. ~(Given(n) <= Given(s))
      <4>1. Given(s) \in Nat /\ model.total \in Nat
        BY <1>1, GivenIsNumber DEF Known
      <4> QED BY <2>1, <4>1
    <3> QED BY <1>1, <2>1, <3>1, Exchange
  <2>3. Slowest(n) /\ Slowest(s) /\ Slowest(m)
    BY <1>1, <1>2, <2>1, BottleneckIsSlowest
  <2>4. s[q] + 1 \in Nat /\ s[q] + 1 <= n[q] /\ n[q] \in Nat /\ s[r] + 1 \in Nat
    <3>1. s[q] \in Nat /\ n[q] \in Nat /\ s[r] \in Nat
      BY <1>1, <2>1
    <3> QED BY <2>2, <3>1
  <2>5. /\ ComputeTime(q, s[q] + 1) \in Nat /\ ComputeTime(r, s[r] + 1) \in Nat
        /\ ComputeTime(q, s[q] + 1) <= ComputeTime(q, n[q])
        /\ ComputeTime(q, n[q]) \in Nat /\ ComputeTime(q, n[q]) <= Bottleneck(n)
    BY <2>3, <2>4, TimeGrows DEF Slowest
  <2>6. ComputeTime(r, s[r] + 1) <= ComputeTime(q, s[q] + 1)
    <3>1. CASE q = r
      BY <3>1, <2>5
    <3>2. CASE q # r
      <4>1. Earlier(Rating(s, r), Rating(s, q))
        BY <2>2, <3>2
      <4>2. \/ ComputeTime(r, s[r] + 1) < ComputeTime(q, s[q] + 1)
            \/ ComputeTime(r, s[r] + 1) = ComputeTime(q, s[q] + 1)
        BY <4>1 DEF Earlier, Rating
      <4> QED BY <2>5, <4>2
    <3> QED BY <3>1, <3>2
  <2>7. Bottleneck(n) \in Nat /\ Bottleneck(s) \in Nat /\ Bottleneck(s) <= Bottleneck(n)
    BY <2>3 DEF LiveOk, Slowest
  <2>8. PICK x \in StageRanks : Bottleneck(m) = ComputeTime(x, m[x])
    BY <2>3 DEF Slowest
  <2>9. CASE x = r
    BY <1>2, <2>5, <2>6, <2>7, <2>8, <2>9
  <2>10. CASE x # r
    <3>1. Bottleneck(m) = ComputeTime(x, s[x])
      BY <1>2, <2>8, <2>10
    <3>2. ComputeTime(x, s[x]) \in Nat /\ ComputeTime(x, s[x]) <= Bottleneck(s)
      BY <2>3 DEF Slowest
    <3> QED BY <2>7, <3>1, <3>2
  <2> QED BY <2>9, <2>10
<1> QED BY <1>3, <1>4, <1>5, <1>6 DEF LiveOk, m

\* One layer each is the least there can be.
Singles == [r \in StageRanks |-> 1]

LEMMA SinglesAreLeast ==
  ASSUME Known
  PROVE  /\ Singles \in [StageRanks -> Nat \ {0}] /\ Given(Singles) = Size
         /\ \A n \in Possible : Bottleneck(Singles) <= Bottleneck(n) /\ (Fits(n) => Fits(Singles))
<1>1. Singles \in [StageRanks -> Nat \ {0}] /\ Singles \in [StageRanks -> Nat]
  BY DEF Singles
<1>2. Given(Singles) = Size
  <2>1. \A r \in StageRanks : Singles[r] \in Nat /\ Singles[r] = 1
    BY DEF Singles
  <2>2. IsFiniteSet(StageRanks) /\ Cardinality(StageRanks) = Size
    BY DEF Known
  <2>3. Alike(Singles, StageRanks, StageRanks, SumFunctionOnSet(Singles, StageRanks))
    BY <2>1, <2>2, SumFits
  <2> QED BY <2>1, <2>2, <2>3 DEF Alike, Given
<1>3. ASSUME NEW n \in Possible
      PROVE  Bottleneck(Singles) <= Bottleneck(n) /\ (Fits(n) => Fits(Singles))
  <2>1. n \in [StageRanks -> Nat] /\ \A r \in StageRanks : Singles[r] <= n[r]
    BY PossibleAre DEF Singles
  <2>2. Slowest(n) /\ Slowest(Singles)
    BY <1>1, <2>1, BottleneckIsSlowest
  <2>3. PICK x \in StageRanks : Bottleneck(Singles) = ComputeTime(x, Singles[x])
    BY <2>2 DEF Slowest
  <2>4. /\ ComputeTime(x, Singles[x]) \in Nat
        /\ ComputeTime(x, Singles[x]) <= ComputeTime(x, n[x])
    <3>1. Singles[x] \in Nat /\ n[x] \in Nat /\ Singles[x] <= n[x]
      BY <1>1, <2>1
    <3> QED BY <3>1, TimeGrows
  <2>5. ComputeTime(x, n[x]) \in Nat /\ ComputeTime(x, n[x]) <= Bottleneck(n) /\ Bottleneck(n) \in Nat
    BY <2>2 DEF Slowest
  <2>6. Bottleneck(Singles) <= Bottleneck(n)
    BY <2>3, <2>4, <2>5
  <2>7. ASSUME Fits(n), NEW pool \in AllPools PROVE Usage(Singles, pool) <= Budget(pool)
    <3>1. Members(pool) \in SUBSET StageRanks
      BY DEF Members
    <3>2. Numbers(Singles, Members(pool)) /\ Numbers(n, Members(pool))
      <4>1. IsFiniteSet(Members(pool))
        BY <3>1, FS_Subset DEF Known
      <4> QED BY <1>1, <2>1, <3>1, <4>1 DEF Numbers
    <3>3. Amount(Singles, Members(pool)) <= Amount(n, Members(pool))
      BY <2>1, <3>1, <3>2, AmountGrows
    <3>4. /\ Usage(n, pool) = Amount(model.base, Members(pool)) + Amount(n, Members(pool))
          /\ Amount(n, Members(pool)) \in Nat /\ Amount(model.base, Members(pool)) \in Nat
      BY <2>1, UsageIsAmount
    <3>5. /\ Usage(Singles, pool) = Amount(model.base, Members(pool)) + Amount(Singles, Members(pool))
          /\ Amount(Singles, Members(pool)) \in Nat
      BY <1>1, UsageIsAmount
    <3>6. Usage(n, pool) <= Budget(pool)
      BY <2>7 DEF Fits
    <3>7. Budget(pool) \in Nat
      <4>1. PICK r \in StageRanks : pool \in PoolsOf(r)
        BY DEF AllPools
      <4> QED BY <4>1, BudgetIsNumber
    <3> QED BY <3>3, <3>4, <3>5, <3>6, <3>7
  <2> QED BY <2>6, <2>7 DEF Fits
<1> QED BY <1>1, <1>2, <1>3

LEMMA LiveBegins ==
  ASSUME Known, model.scheme = "live"
  PROVE  IF Fits(Singles) THEN LiveOk(Singles) ELSE Possible = {}
<1>1. \A n \in Possible : Fits(n)
  BY PossibleAre
<1>2. Given(Singles) <= model.total
  BY SinglesAreLeast DEF Known
<1> QED BY <1>1, <1>2, SinglesAreLeast DEF LiveOk

LEMMA LiveFindsNoRoom ==
  ASSUME Known, model.scheme = "live", NEW s, LiveOk(s), Given(s) < model.total,
         \A r \in StageRanks : ~Eligible(s, r)
  PROVE  Possible = {}
<1>1. SUFFICES ASSUME NEW n \in Possible PROVE FALSE
  OBVIOUS
<1>2. n \in [StageRanks -> Nat] /\ Given(n) = model.total /\ Fits(n)
  BY PossibleAre
<1>3. s \in [StageRanks -> Nat]
  BY DEF LiveOk
<1>4. Given(n) <= Given(s)
  BY <1>2, <1>3, Exchange
<1>5. Given(s) \in Nat /\ model.total \in Nat
  BY <1>3, GivenIsNumber DEF Known
<1> QED BY <1>2, <1>4, <1>5

\* What PlanIsBest says of a plan.
BestPlan(s) ==
  /\ s \in Possible
  /\ \A n \in Possible :
       /\ Bottleneck(s) <= Bottleneck(n)
       /\ (model.scheme = "static" /\ Bottleneck(n) = Bottleneck(s)) => ~Smaller(n, s)

LEMMA LiveEnds ==
  ASSUME Known, model.scheme = "live", NEW s, LiveOk(s), Given(s) = model.total
  PROVE  BestPlan(s)
<1>1. s \in [StageRanks -> Nat] /\ s \in [StageRanks -> Nat \ {0}]
  BY DEF LiveOk
<1>2. s \in [StageRanks -> 1 .. model.total]
  <2>1. ASSUME NEW r \in StageRanks PROVE s[r] \in 1 .. model.total
    <3>1. s[r] <= model.total /\ s[r] \in Nat \ {0} /\ model.total \in Nat
      BY <1>1, GivenIsNumber DEF Known
    <3> QED BY <3>1
  <2> QED BY <1>1, <2>1
<1>3. s \in Possible
  BY <1>2 DEF Possible, Allocations, LiveOk
<1> QED BY <1>3 DEF BestPlan, LiveOk

\* How many elements of a set are not greater.
RankIn(T, t) == Cardinality({u \in T : u <= t})

LEMMA RanksGrow ==
  ASSUME NEW T \in SUBSET Nat, IsFiniteSet(T), NEW t \in T
  PROVE  /\ RankIn(T, t) \in 1 .. Cardinality(T)
         /\ \A u \in T : t < u => RankIn(T, t) < RankIn(T, u)
<1> DEFINE B(u) == {v \in T : v <= u}
<1>1. \A u \in T : B(u) \in SUBSET T /\ u \in B(u)
  OBVIOUS
<1>2. \A u \in T : /\ IsFiniteSet(B(u)) /\ Cardinality(B(u)) \in Nat
                   /\ Cardinality(B(u)) <= Cardinality(T) /\ Cardinality(B(u)) # 0
  <2> TAKE u \in T
  <2>1. B(u) \in SUBSET T /\ B(u) # {}
    BY <1>1
  <2> HIDE DEF B
  <2>2. IsFiniteSet(B(u)) /\ Cardinality(B(u)) <= Cardinality(T)
    BY <2>1, FS_Subset
  <2> QED BY <2>1, <2>2, FS_CardinalityType, FS_EmptySet
<1>3. Cardinality(T) \in Nat
  BY FS_CardinalityType
<1>4. ASSUME NEW u \in T, t < u PROVE RankIn(T, t) < RankIn(T, u)
  <2>1. B(t) \in SUBSET B(u)
    <3>1. \A v \in T : v \in Nat /\ (v <= t => v <= u)
      BY <1>4
    <3> QED BY <3>1
  <2>2. u \in B(u) /\ u \notin B(t)
    BY <1>4
  <2>3. IsFiniteSet(B(u)) /\ Cardinality(B(u)) \in Nat /\ Cardinality(B(t)) \in Nat
    BY <1>2
  <2>4. RankIn(T, t) = Cardinality(B(t)) /\ RankIn(T, u) = Cardinality(B(u))
    BY DEF RankIn
  <2> HIDE DEF B
  <2>5. Cardinality(B(t)) <= Cardinality(B(u)) /\ (Cardinality(B(u)) = Cardinality(B(t)) => B(u) = B(t))
    BY <2>1, <2>3, FS_Subset
  <2> QED BY <2>2, <2>3, <2>4, <2>5
<1>5. RankIn(T, t) = Cardinality(B(t))
  BY DEF RankIn
<1> HIDE DEF B
<1> QED BY <1>2, <1>3, <1>4, <1>5

\* Every rank is the rank of an element.
LEMMA RanksAreTaken ==
  ASSUME NEW T \in SUBSET Nat, IsFiniteSet(T), NEW i \in 1 .. Cardinality(T)
  PROVE  \E t \in T : RankIn(T, t) = i
<1> DEFINE Bad == {j \in 1 .. Cardinality(T) : ~\E t \in T : RankIn(T, t) = j}
<1>1. SUFFICES ASSUME Bad # {} PROVE FALSE
  OBVIOUS
<1>2. Bad \subseteq Nat
  OBVIOUS
<1>3. PICK j \in Bad : \A k \in Bad : j <= k
  BY <1>1, <1>2, LeastOfSet
<1>4. j \in 1 .. Cardinality(T) /\ ~\E t \in T : RankIn(T, t) = j
  BY <1>3
<1>5. Cardinality(T) \in Nat /\ j \in Nat /\ j >= 1
  BY <1>4, FS_CardinalityType
<1> HIDE DEF Bad
<1>6. \E L \in SUBSET T : /\ Cardinality(L) = j - 1 /\ L # T
                          /\ \A t \in L : \A u \in T : u <= t => u \in L
  <2>1. CASE j = 1
    <3>1. {} \in SUBSET T /\ Cardinality({}) = 0
      BY FS_EmptySet
    <3>2. {} # T
      BY <1>4, <2>1, <3>1
    <3> QED BY <2>1, <3>1, <3>2
  <2>2. CASE j # 1
    <3>1. j - 1 \notin Bad /\ j - 1 \in 1 .. Cardinality(T)
      BY <1>3, <1>4, <1>5, <2>2
    <3>2. PICK t \in T : RankIn(T, t) = j - 1
      BY <3>1 DEF Bad
    <3> DEFINE L == {u \in T : u <= t}
    <3>3. Cardinality(L) = j - 1
      BY <3>2 DEF RankIn
    <3>4. L \in SUBSET T /\ \A v \in L : \A u \in T : u <= v => u \in L
      OBVIOUS
    <3> HIDE DEF L
    <3>5. L # T
      BY <1>4, <1>5, <3>3
    <3> QED BY <3>3, <3>4, <3>5
  <2> QED BY <2>1, <2>2
<1>7. PICK L \in SUBSET T : /\ Cardinality(L) = j - 1 /\ L # T
                            /\ \A t \in L : \A u \in T : u <= t => u \in L
  BY <1>6
<1>8. T \ L \subseteq Nat /\ T \ L # {}
  BY <1>7
<1>9. PICK t \in T \ L : \A u \in T \ L : t <= u
  BY <1>8, LeastOfSet
<1>10. {u \in T : u <= t} = L \cup {t}
  <2>1. ASSUME NEW u \in T, u <= t, u # t PROVE u \in L
    <3>1. u \in Nat /\ t \in Nat
      OBVIOUS
    <3>2. ~(t <= u)
      BY <2>1, <3>1
    <3> QED BY <1>9, <3>2
  <2>2. ASSUME NEW u \in L PROVE u <= t
    <3>1. ~(t <= u)
      BY <1>7, <1>9
    <3>2. u \in Nat /\ t \in Nat
      BY <1>7
    <3> QED BY <3>1, <3>2
  <2>3. t \in Nat /\ t <= t /\ t \in T
    OBVIOUS
  <2> QED BY <1>7, <2>1, <2>2, <2>3
<1>11. Cardinality(L \cup {t}) = Cardinality(L) + 1
  <2>1. IsFiniteSet(L) /\ t \notin L
    BY <1>9, FS_Subset
  <2> QED BY <2>1, FS_AddElement
<1>12. RankIn(T, t) = j
  BY <1>5, <1>7, <1>10, <1>11 DEF RankIn
<1> QED BY <1>4, <1>12

\* The length of a row.
RowLength(r) == Min({model.limit[r], model.total - Size + 1})

LEMMA RowIs ==
  ASSUME Known, NEW r \in StageRanks
  PROVE  /\ RowLength(r) \in Nat \ {0}
         /\ RowLength(r) <= model.limit[r] /\ RowLength(r) <= model.total - Size + 1
         /\ RowLength(r) \in {model.limit[r], model.total - Size + 1}
         /\ Row(r) = [n \in 1 .. RowLength(r) |-> ComputeTime(r, n)]
<1> DEFINE M == {model.limit[r], model.total - Size + 1}
<1>1. model.limit[r] \in Nat \ {0} /\ model.total - Size + 1 \in Nat \ {0}
  BY DEF Known
<1>2. M \subseteq Nat /\ M # {}
  BY <1>1
<1>3. \E x \in M : \A y \in M : x <= y
  BY <1>2, LeastOfSet
<1>4. Row(r) = [n \in 1 .. RowLength(r) |-> ComputeTime(r, n)]
  BY DEF Row, RowLength
<1>5. RowLength(r) = Min(M) /\ model.limit[r] \in M /\ model.total - Size + 1 \in M
  BY DEF RowLength
<1>6. \A x \in M : x \in Nat \ {0}
  BY <1>1
<1>7. Min(M) \in M /\ \A y \in M : Min(M) <= y
  <2> HIDE DEF M
  <2> QED BY <1>3 DEF Min
<1>8. RowLength(r) \in Nat \ {0} /\ RowLength(r) <= model.limit[r] /\ RowLength(r) <= model.total - Size + 1
  <2> HIDE DEF M
  <2> QED BY <1>5, <1>6, <1>7
<1> QED BY <1>4, <1>5, <1>7, <1>8

\* A stage does as many layers in a time as Cap says.
CapIs(r, t) ==
  /\ Cap(r, t) \in 0 .. RowLength(r)
  /\ \A n \in 1 .. RowLength(r) : ComputeTime(r, n) <= t <=> n <= Cap(r, t)

LEMMA CapsAre ==
  ASSUME Known, NEW r \in StageRanks, NEW t \in Nat
  PROVE  CapIs(r, t)
<1> DEFINE k == RowLength(r)
           D == {n \in 1 .. k : ComputeTime(r, n) <= t}
<1>1. k \in Nat \ {0} /\ Row(r) = [n \in 1 .. k |-> ComputeTime(r, n)]
  BY RowIs
<1>2. Cap(r, t) = Cardinality(D)
  <2>1. {n \in DOMAIN Row(r) : Row(r)[n] <= t} = D
    <3> HIDE DEF k
    <3> QED BY <1>1
  <2> QED BY <2>1 DEF Cap
<1> HIDE DEF k
<1>3. \A n \in 1 .. k : n \in Nat /\ ComputeTime(r, n) \in Nat
  BY <1>1, TimeGrows
<1>4. CASE D = {}
  <2>1. Cap(r, t) = 0
    BY <1>2, <1>4, FS_EmptySet
  <2>2. \A n \in 1 .. k : ~(ComputeTime(r, n) <= t)
    BY <1>4
  <2> QED BY <1>1, <2>1, <2>2 DEF CapIs, k
<1>5. CASE D # {}
  <2>1. IsFiniteSet(D)
    <3>1. IsFiniteSet(1 .. k)
      BY <1>1, FS_Interval
    <3> QED BY <3>1, FS_Subset
  <2> DEFINE g == [n \in D |-> n]
  <2>2. Numbers(g, D)
    BY <1>3, <2>1 DEF Numbers
  <2>3. PICK x \in D : \A y \in D : g[y] <= g[x]
    <3> HIDE DEF g, D
    <3> QED BY <1>5, <2>2, LargestOf
  <2>4. \A y \in D : y <= x
    BY <2>3
  <2>5. x \in 1 .. k /\ ComputeTime(r, x) <= t
    OBVIOUS
  <2>6. \A n \in 1 .. k : n \in D <=> n <= x
    <3> TAKE n \in 1 .. k
    <3>1. n \in D => n <= x
      BY <2>4
    <3>2. ASSUME n <= x PROVE n \in D
      <4>1. ComputeTime(r, n) <= ComputeTime(r, x) /\ ComputeTime(r, n) \in Nat /\ ComputeTime(r, x) \in Nat
        BY <1>3, <2>5, <3>2, TimeGrows
      <4>2. ComputeTime(r, n) <= t
        BY <2>5, <4>1
      <4> QED BY <4>2
    <3> QED BY <3>1, <3>2
  <2>7. D = 1 .. x
    <3>1. D \subseteq 1 .. k
      OBVIOUS
    <3> HIDE DEF D
    <3>2. x \in Nat /\ x <= k /\ 1 <= x /\ k \in Nat
      BY <1>1, <2>5
    <3>3. \A n \in 1 .. x : n \in 1 .. k /\ n <= x
      BY <3>2
    <3>4. \A n \in D : n \in 1 .. k /\ n <= x
      BY <2>6, <3>1
    <3>5. \A n \in D : n \in 1 .. x
      BY <3>2, <3>4
    <3>6. \A n \in 1 .. x : n \in D
      BY <2>6, <3>3
    <3> QED BY <3>5, <3>6
  <2>8. Cardinality(D) = x
    <3>1. x \in Nat /\ 1 <= x
      BY <2>5
    <3>2. Cardinality(1 .. x) = x - 1 + 1
      BY <3>1, FS_Interval
    <3> HIDE DEF D
    <3> QED BY <2>7, <3>1, <3>2
  <2>9. \A n \in 1 .. k : ComputeTime(r, n) <= t <=> n <= x
    BY <2>6
  <2>10. Cap(r, t) = x
    <3> HIDE DEF D
    <3> QED BY <1>2, <2>8
  <2>11. x \in 0 .. k
    BY <1>1, <2>5
  <2> HIDE DEF D, g
  <2> QED BY <2>9, <2>10, <2>11 DEF CapIs, k
<1> QED BY <1>4, <1>5

\* The candidates are finitely many numbers.
LEMMA CandidatesAre ==
  ASSUME Known
  PROVE  /\ CandidateTimes \in SUBSET Nat /\ IsFiniteSet(CandidateTimes)
         /\ Cardinality(CandidateTimes) \in Nat \ {0}
         /\ \A r \in StageRanks : \A n \in 1 .. RowLength(r) : ComputeTime(r, n) \in CandidateTimes
<1>1. ASSUME NEW r \in StageRanks
      PROVE  RowLength(r) \in Nat \ {0} /\ RowLength(r) <= model.total
             /\ Row(r) = [n \in 1 .. RowLength(r) |-> ComputeTime(r, n)]
  <2>1. Size \in Nat \ {0} /\ model.total \in Nat
    BY DEF Known
  <2> QED BY <2>1, RowIs
<1>2. \A t : t \in CandidateTimes <=>
               \E r \in StageRanks : \E n \in 1 .. RowLength(r) : t = ComputeTime(r, n)
  <2>1. \A t : t \in CandidateTimes <=> \E r \in StageRanks : t \in {Row(r)[n] : n \in DOMAIN Row(r)}
    BY DEF CandidateTimes
  <2>2. \A r \in StageRanks : {Row(r)[n] : n \in DOMAIN Row(r)} = {ComputeTime(r, n) : n \in 1 .. RowLength(r)}
    BY <1>1
  <2>3. \A t : t \in CandidateTimes <=> \E r \in StageRanks : t \in {ComputeTime(r, n) : n \in 1 .. RowLength(r)}
    BY <2>1, <2>2
  <2> QED BY <2>3
<1> DEFINE g == [r \in StageRanks |-> ComputeTime(r, model.total)]
<1>3. Numbers(g, StageRanks) /\ StageRanks # {}
  <2>1. 1 \in StageRanks
    BY DEF Known, StageRanks, Size
  <2>2. \A r \in StageRanks : ComputeTime(r, model.total) \in Nat
    <3>1. model.total \in Nat
      BY DEF Known
    <3> QED BY <3>1, TimeGrows
  <2> QED BY <2>1, <2>2 DEF Numbers, Known
<1>4. PICK x \in StageRanks : \A y \in StageRanks : g[y] <= g[x]
  <2> HIDE DEF g
  <2> QED BY <1>3, LargestOf
<1> DEFINE most == ComputeTime(x, model.total)
<1>5. most \in Nat /\ \A y \in StageRanks : ComputeTime(y, model.total) \in Nat /\ ComputeTime(y, model.total) <= most
  <2>1. model.total \in Nat
    BY DEF Known
  <2> QED BY <1>4, <2>1, TimeGrows
<1> HIDE DEF most
<1>6. \A t \in CandidateTimes : t \in 0 .. most
  <2> TAKE t \in CandidateTimes
  <2>1. PICK r \in StageRanks : \E n \in 1 .. RowLength(r) : t = ComputeTime(r, n)
    BY <1>2
  <2>2. PICK n \in 1 .. RowLength(r) : t = ComputeTime(r, n)
    BY <2>1
  <2>3. n \in Nat /\ n <= model.total /\ model.total \in Nat
    BY <1>1 DEF Known
  <2>4. t \in Nat /\ t <= ComputeTime(r, model.total)
    BY <2>2, <2>3, TimeGrows
  <2> QED BY <1>5, <2>4
<1>7. IsFiniteSet(CandidateTimes) /\ CandidateTimes \in SUBSET Nat
  <2>1. IsFiniteSet(0 .. most)
    BY <1>5, FS_Interval
  <2> QED BY <1>5, <1>6, <2>1, FS_Subset
<1>8. CandidateTimes # {}
  <2>1. 1 \in StageRanks
    BY DEF Known, StageRanks, Size
  <2>2. 1 \in 1 .. RowLength(1)
    BY <1>1, <2>1
  <2> QED BY <1>2, <2>1, <2>2
<1>9. Cardinality(CandidateTimes) \in Nat \ {0}
  BY <1>7, <1>8, FS_CardinalityType, FS_EmptySet
<1> QED BY <1>2, <1>7, <1>9

\* The candidates in order.
LEMMA CandidatesInOrder ==
  ASSUME Known
  PROVE  /\ \A i \in 1 .. Cardinality(CandidateTimes) :
              /\ NthCandidate(i) \in CandidateTimes /\ NthCandidate(i) \in Nat
              /\ \A j \in 1 .. Cardinality(CandidateTimes) : i <= j => NthCandidate(i) <= NthCandidate(j)
         /\ \A t \in CandidateTimes : \E i \in 1 .. Cardinality(CandidateTimes) : t = NthCandidate(i)
<1> DEFINE T == CandidateTimes
           N == Cardinality(T)
<1>1. T \in SUBSET Nat /\ IsFiniteSet(T) /\ N \in Nat
  BY CandidatesAre
<1> HIDE DEF T
<1>2. \A t \in T : RankIn(T, t) \in 1 .. N /\ t \in Nat
  BY <1>1, RanksGrow
<1>3. \A t \in T : \A u \in T : t < u => RankIn(T, t) < RankIn(T, u)
  BY <1>1, RanksGrow
<1>4. ASSUME NEW i \in 1 .. N PROVE NthCandidate(i) \in T /\ RankIn(T, NthCandidate(i)) = i
  <2>1. \E t \in T : RankIn(T, t) = i
    BY <1>1, RanksAreTaken
  <2>2. NthCandidate(i) = CHOOSE t \in T : RankIn(T, t) = i
    BY DEF NthCandidate, RankIn, T
  <2> QED BY <2>1, <2>2
<1>5. ASSUME NEW i \in 1 .. N, NEW j \in 1 .. N, i <= j PROVE NthCandidate(i) <= NthCandidate(j)
  <2>1. /\ NthCandidate(i) \in T /\ RankIn(T, NthCandidate(i)) = i
        /\ NthCandidate(j) \in T /\ RankIn(T, NthCandidate(j)) = j
    BY <1>4
  <2>2. ~(NthCandidate(j) < NthCandidate(i))
    <3>1. ~(j < i)
      BY <1>1, <1>5
    <3> QED BY <1>3, <2>1, <3>1
  <2> QED BY <1>2, <2>1, <2>2
<1>6. ASSUME NEW t \in T PROVE \E i \in 1 .. N : t = NthCandidate(i)
  <2>1. PICK i \in 1 .. N : i = RankIn(T, t)
    BY <1>2
  <2>2. NthCandidate(i) \in T /\ RankIn(T, NthCandidate(i)) = i
    BY <1>4
  <2>3. ~(t < NthCandidate(i)) /\ ~(NthCandidate(i) < t)
    <3>1. i \in Nat /\ ~(i < i)
      BY <1>1
    <3> QED BY <1>3, <2>1, <2>2, <3>1
  <2>4. t = NthCandidate(i)
    BY <1>2, <2>2, <2>3
  <2> QED BY <2>4
<1>7. \A i \in 1 .. N : NthCandidate(i) \in T /\ NthCandidate(i) \in Nat
  BY <1>2, <1>4
<1> QED BY <1>5, <1>6, <1>7 DEF T

\* Layers in a time, of all stages.
Caps(t) == [r \in StageRanks |-> Cap(r, t)]

LEMMA CapsAreNumbers ==
  ASSUME Known, NEW t \in Nat
  PROVE  /\ Numbers(Caps(t), StageRanks)
         /\ \A r \in StageRanks : Caps(t)[r] = Cap(r, t) /\ Cap(r, t) \in Nat /\ Cap(r, t) <= RowLength(r)
         /\ Enough(t) <=> (\A r \in StageRanks : Cap(r, t) > 0) /\ Amount(Caps(t), StageRanks) >= model.total
<1>1. ASSUME NEW r \in StageRanks
      PROVE  Caps(t)[r] = Cap(r, t) /\ Cap(r, t) \in Nat /\ Cap(r, t) <= RowLength(r)
  <2>1. CapIs(r, t) /\ RowLength(r) \in Nat
    BY CapsAre, RowIs
  <2> QED BY <2>1 DEF CapIs, Caps
<1>2. Numbers(Caps(t), StageRanks)
  BY <1>1 DEF Numbers, Known
<1>3. SumFunction([r \in StageRanks |-> Cap(r, t)]) = Amount(Caps(t), StageRanks)
  BY DEF SumFunction, Amount, Caps
<1> QED BY <1>1, <1>2, <1>3 DEF Enough

\* More time is enough too.
LEMMA EnoughGrows ==
  ASSUME Known, NEW t \in Nat, NEW u \in Nat, t <= u, Enough(t)
  PROVE  Enough(u)
<1>1. ASSUME NEW r \in StageRanks PROVE Cap(r, t) <= Cap(r, u) /\ Cap(r, u) > 0
  <2>1. CapIs(r, t) /\ CapIs(r, u) /\ Cap(r, t) > 0 /\ Cap(r, t) \in Nat /\ Cap(r, u) \in Nat
    BY CapsAre, CapsAreNumbers
  <2>2. Cap(r, t) \in 1 .. RowLength(r) /\ RowLength(r) \in Nat
    BY <2>1, RowIs DEF CapIs
  <2>3. ComputeTime(r, Cap(r, t)) <= t
    <3>1. Cap(r, t) <= Cap(r, t)
      BY <2>1
    <3> QED BY <2>1, <2>2, <3>1 DEF CapIs
  <2>4. ComputeTime(r, Cap(r, t)) \in Nat
    BY <2>1, TimeGrows
  <2>5. ComputeTime(r, Cap(r, t)) <= u
    BY <2>3, <2>4
  <2>6. Cap(r, t) <= Cap(r, u)
    BY <2>1, <2>2, <2>5 DEF CapIs
  <2> QED BY <2>1, <2>6
<1>2. Amount(Caps(t), StageRanks) <= Amount(Caps(u), StageRanks)
  BY <1>1, CapsAreNumbers, AmountGrows
<1>3. Amount(Caps(t), StageRanks) >= model.total
  BY CapsAreNumbers
<1>4. Amount(Caps(t), StageRanks) \in Nat /\ Amount(Caps(u), StageRanks) \in Nat /\ model.total \in Nat
  BY CapsAreNumbers, AmountIsNumber DEF Known
<1>5. Amount(Caps(u), StageRanks) >= model.total
  BY <1>2, <1>3, <1>4
<1> QED BY <1>1, <1>5, CapsAreNumbers

\* What is left for the other stages.
LEMMA OthersTakeOne ==
  ASSUME Known, NEW n, Numbers(n, StageRanks), \A r \in StageRanks : n[r] >= 1, NEW r \in StageRanks
  PROVE  Amount(n, StageRanks) >= n[r] + (Size - 1)
<1> DEFINE U == StageRanks \ {r}
<1>1. Amount(n, StageRanks) = n[r] + Amount(n, U) /\ n[r] \in Nat /\ Amount(n, U) \in Nat
  BY AmountWithout
<1>2. Cardinality(U) = Size - 1
  BY FS_RemoveElement DEF Known
<1>3. U \in SUBSET StageRanks
  OBVIOUS
<1> HIDE DEF U
<1>4. Numbers(n, U)
  BY <1>3, AmountIsNumber
<1>5. Alike(n, U, U, SumFunctionOnSet(n, U))
  BY <1>4, SumFits DEF Numbers
<1>6. Amount(n, U) >= Size - 1
  BY <1>2, <1>3, <1>5 DEF Alike, Amount
<1>7. Size \in Nat \ {0}
  BY DEF Known
<1> QED BY <1>1, <1>6, <1>7

\* The bottleneck of a possible allocation is a candidate with enough layers.
LEMMA PossibleIsEnough ==
  ASSUME Known, model.scheme = "static", NEW n \in Possible
  PROVE  /\ Bottleneck(n) \in CandidateTimes /\ Bottleneck(n) \in Nat /\ Enough(Bottleneck(n))
         /\ \A r \in StageRanks : n[r] <= Cap(r, Bottleneck(n))
<1>1. /\ n \in [StageRanks -> Nat] /\ Given(n) = model.total
      /\ \A r \in StageRanks : n[r] >= 1 /\ n[r] <= model.limit[r]
  BY PossibleAre
<1>2. Numbers(n, StageRanks)
  BY <1>1 DEF Known, Numbers
<1>3. ASSUME NEW r \in StageRanks PROVE n[r] \in 1 .. RowLength(r)
  <2>1. Amount(n, StageRanks) >= n[r] + (Size - 1)
    BY <1>1, <1>2, OthersTakeOne
  <2>2. n[r] \in Nat /\ n[r] >= 1 /\ n[r] <= model.limit[r] /\ Size \in Nat /\ model.total \in Nat
    BY <1>1 DEF Known
  <2>3. n[r] <= model.total - Size + 1
    BY <1>1, <2>1, <2>2 DEF Given, Amount
  <2>4. RowLength(r) \in Nat /\ (RowLength(r) = model.limit[r] \/ RowLength(r) = model.total - Size + 1)
    BY RowIs
  <2> QED BY <2>2, <2>3, <2>4
<1>4. Slowest(n)
  BY <1>1, BottleneckIsSlowest
<1> DEFINE b == Bottleneck(n)
<1>5. b \in Nat /\ \A r \in StageRanks : ComputeTime(r, n[r]) <= b
  BY <1>4 DEF Slowest
<1>6. b \in CandidateTimes
  <2>1. PICK r \in StageRanks : b = ComputeTime(r, n[r])
    BY <1>4 DEF Slowest
  <2> QED BY <1>3, <2>1, CandidatesAre
<1> HIDE DEF b
<1>7. \A r \in StageRanks : n[r] <= Cap(r, b)
  <2> TAKE r \in StageRanks
  <2>1. CapIs(r, b)
    BY <1>5, CapsAre
  <2> QED BY <1>3, <1>5, <2>1 DEF CapIs
<1>8. Enough(b)
  <2>1. \A r \in StageRanks : Cap(r, b) > 0 /\ n[r] <= Caps(b)[r]
    <3> TAKE r \in StageRanks
    <3>1. Cap(r, b) \in Nat /\ Caps(b)[r] = Cap(r, b)
      BY <1>5, CapsAreNumbers
    <3> QED BY <1>1, <1>7, <3>1
  <2>2. Amount(n, StageRanks) <= Amount(Caps(b), StageRanks)
    BY <1>2, <1>5, <2>1, CapsAreNumbers, AmountGrows
  <2>3. Amount(n, StageRanks) = model.total
    BY <1>1 DEF Given, Amount
  <2>4. Amount(Caps(b), StageRanks) \in Nat /\ model.total \in Nat
    BY <1>5, CapsAreNumbers, AmountIsNumber DEF Known
  <2>5. Amount(Caps(b), StageRanks) >= model.total
    BY <2>2, <2>3, <2>4
  <2> QED BY <1>5, <2>1, <2>5, CapsAreNumbers
<1> QED BY <1>5, <1>6, <1>7, <1>8 DEF b

\* What the binary search keeps: the upper end is enough, nothing below the
\* lower end is.
StaticOk(l, h) ==
  /\ l \in 1 .. Cardinality(CandidateTimes) /\ h \in 1 .. Cardinality(CandidateTimes) /\ l <= h
  /\ Enough(NthCandidate(h))
  /\ \A i \in 1 .. Cardinality(CandidateTimes) : i < l => ~Enough(NthCandidate(i))

LEMMA StaticBegins ==
  ASSUME Known, model.scheme = "static"
  PROVE  IF SumFunctionOnSet(model.limit, StageRanks) >= model.total
         THEN StaticOk(1, Cardinality(CandidateTimes)) ELSE Possible = {}
<1> DEFINE N == Cardinality(CandidateTimes)
           last == NthCandidate(N)
<1>1. N \in Nat \ {0} /\ N \in 1 .. N
  BY CandidatesAre
<1>2. last \in Nat /\ \A t \in CandidateTimes : t <= last
  <2>1. last \in Nat
    BY <1>1, CandidatesInOrder
  <2>2. ASSUME NEW t \in CandidateTimes PROVE t <= last
    <3>1. PICK i \in 1 .. N : t = NthCandidate(i)
      BY CandidatesInOrder
    <3>2. i <= N
      BY <1>1
    <3> QED BY <1>1, <3>1, <3>2, CandidatesInOrder
  <2> QED BY <2>1, <2>2
<1>3. Numbers(model.limit, StageRanks) /\ model.total \in Nat /\ Amount(model.limit, StageRanks) \in Nat
  <2>1. Numbers(model.limit, StageRanks) /\ model.total \in Nat
    BY DEF Known, Numbers
  <2> QED BY <2>1, AmountIsNumber
<1> HIDE DEF N, last
<1>4. ASSUME NEW r \in StageRanks
      PROVE  Cap(r, last) = RowLength(r) /\ Caps(last)[r] = RowLength(r) /\ RowLength(r) >= 1
  <2>1. CapIs(r, last) /\ RowLength(r) \in Nat \ {0}
    BY <1>2, CapsAre, RowIs
  <2>2. RowLength(r) \in 1 .. RowLength(r)
    BY <2>1
  <2>3. ComputeTime(r, RowLength(r)) <= last
    BY <1>2, <2>2, CandidatesAre
  <2>4. RowLength(r) <= Cap(r, last)
    BY <2>1, <2>2, <2>3 DEF CapIs
  <2>5. Cap(r, last) = RowLength(r)
    BY <2>1, <2>4 DEF CapIs
  <2> QED BY <1>2, <2>1, <2>5, CapsAreNumbers
<1>5. Numbers(Caps(last), StageRanks) /\ Amount(Caps(last), StageRanks) \in Nat
  BY <1>2, CapsAreNumbers, AmountIsNumber
<1>6. CASE Amount(model.limit, StageRanks) >= model.total
  <2>1. Amount(Caps(last), StageRanks) >= model.total
    <3>1. CASE \E r \in StageRanks : RowLength(r) = model.total - Size + 1
      <4>1. PICK r \in StageRanks : RowLength(r) = model.total - Size + 1
        BY <3>1
      <4>2. \A q \in StageRanks : Caps(last)[q] >= 1
        BY <1>4
      <4>3. Amount(Caps(last), StageRanks) >= Caps(last)[r] + (Size - 1)
        BY <1>5, <4>2, OthersTakeOne
      <4>4. Size \in Nat /\ Caps(last)[r] = model.total - Size + 1
        BY <1>4, <4>1 DEF Known
      <4> QED BY <1>3, <1>5, <4>3, <4>4
    <3>2. CASE ~\E r \in StageRanks : RowLength(r) = model.total - Size + 1
      <4>1. \A r \in StageRanks : model.limit[r] = Caps(last)[r]
        BY <1>4, <3>2, RowIs
      <4>2. Amount(model.limit, StageRanks) = Amount(Caps(last), StageRanks)
        BY <1>3, <4>1, AmountSame
      <4> QED BY <1>6, <4>2
    <3> QED BY <3>1, <3>2
  <2>2. \A r \in StageRanks : Cap(r, last) > 0
    <3> TAKE r \in StageRanks
    <3>1. Cap(r, last) = RowLength(r) /\ RowLength(r) \in Nat \ {0}
      BY <1>4, RowIs
    <3> QED BY <3>1
  <2>3. Enough(last)
    BY <1>2, <2>1, <2>2, CapsAreNumbers
  <2>4. 1 \in 1 .. N /\ 1 <= N /\ \A i \in 1 .. N : ~(i < 1)
    BY <1>1
  <2>5. StaticOk(1, N)
    BY <1>1, <2>3, <2>4 DEF StaticOk, N, last
  <2> QED BY <1>6, <2>5 DEF Amount, N
<1>7. CASE ~(Amount(model.limit, StageRanks) >= model.total)
  <2>1. ASSUME NEW n \in Possible PROVE FALSE
    <3>1. /\ n \in [StageRanks -> Nat] /\ Given(n) = model.total
          /\ \A r \in StageRanks : n[r] <= model.limit[r]
      BY PossibleAre
    <3>2. Numbers(n, StageRanks)
      BY <3>1 DEF Known, Numbers
    <3>3. Amount(n, StageRanks) <= Amount(model.limit, StageRanks)
      BY <1>3, <3>1, <3>2, AmountGrows
    <3> QED BY <1>3, <1>7, <3>1, <3>3 DEF Given, Amount
  <2>2. Possible = {}
    BY <2>1
  <2> QED BY <1>7, <2>2 DEF Amount
<1> QED BY <1>6, <1>7

LEMMA StaticGoesOn ==
  ASSUME Known, NEW l, NEW h, StaticOk(l, h), l < h
  PROVE  LET mid == (l + h) \div 2
         IN  IF Enough(NthCandidate(mid)) THEN StaticOk(l, mid) ELSE StaticOk(mid + 1, h)
<1> DEFINE N == Cardinality(CandidateTimes)
           mid == (l + h) \div 2
<1>1. N \in Nat /\ l \in 1 .. N /\ h \in 1 .. N
  BY CandidatesAre DEF StaticOk
<1>2. mid \in 1 .. N /\ l <= mid /\ mid < h
  <2>1. l \in Nat /\ h \in Nat /\ l < h /\ 1 <= l /\ h <= N
    BY <1>1
  <2> HIDE DEF N
  <2> QED BY <1>1, <2>1
<1> HIDE DEF mid, N
<1>3. CASE Enough(NthCandidate(mid))
  <2>1. StaticOk(l, mid)
    BY <1>1, <1>2, <1>3 DEF StaticOk, N
  <2> QED BY <1>3, <2>1 DEF mid
<1>4. CASE ~Enough(NthCandidate(mid))
  <2>1. ASSUME NEW i \in 1 .. N, i < mid + 1 PROVE ~Enough(NthCandidate(i))
    <3>1. i <= mid
      BY <1>1, <1>2, <2>1
    <3>2. NthCandidate(i) \in Nat /\ NthCandidate(mid) \in Nat /\ NthCandidate(i) <= NthCandidate(mid)
      BY <1>2, <3>1, CandidatesInOrder DEF N
    <3> QED BY <1>4, <3>2, EnoughGrows
  <2>2. mid + 1 \in 1 .. N /\ mid + 1 <= h
    BY <1>1, <1>2
  <2>3. StaticOk(mid + 1, h)
    BY <1>1, <2>1, <2>2 DEF StaticOk, N
  <2> QED BY <1>4, <2>3 DEF mid
<1> QED BY <1>3, <1>4

\* The layers the stages after r can do in a time, and what r takes of the rest.
After(r, t) == Amount(Caps(t), r + 1 .. Size)
CountOf(x, r, t) == Max({1, x - After(r, t)})
LeftRuns(f, t, n) ==
  f = [r \in 0 .. n |-> IF r = 0 THEN model.total ELSE f[r - 1] - CountOf(f[r - 1], r, t)]

LEMMA LeftExists ==
  ASSUME NEW t, NEW n \in Nat
  PROVE  \E f : LeftRuns(f, t, n)
<1> DEFINE Bad == {m \in Nat : ~\E f : LeftRuns(f, t, m)}
<1>1. SUFFICES ASSUME Bad # {} PROVE FALSE
  OBVIOUS
<1>2. PICK m \in Bad : \A k \in Bad : m <= k
  BY <1>1, LeastOfSet
<1>3. m \in Nat /\ ~\E f : LeftRuns(f, t, m)
  OBVIOUS
<1>4. CASE m = 0
  <2> DEFINE g == [k \in 0 .. 0 |-> model.total]
  <2>1. LeftRuns(g, t, 0)
    BY DEF LeftRuns
  <2> QED BY <2>1, <1>3, <1>4
<1>5. CASE m # 0
  <2>1. m - 1 \in Nat /\ m - 1 \notin Bad
    BY <1>2, <1>3, <1>5
  <2>2. PICK f : LeftRuns(f, t, m - 1)
    BY <2>1
  <2>3. \A r \in 0 .. m - 1 : f[r] = IF r = 0 THEN model.total ELSE f[r - 1] - CountOf(f[r - 1], r, t)
    BY <2>2 DEF LeftRuns
  <2> DEFINE last == f[m - 1] - CountOf(f[m - 1], m, t)
             g == [r \in 0 .. m |-> IF r = m THEN last ELSE f[r]]
  <2>4. ASSUME NEW r \in 0 .. m
        PROVE  g[r] = IF r = 0 THEN model.total ELSE g[r - 1] - CountOf(g[r - 1], r, t)
    <3>1. CASE r = m
      <4>1. g[r] = last /\ g[r - 1] = f[m - 1]
        BY <3>1, <1>3, <1>5
      <4> HIDE DEF g
      <4> QED BY <3>1, <4>1, <1>5
    <3>2. CASE r # m /\ r # 0
      <4>1. g[r] = f[r] /\ g[r - 1] = f[r - 1] /\ r \in 0 .. m - 1
        BY <3>2, <1>3
      <4> HIDE DEF g, last
      <4> QED BY <3>2, <4>1, <2>3
    <3>3. CASE r = 0
      <4>1. g[r] = f[r] /\ r \in 0 .. m - 1
        BY <3>3, <1>3, <1>5
      <4> HIDE DEF g, last
      <4> QED BY <3>3, <4>1, <2>3
    <3> QED BY <3>1, <3>2, <3>3
  <2> HIDE DEF last
  <2>5. LeftRuns(g, t, m)
    <3>1. g = [r \in 0 .. m |-> g[r]]
      OBVIOUS
    <3> HIDE DEF g
    <3> QED BY <2>4, <3>1 DEF LeftRuns
  <2> QED BY <2>5, <1>3
<1> QED BY <1>4, <1>5

LEMMA SmallestIs ==
  ASSUME Known, NEW t
  PROVE  \E f : LeftRuns(f, t, Size) /\ Smallest(t) = [r \in StageRanks |-> CountOf(f[r - 1], r, t)]
<1>1. Size \in Nat
  BY DEF Known
<1> DEFINE f == CHOOSE x : LeftRuns(x, t, Size)
<1>2. LeftRuns(f, t, Size)
  BY <1>1, LeftExists
<1>3. Smallest(t) = [r \in StageRanks |-> CountOf(f[r - 1], r, t)]
  BY DEF Smallest, LeftRuns, CountOf, After, Caps, Amount
<1> QED BY <1>2, <1>3

\* A sum over the stages, taken apart at a rank.
Apart(g, r) ==
  /\ Amount(g, 1 .. r - 1) \in Nat /\ g[r] \in Nat /\ Amount(g, r + 1 .. Size) \in Nat
  /\ Amount(g, 1 .. r) = Amount(g, 1 .. r - 1) + g[r]
  /\ Amount(g, r .. Size) = g[r] + Amount(g, r + 1 .. Size)
  /\ Amount(g, StageRanks) = Amount(g, 1 .. r) + Amount(g, r + 1 .. Size)

LEMMA SumsComeApart ==
  ASSUME Known, NEW g, Numbers(g, StageRanks), NEW r \in StageRanks
  PROVE  Apart(g, r)
<1> DEFINE A == 1 .. r - 1
           B == r + 1 .. Size
           C == 1 .. r
           D == r .. Size
<1>1. Size \in Nat /\ r \in 1 .. Size /\ StageRanks = 1 .. Size
  BY DEF Known, StageRanks, Size
<1>2. /\ A \in SUBSET StageRanks /\ B \in SUBSET StageRanks /\ r \in StageRanks \ A /\ r \in StageRanks \ B
      /\ C = A \cup {r} /\ D = B \cup {r} /\ C \in SUBSET StageRanks /\ C \cap B = {} /\ C \cup B = StageRanks
  BY <1>1
<1> HIDE DEF A, B, C, D
<1>3. Adds(g, A, r) /\ Adds(g, B, r)
  BY <1>2, AmountWith
<1>4. Amount(g, StageRanks) = Amount(g, C) + Amount(g, B)
  BY <1>2, AmountJoins
<1>5. Amount(g, C) = Amount(g, A) + g[r] /\ Amount(g, D) = g[r] + Amount(g, B)
  BY <1>2, <1>3 DEF Adds
<1> QED BY <1>3, <1>4, <1>5 DEF Apart, Adds, A, B, C, D

LEMMA CountIs ==
  ASSUME NEW x \in Int, NEW r, NEW t, After(r, t) \in Nat
  PROVE  CountOf(x, r, t) = IF x - After(r, t) > 1 THEN x - After(r, t) ELSE 1
<1> DEFINE y == x - After(r, t)
           M == {1, y}
<1>1. y \in Int
  OBVIOUS
<1> HIDE DEF y
<1>2. \E z \in M : \A w \in M : z >= w
  BY <1>1
<1>3. Max(M) \in M /\ \A w \in M : Max(M) >= w
  <2> HIDE DEF M
  <2> QED BY <1>2 DEF Max
<1>4. Max(M) = IF y > 1 THEN y ELSE 1
  BY <1>1, <1>3
<1>5. CountOf(x, r, t) = Max(M)
  BY DEF CountOf, y
<1> HIDE DEF M
<1> QED BY <1>4, <1>5 DEF y

\* What is left before and after each rank.
LeftOk(f, t, r) == f[r] \in Nat /\ f[r] >= Size - r /\ f[r] <= After(r, t)

LEMMA AfterIs ==
  ASSUME Known, NEW t \in Nat, Enough(t), NEW r \in 0 .. Size
  PROVE  /\ After(r, t) \in Nat /\ After(r, t) >= Size - r
         /\ r = 0 => After(r, t) >= model.total
         /\ r = Size => After(r, t) = 0
         /\ r # 0 => After(r - 1, t) = Cap(r, t) + After(r, t) /\ Cap(r, t) \in Nat /\ Cap(r, t) >= 1
<1> DEFINE U == r + 1 .. Size
<1>1. Size \in Nat /\ r \in Nat /\ r <= Size /\ StageRanks = 1 .. Size
  BY DEF Known, StageRanks, Size
<1>2. U \in SUBSET StageRanks /\ (r = 0 => U = StageRanks) /\ (r = Size => U = {})
  BY <1>1
<1>3. Cardinality(U) = Size - r
  <2>1. r + 1 \in Int /\ Size \in Int
    BY <1>1
  <2>2. Cardinality(r + 1 .. Size) = IF r + 1 > Size THEN 0 ELSE Size - (r + 1) + 1
    BY <2>1, FS_Interval
  <2> QED BY <1>1, <2>2
<1>4. Numbers(Caps(t), StageRanks) /\ \A q \in StageRanks : Caps(t)[q] = Cap(q, t) /\ Cap(q, t) \in Nat
  BY CapsAreNumbers
<1>5. (\A q \in StageRanks : Cap(q, t) > 0) /\ Amount(Caps(t), StageRanks) >= model.total
  BY CapsAreNumbers
<1> HIDE DEF U
<1>6. Numbers(Caps(t), U) /\ \A q \in U : Caps(t)[q] >= 1
  <2>1. Numbers(Caps(t), U)
    BY <1>2, <1>4, AmountIsNumber
  <2>2. ASSUME NEW q \in U PROVE Caps(t)[q] >= 1
    <3>1. q \in StageRanks
      BY <1>2
    <3> QED BY <3>1, <1>4, <1>5
  <2> QED BY <2>1, <2>2
<1>7. Alike(Caps(t), U, U, SumFunctionOnSet(Caps(t), U))
  BY <1>6, SumFits DEF Numbers
<1>8. After(r, t) = Amount(Caps(t), U)
  BY DEF After, U
<1>9. After(r, t) \in Nat /\ After(r, t) >= Size - r
  BY <1>3, <1>6, <1>7, <1>8 DEF Alike, Amount
<1>10. ASSUME r # 0
       PROVE  After(r - 1, t) = Cap(r, t) + After(r, t) /\ Cap(r, t) \in Nat /\ Cap(r, t) >= 1
  <2>1. r \in StageRanks /\ (r - 1) + 1 = r
    BY <1>1, <1>10
  <2>2. Apart(Caps(t), r)
    BY <1>4, <2>1, SumsComeApart
  <2>3. After(r - 1, t) = Amount(Caps(t), r .. Size)
    BY <2>1 DEF After
  <2> QED BY <1>4, <1>5, <2>1, <2>2, <2>3 DEF Apart, After
<1> QED BY <1>2, <1>5, <1>8, <1>9, <1>10, AmountOfNone

\* What Smallest gives: a possible allocation, and none is smaller.
LEMMA SmallestFits ==
  ASSUME Known, NEW t \in Nat, Enough(t), NEW f, LeftRuns(f, t, Size)
  PROVE  /\ \A r \in 0 .. Size : LeftOk(f, t, r)
         /\ \A r \in StageRanks : /\ CountOf(f[r - 1], r, t) \in 1 .. Cap(r, t)
                                  /\ f[r] = f[r - 1] - CountOf(f[r - 1], r, t)
<1>1. Size \in Nat \ {0} /\ StageRanks = 1 .. Size /\ model.total \in Nat /\ model.total >= Size
  BY DEF Known, StageRanks, Size
<1>2. \A r \in 0 .. Size : f[r] = IF r = 0 THEN model.total ELSE f[r - 1] - CountOf(f[r - 1], r, t)
  BY DEF LeftRuns
<1>3. LeftOk(f, t, 0)
  <2>1. 0 \in 0 .. Size
    BY <1>1
  <2>2. f[0] = model.total
    BY <1>2, <2>1
  <2>3. After(0, t) \in Nat /\ After(0, t) >= model.total
    BY <2>1, AfterIs
  <2> QED BY <1>1, <2>2, <2>3 DEF LeftOk
<1>4. ASSUME NEW r \in StageRanks, LeftOk(f, t, r - 1)
      PROVE  LeftOk(f, t, r) /\ CountOf(f[r - 1], r, t) \in 1 .. Cap(r, t)
  <2> DEFINE x == f[r - 1]
             y == CountOf(x, r, t)
             a == After(r, t)
             c == Cap(r, t)
  <2>1. r \in 1 .. Size /\ r \in 0 .. Size /\ r # 0
    BY <1>1
  <2>2. x \in Nat /\ x >= Size - (r - 1) /\ x <= After(r - 1, t)
    BY <1>4 DEF LeftOk
  <2>3. a \in Nat /\ a >= Size - r /\ After(r - 1, t) = c + a /\ c \in Nat /\ c >= 1
    BY <2>1, AfterIs
  <2>4. y = IF x - a > 1 THEN x - a ELSE 1
    <3>1. x \in Int
      BY <2>2
    <3> HIDE DEF x
    <3> QED BY <2>3, <3>1, CountIs
  <2>5. f[r] = x - y
    BY <1>2, <2>1
  <2> HIDE DEF x, y, a, c
  <2>6. y \in 1 .. c
    BY <2>2, <2>3, <2>4
  <2>7. f[r] \in Nat /\ f[r] >= Size - r /\ f[r] <= a
    BY <1>1, <2>1, <2>2, <2>3, <2>4, <2>5
  <2> QED BY <2>6, <2>7 DEF LeftOk, x, y, a, c
<1>5. ASSUME NEW r \in 0 .. Size PROVE LeftOk(f, t, r)
  <2> DEFINE Bad == {k \in 0 .. Size : ~LeftOk(f, t, k)}
  <2>1. SUFFICES ASSUME Bad # {} PROVE FALSE
    OBVIOUS
  <2>2. Bad \subseteq Nat
    OBVIOUS
  <2>3. PICK k \in Bad : \A l \in Bad : k <= l
    BY <2>1, <2>2, LeastOfSet
  <2>4. k \in 0 .. Size /\ ~LeftOk(f, t, k) /\ k # 0
    BY <1>3, <2>3
  <2>5. k - 1 \in 0 .. Size /\ k - 1 \notin Bad /\ k \in StageRanks
    BY <1>1, <2>3, <2>4
  <2> QED BY <1>4, <2>4, <2>5
<1>6. ASSUME NEW r \in StageRanks
      PROVE  /\ CountOf(f[r - 1], r, t) \in 1 .. Cap(r, t)
             /\ f[r] = f[r - 1] - CountOf(f[r - 1], r, t)
  <2>1. r - 1 \in 0 .. Size /\ r \in 0 .. Size /\ r # 0
    BY <1>1
  <2> QED BY <1>2, <1>4, <1>5, <2>1
<1> QED BY <1>5, <1>6

\* Ranks up to r have what is no longer left.
LEMMA GivenSoFar ==
  ASSUME Known, NEW t \in Nat, Enough(t), NEW f, LeftRuns(f, t, Size),
         NEW s \in [StageRanks -> Nat], \A q \in StageRanks : s[q] = CountOf(f[q - 1], q, t),
         NEW r \in 0 .. Size
  PROVE  Amount(s, 1 .. r) = model.total - f[r]
<1> DEFINE Bad == {k \in 0 .. Size : ~(Amount(s, 1 .. k) = model.total - f[k])}
<1>1. SUFFICES ASSUME Bad # {} PROVE FALSE
  OBVIOUS
<1>2. Bad \subseteq Nat
  OBVIOUS
<1>3. PICK k \in Bad : \A l \in Bad : k <= l
  BY <1>1, <1>2, LeastOfSet
<1>4. k \in 0 .. Size /\ ~(Amount(s, 1 .. k) = model.total - f[k])
  BY <1>3
<1>5. Size \in Nat \ {0} /\ StageRanks = 1 .. Size /\ model.total \in Nat
  BY DEF Known, StageRanks, Size
<1>6. CASE k = 0
  <2>1. 1 .. 0 = {} /\ 0 \in 0 .. Size
    BY <1>5
  <2>2. f[0] = model.total
    BY <2>1 DEF LeftRuns
  <2>3. Amount(s, 1 .. 0) = 0
    BY <2>1, AmountOfNone
  <2> QED BY <1>4, <1>5, <1>6, <2>2, <2>3
<1>7. CASE k # 0
  <2>1. k - 1 \in 0 .. Size /\ k - 1 \notin Bad /\ k \in StageRanks
    BY <1>3, <1>4, <1>5, <1>7
  <2>2. Amount(s, 1 .. k - 1) = model.total - f[k - 1]
    BY <2>1
  <2>3. Numbers(s, StageRanks)
    BY DEF Known, Numbers
  <2>4. Amount(s, 1 .. k) = Amount(s, 1 .. k - 1) + s[k] /\ s[k] \in Nat
    BY <2>1, <2>3, SumsComeApart DEF Apart
  <2>5. f[k] = f[k - 1] - s[k]
    BY <2>1, SmallestFits
  <2>6. f[k - 1] \in Nat
    BY <2>1, SmallestFits DEF LeftOk
  <2> QED BY <1>4, <1>5, <2>2, <2>4, <2>5, <2>6
<1> QED BY <1>6, <1>7

LEMMA SmallestIsSmallest ==
  ASSUME Known, NEW t \in Nat, Enough(t)
  PROVE  /\ Smallest(t) \in [StageRanks -> Nat] /\ Given(Smallest(t)) = model.total
         /\ \A r \in StageRanks : Smallest(t)[r] \in 1 .. Cap(r, t)
         /\ \A n \in Possible : (\A r \in StageRanks : n[r] <= Cap(r, t)) => ~Smaller(n, Smallest(t))
<1> DEFINE s == Smallest(t)
<1>1. Size \in Nat \ {0} /\ StageRanks = 1 .. Size /\ model.total \in Nat
  BY DEF Known, StageRanks, Size
<1>2. PICK f : LeftRuns(f, t, Size) /\ Smallest(t) = [r \in StageRanks |-> CountOf(f[r - 1], r, t)]
  BY SmallestIs
<1>3. \A r \in StageRanks : s[r] = CountOf(f[r - 1], r, t)
  BY <1>2
<1>4. \A r \in StageRanks : s[r] \in 1 .. Cap(r, t)
  BY <1>2, <1>3, SmallestFits
<1>5. s \in [StageRanks -> Nat]
  <2>1. \A r \in StageRanks : s[r] \in Nat
    BY <1>4
  <2> QED BY <1>2, <2>1
<1> HIDE DEF s
<1>6. \A r \in 0 .. Size : Amount(s, 1 .. r) = model.total - f[r]
  BY <1>2, <1>3, <1>5, GivenSoFar
<1>7. Given(s) = model.total
  <2>1. Size \in 0 .. Size
    BY <1>1
  <2>2. f[Size] = 0
    <3>1. LeftOk(f, t, Size) /\ After(Size, t) = 0
      BY <1>2, <2>1, SmallestFits, AfterIs
    <3> QED BY <3>1 DEF LeftOk
  <2>3. Amount(s, 1 .. Size) = model.total - f[Size]
    BY <1>6, <2>1
  <2> QED BY <1>1, <2>2, <2>3 DEF Given, Amount
<1>8. ASSUME NEW n \in Possible, \A r \in StageRanks : n[r] <= Cap(r, t), Smaller(n, s)
      PROVE  FALSE
  <2>1. n \in [StageRanks -> Nat] /\ Given(n) = model.total /\ \A r \in StageRanks : n[r] >= 1
    BY PossibleAre
  <2>2. PICK r \in StageRanks : n[r] < s[r] /\ \A q \in 1 .. r - 1 : n[q] = s[q]
    BY <1>8 DEF Smaller
  <2>3. Numbers(n, StageRanks) /\ Numbers(s, StageRanks) /\ Numbers(Caps(t), StageRanks)
    BY <1>5, <2>1, CapsAreNumbers DEF Known, Numbers
  <2>4. r \in 0 .. Size /\ r - 1 \in 0 .. Size /\ 1 .. r - 1 \in SUBSET StageRanks /\ r + 1 .. Size \in SUBSET StageRanks
    BY <1>1
  <2>5. Amount(n, 1 .. r - 1) = Amount(s, 1 .. r - 1)
    <3>1. Numbers(n, 1 .. r - 1)
      BY <2>3, <2>4, AmountIsNumber
    <3> QED BY <2>2, <3>1, AmountSame
  <2>6. Amount(n, r + 1 .. Size) <= After(r, t)
    <3> DEFINE U == r + 1 .. Size
    <3>1. U \in SUBSET StageRanks
      BY <2>4
    <3> HIDE DEF U
    <3>2. Numbers(n, U) /\ Numbers(Caps(t), U)
      BY <2>3, <3>1, AmountIsNumber
    <3>3. \A q \in U : n[q] <= Caps(t)[q]
      <4> TAKE q \in U
      <4>1. q \in StageRanks
        BY <3>1
      <4> QED BY <1>8, <4>1, CapsAreNumbers
    <3>4. Amount(n, U) <= Amount(Caps(t), U)
      BY <3>2, <3>3, AmountGrows
    <3> QED BY <3>4 DEF After, U
  <2>7. Apart(n, r) /\ After(r, t) \in Nat
    BY <2>3, <2>4, SumsComeApart, AfterIs
  <2>8. f[r - 1] \in Nat /\ s[r] \in Nat
    BY <1>2, <1>5, <2>4, SmallestFits DEF LeftOk
  <2>9. s[r] = f[r - 1] - After(r, t)
    <3>1. s[r] = IF f[r - 1] - After(r, t) > 1 THEN f[r - 1] - After(r, t) ELSE 1
      <4>1. f[r - 1] \in Int
        BY <2>8
      <4> QED BY <1>3, <2>7, <4>1, CountIs
    <3>2. s[r] > 1
      <4>1. n[r] >= 1 /\ n[r] \in Nat
        BY <2>1
      <4> QED BY <2>2, <2>8, <4>1
    <3> QED BY <3>1, <3>2
  <2>10. Amount(s, 1 .. r - 1) = model.total - f[r - 1]
    BY <1>6, <2>4
  <2>11. Amount(n, StageRanks) = model.total
    BY <2>1 DEF Given, Amount
  <2> DEFINE a == Amount(n, 1 .. r - 1)
             b == Amount(n, r + 1 .. Size)
             c == After(r, t)
             x == f[r - 1]
  <2>12. a \in Nat /\ b \in Nat /\ n[r] \in Nat /\ Amount(n, StageRanks) = a + n[r] + b
    BY <2>7 DEF Apart
  <2>13. a = model.total - x /\ b <= c /\ c \in Nat /\ x \in Nat /\ s[r] = x - c
    BY <2>5, <2>6, <2>7, <2>8, <2>9, <2>10
  <2> HIDE DEF a, b, c, x
  <2>14. model.total \in Nat /\ n[r] < s[r] /\ s[r] \in Nat
    BY <1>1, <2>2, <2>8
  <2>15. model.total = (model.total - x) + n[r] + b
    BY <2>11, <2>12, <2>13
  <2>16. x = n[r] + b
    BY <2>12, <2>13, <2>14, <2>15
  <2>17. x - c <= n[r]
    BY <2>12, <2>13, <2>16
  <2> QED BY <2>12, <2>13, <2>14, <2>17
<1> QED BY <1>4, <1>5, <1>7, <1>8 DEF s

LEMMA StaticEnds ==
  ASSUME Known, model.scheme = "static", NEW l, NEW h, StaticOk(l, h), l >= h
  PROVE  BestPlan(Smallest(NthCandidate(l)))
<1> DEFINE N == Cardinality(CandidateTimes)
           t == NthCandidate(l)
           s == Smallest(t)
<1>1. l \in 1 .. N /\ h \in 1 .. N /\ l = h /\ N \in Nat
  <2>1. l \in 1 .. N /\ h \in 1 .. N /\ l <= h /\ N \in Nat
    BY CandidatesAre DEF StaticOk
  <2> HIDE DEF N
  <2> QED BY <2>1
<1>2. t \in Nat /\ Enough(t)
  BY <1>1, CandidatesInOrder DEF StaticOk
<1> HIDE DEF N, t
<1>3. /\ s \in [StageRanks -> Nat] /\ Given(s) = model.total
      /\ \A r \in StageRanks : s[r] \in 1 .. Cap(r, t)
      /\ \A n \in Possible : (\A r \in StageRanks : n[r] <= Cap(r, t)) => ~Smaller(n, s)
  BY <1>2, SmallestIsSmallest
<1> HIDE DEF s
<1>4. ASSUME NEW r \in StageRanks
      PROVE  s[r] \in 1 .. model.total /\ s[r] <= model.limit[r] /\ ComputeTime(r, s[r]) <= t
  <2>1. CapIs(r, t) /\ RowLength(r) \in Nat /\ RowLength(r) <= model.limit[r]
    BY <1>2, CapsAre, RowIs
  <2>2. s[r] \in 1 .. Cap(r, t) /\ Cap(r, t) \in 0 .. RowLength(r)
    BY <1>3, <2>1 DEF CapIs
  <2>3. s[r] \in 1 .. RowLength(r) /\ s[r] <= Cap(r, t) /\ s[r] \in Nat
    BY <2>1, <2>2
  <2>4. ComputeTime(r, s[r]) <= t
    BY <2>1, <2>3 DEF CapIs
  <2>5. s[r] <= model.total /\ model.total \in Nat
    BY <1>3, GivenIsNumber DEF Known
  <2>6. s[r] <= model.limit[r]
    <3>1. model.limit[r] \in Nat
      BY DEF Known
    <3> QED BY <2>1, <2>3, <3>1
  <2> QED BY <2>3, <2>4, <2>5, <2>6
<1>5. s \in Possible
  <2>1. s \in [StageRanks -> 1 .. model.total]
    BY <1>3, <1>4
  <2> QED BY <1>3, <1>4, <2>1 DEF Possible, Allocations
<1>6. Bottleneck(s) <= t /\ Bottleneck(s) \in Nat
  <2>1. Slowest(s)
    BY <1>3, BottleneckIsSlowest
  <2> QED BY <1>4, <2>1 DEF Slowest
<1>7. ASSUME NEW n \in Possible
      PROVE  Bottleneck(s) <= Bottleneck(n) /\ (Bottleneck(n) = Bottleneck(s) => ~Smaller(n, s))
  <2> DEFINE b == Bottleneck(n)
  <2>1. b \in CandidateTimes /\ b \in Nat /\ Enough(b) /\ \A r \in StageRanks : n[r] <= Cap(r, b)
    BY PossibleIsEnough
  <2> HIDE DEF b
  <2>2. PICK i \in 1 .. N : b = NthCandidate(i)
    BY <2>1, CandidatesInOrder DEF N
  <2>3. ~(i < l)
    BY <2>1, <2>2 DEF StaticOk, N
  <2>4. l <= i
    BY <1>1, <2>3
  <2>5. t <= b
    BY <1>1, <2>2, <2>4, CandidatesInOrder DEF N, t
  <2>6. Bottleneck(s) <= b
    BY <1>2, <1>6, <2>1, <2>5
  <2>7. ASSUME b = Bottleneck(s) PROVE ~Smaller(n, s)
    <3>1. b = t
      BY <1>2, <1>6, <2>1, <2>5, <2>7
    <3> QED BY <1>3, <2>1, <3>1
  <2> QED BY <2>6, <2>7 DEF b
<1> QED BY <1>5, <1>7 DEF BestPlan, s, t

\* What depends on the instance only stays.
LEMMA InstanceStays ==
  ASSUME model' = model
  PROVE  /\ StageRanks' = StageRanks /\ Possible' = Possible /\ CandidateTimes' = CandidateTimes
         /\ \A n : Fits(n)' <=> Fits(n)
         /\ \A n : Given(n)' = Given(n)
         /\ \A n : Bottleneck(n)' = Bottleneck(n)
         /\ \A t : Enough(t)' <=> Enough(t)
         /\ \A i : NthCandidate(i)' = NthCandidate(i)
<1>1. StageRanks' = StageRanks /\ Size' = Size
  BY DEF StageRanks, Size
<1>2. /\ \A r : PoolsOf(r)' = PoolsOf(r)
      /\ \A r, n : ComputeTime(r, n)' = ComputeTime(r, n)
  BY <1>1 DEF PoolsOf, ComputeTime, Endpoint
<1>3. AllPools' = AllPools /\ \A pool : Budget(pool)' = Budget(pool)
  BY <1>1, <1>2 DEF AllPools, Budget
<1>4. \A n, pool : Usage(n, pool)' = Usage(n, pool)
  BY <1>1, <1>2 DEF Usage
<1>5. \A n : Fits(n)' <=> Fits(n)
  BY <1>3, <1>4 DEF Fits
<1>6. \A n : Given(n)' = Given(n)
  BY <1>1 DEF Given
<1>7. \A n : Bottleneck(n)' = Bottleneck(n)
  BY <1>1, <1>2 DEF Bottleneck
<1>8. Allocations' = Allocations
  BY <1>1, <1>6 DEF Allocations
<1>9. Possible' = Possible
  BY <1>1, <1>5, <1>8 DEF Possible
<1>10. \A r : Row(r)' = Row(r)
  BY <1>1, <1>2 DEF Row
<1>11. CandidateTimes' = CandidateTimes /\ \A r, t : Cap(r, t)' = Cap(r, t)
  BY <1>1, <1>10 DEF CandidateTimes, Cap
<1>12. \A i : NthCandidate(i)' = NthCandidate(i)
  BY <1>11 DEF NthCandidate
<1>13. \A t : Enough(t)' <=> Enough(t)
  BY <1>1, <1>11 DEF Enough
<1> QED BY <1>1, <1>5, <1>6, <1>7, <1>9, <1>11, <1>12, <1>13

\* The invariant: the greedy shares are never ahead of a possible allocation,
\* the optimum stays between the ends of the search, a verdict is right.
AllocationInv ==
  /\ model \in Models
  /\ (verdict = "deciding" /\ model.scheme = "live") => LiveOk(shares)
  /\ (verdict = "deciding" /\ model.scheme = "static") => StaticOk(low, high)
  /\ verdict = "planned" => BestPlan(shares)
  /\ verdict = "refused" => Possible = {}

LEMMA AllocationStarts == ASSUME AllocationInit PROVE AllocationInv
<1>1. model \in Models /\ Known
  BY ModelIsKnown DEF AllocationInit
<1>2. shares = Singles
  BY DEF AllocationInit, Singles
<1>3. model.scheme = "live" \/ model.scheme = "static"
  BY <1>1 DEF Known
<1>4. CASE model.scheme = "live"
  <2>1. model.scheme # "static" /\ verdict = IF Fits(Singles) THEN "deciding" ELSE "refused"
    BY <1>2, <1>4 DEF AllocationInit
  <2>2. IF Fits(Singles) THEN LiveOk(Singles) ELSE Possible = {}
    BY <1>1, <1>4, LiveBegins
  <2>3. CASE Fits(Singles)
    <3>1. verdict = "deciding" /\ LiveOk(shares)
      BY <1>2, <2>1, <2>2, <2>3
    <3> QED BY <1>1, <2>1, <3>1 DEF AllocationInv
  <2>4. CASE ~Fits(Singles)
    <3>1. verdict = "refused" /\ Possible = {}
      BY <2>1, <2>2, <2>4
    <3> QED BY <1>1, <3>1 DEF AllocationInv
  <2> QED BY <2>3, <2>4
<1>5. CASE model.scheme = "static"
  <2> DEFINE enough == SumFunctionOnSet(model.limit, StageRanks) >= model.total
  <2>1. /\ model.scheme # "live" /\ low = 1 /\ high = Cardinality(CandidateTimes)
        /\ verdict = IF enough THEN "deciding" ELSE "refused"
    BY <1>5 DEF AllocationInit
  <2>2. IF enough THEN StaticOk(1, Cardinality(CandidateTimes)) ELSE Possible = {}
    BY <1>1, <1>5, StaticBegins
  <2> HIDE DEF enough
  <2>3. CASE enough
    <3>1. verdict = "deciding" /\ StaticOk(low, high)
      BY <2>1, <2>2, <2>3
    <3> QED BY <1>1, <2>1, <3>1 DEF AllocationInv
  <2>4. CASE ~enough
    <3>1. verdict = "refused" /\ Possible = {}
      BY <2>1, <2>2, <2>4
    <3> QED BY <1>1, <3>1 DEF AllocationInv
  <2> QED BY <2>3, <2>4
<1> QED BY <1>3, <1>4, <1>5

\* What is known after a step in terms of the instance before it.
LEMMA AllocationStands ==
  ASSUME model' = model, model \in Models,
         (verdict' = "deciding" /\ model.scheme = "live") => LiveOk(shares'),
         (verdict' = "deciding" /\ model.scheme = "static") => StaticOk(low', high'),
         verdict' = "planned" => BestPlan(shares'),
         verdict' = "refused" => Possible = {}
  PROVE  AllocationInv'
<1>1. (verdict = "deciding" /\ model.scheme = "live")' => LiveOk(shares)'
  <2>1. ASSUME LiveOk(shares') PROVE LiveOk(shares)'
    BY <2>1, InstanceStays DEF LiveOk
  <2> QED BY <2>1
<1>2. (verdict = "deciding" /\ model.scheme = "static")' => StaticOk(low, high)'
  <2>1. ASSUME StaticOk(low', high') PROVE StaticOk(low, high)'
    BY <2>1, InstanceStays DEF StaticOk
  <2> QED BY <2>1
<1>3. (verdict = "planned")' => BestPlan(shares)'
  <2>1. ASSUME BestPlan(shares') PROVE BestPlan(shares)'
    BY <2>1, InstanceStays DEF BestPlan, Smaller
  <2> QED BY <2>1
<1>4. (verdict = "refused")' => (Possible = {})'
  BY InstanceStays
<1> QED BY <1>1, <1>2, <1>3, <1>4 DEF AllocationInv

LEMMA AllocationStep ==
  ASSUME AllocationInv, [AllocationNext]_allocationVars
  PROVE  AllocationInv'
<1>1. model \in Models /\ Known
  BY ModelIsKnown DEF AllocationInv
<1>2. CASE UNCHANGED allocationVars
  <2>1. model' = model /\ shares' = shares /\ low' = low /\ high' = high /\ verdict' = verdict
    BY <1>2 DEF allocationVars
  <2> QED BY <2>1, AllocationStands DEF AllocationInv
<1>3. ASSUME NEW r \in StageRanks, GiveLayer(r) PROVE AllocationInv'
  <2>1. /\ verdict = "deciding" /\ model.scheme = "live" /\ Given(shares) < model.total
        /\ Eligible(shares, r)
        /\ \A q \in StageRanks \ {r} : Eligible(shares, q) => Earlier(Rating(shares, r), Rating(shares, q))
        /\ shares' = OneMore(shares, r) /\ model' = model /\ verdict' = verdict
    BY <1>3 DEF GiveLayer
  <2>2. LiveOk(shares)
    BY <2>1 DEF AllocationInv
  <2>3. LiveOk(shares')
    BY <1>1, <2>1, <2>2, LiveGoesOn
  <2> QED BY <1>1, <2>1, <2>3, AllocationStands
<1>4. CASE NoRoom
  <2>1. /\ verdict = "deciding" /\ model.scheme = "live" /\ Given(shares) < model.total
        /\ \A r \in StageRanks : ~Eligible(shares, r)
        /\ verdict' = "refused" /\ model' = model
    BY <1>4 DEF NoRoom
  <2>2. Possible = {}
    BY <1>1, <2>1, LiveFindsNoRoom DEF AllocationInv
  <2> QED BY <1>1, <2>1, <2>2, AllocationStands
<1>5. CASE AllGiven
  <2>1. /\ verdict = "deciding" /\ model.scheme = "live" /\ Given(shares) = model.total
        /\ verdict' = "planned" /\ model' = model /\ shares' = shares
    BY <1>5 DEF AllGiven
  <2>2. BestPlan(shares')
    BY <1>1, <2>1, LiveEnds DEF AllocationInv
  <2> QED BY <1>1, <2>1, <2>2, AllocationStands
<1>6. CASE Halve
  <2> DEFINE mid == (low + high) \div 2
  <2>1. /\ verdict = "deciding" /\ model.scheme = "static" /\ low < high
        /\ IF Enough(NthCandidate(mid)) THEN high' = mid /\ low' = low ELSE low' = mid + 1 /\ high' = high
        /\ model' = model /\ verdict' = verdict
    BY <1>6 DEF Halve
  <2>2. StaticOk(low, high)
    BY <2>1 DEF AllocationInv
  <2>3. IF Enough(NthCandidate(mid)) THEN StaticOk(low, mid) ELSE StaticOk(mid + 1, high)
    BY <1>1, <2>1, <2>2, StaticGoesOn
  <2> HIDE DEF mid
  <2>4. StaticOk(low', high')
    BY <2>1, <2>3
  <2> QED BY <1>1, <2>1, <2>4, AllocationStands
<1>7. CASE TakeBottleneck
  <2>1. /\ verdict = "deciding" /\ model.scheme = "static" /\ low >= high
        /\ shares' = Smallest(NthCandidate(low)) /\ verdict' = "planned" /\ model' = model
    BY <1>7 DEF TakeBottleneck
  <2>2. StaticOk(low, high)
    BY <2>1 DEF AllocationInv
  <2>3. BestPlan(shares')
    BY <1>1, <2>1, <2>2, StaticEnds
  <2> QED BY <1>1, <2>1, <2>3, AllocationStands
<1> QED BY <1>2, <1>3, <1>4, <1>5, <1>6, <1>7 DEF AllocationNext

\* The plan is the best there is, and none is refused that has one: sharing
\* memory pools strands no memory, the binary search misses no candidate
\* (build_resource_plan, allocate_layers).
THEOREM PlansStayBest == AllocationSpec => []PlanIsBest
<1>1. AllocationInv => PlanIsBest
  BY DEF AllocationInv, PlanIsBest, BestPlan
<1> QED BY <1>1, AllocationStarts, AllocationStep, PTL DEF AllocationSpec
==============================================================================
