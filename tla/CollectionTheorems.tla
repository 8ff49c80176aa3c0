-------------------------- MODULE CollectionTheorems ---------------------------
(***************************************************************************)
(* Facts about sums, orders and lists that several proofs need.            *)
(*                                                                         *)
(* Sums: the retries accounted to a profile, the permits of an origin, the *)
(* attempts charged to all slots.  The models write them with the folds of *)
(* the community modules, which are defined by recursion over subsets;     *)
(* here they are shown to be sums: the recursion has a solution on every   *)
(* finite set, whichever element it takes first, so that a sum can be      *)
(* taken apart at any element.                                             *)
(*                                                                         *)
(* Orders: a sorted list holds every member of its set once and in order,  *)
(* and what is picked from a list keeps its order.                         *)
(*                                                                         *)
(* Induction is by least counterexample: the natural numbers at which a    *)
(* claim holds form a set.                                                 *)
(***************************************************************************)
EXTENDS Ordering, Integers, Sequences, FiniteSets, FiniteSetsExt, Functions,
        FiniteSetTheorems, SequenceTheorems, WellFoundedInduction, TLAPS

\* The sum of g[x] over the elements x of S.
SumOf(g, S) == MapThenSumSet(LAMBDA x : g[x], S)

\* The recursion that the folds are defined by, over subsets of S.
Pick(s) == CHOOSE x \in s : TRUE
Sums(F, g, S) ==
  F = [s \in SUBSET S |-> IF s = {} THEN 0 ELSE g[Pick(s)] + F[s \ {Pick(s)}]]

\* The same for the subsets of S with at most n elements.
UpTo(S, n) == {s \in SUBSET S : Cardinality(s) <= n}
SumsUpTo(F, g, S, n) ==
  F = [s \in UpTo(S, n) |-> IF s = {} THEN 0 ELSE g[Pick(s)] + F[s \ {Pick(s)}]]

\* A set of natural numbers that is not empty has a least one.
LEMMA LeastNatural ==
  ASSUME NEW N \in SUBSET Nat, N # {}
  PROVE  \E n \in N : \A m \in N : n <= m
<1> DEFINE R == {p \in Nat \X Nat : p[1] < p[2]}
<1>1. R = OpToRel(<, Nat)
  BY DEF OpToRel
<1>2. IsWellFoundedOn(R, Nat)
  BY <1>1, NatLessThanWellFounded
<1>3. PICK n \in N : \A m \in N : ~ (<<m, n>> \in R)
  BY <1>2, WFMin
<1>4. ASSUME NEW m \in N PROVE n <= m
  <2>1. ~ (m < n)
    BY <1>3
  <2>2. QED
    BY <2>1
<1>5. QED
  BY <1>4

\* A set of natural numbers that has 0 and with each number the next has them all.
LEMMA SetInduction ==
  ASSUME NEW Q \in SUBSET Nat, 0 \in Q, \A n \in Q : n + 1 \in Q
  PROVE  Q = Nat
<1> SUFFICES ASSUME Nat \ Q # {} PROVE FALSE
  OBVIOUS
<1>1. PICK n \in Nat \ Q : \A m \in Nat \ Q : n <= m
  BY LeastNatural
<1>2. n # 0 /\ n - 1 \in Nat
  BY <1>1
<1>3. n - 1 \notin Q
  BY <1>1, <1>2
<1>4. QED
  BY <1>1, <1>2, <1>3

\* The element the folds take first is one of the set.
LEMMA PickElement == \A s : s # {} => Pick(s) \in s
BY DEF Pick

\* Subsets of a finite set, and what is left of one without an element.
LEMMA SubsetSizes ==
  ASSUME NEW S, IsFiniteSet(S), NEW s \in SUBSET S
  PROVE  /\ IsFiniteSet(s) /\ Cardinality(s) \in Nat /\ Cardinality(s) <= Cardinality(S)
         /\ (Cardinality(s) = 0 <=> s = {})
         /\ \A x \in s : Cardinality(s \ {x}) = Cardinality(s) - 1 /\ s \ {x} \in SUBSET S
<1>1. IsFiniteSet(s) /\ Cardinality(s) \in Nat /\ Cardinality(s) <= Cardinality(S)
  BY FS_Subset, FS_CardinalityType
<1>2. Cardinality(s) = 0 <=> s = {}
  BY <1>1, FS_EmptySet
<1>3. \A x \in s : Cardinality(s \ {x}) = Cardinality(s) - 1
  BY <1>1, FS_RemoveElement
<1>4. QED
  BY <1>1, <1>2, <1>3

\* The recursion has a solution: it is extended from the subsets with at most n
\* elements to those with n + 1.
LEMMA SumsExist ==
  ASSUME NEW S, IsFiniteSet(S), NEW g
  PROVE  \E F : Sums(F, g, S)
<1> DEFINE Q == {n \in Nat : \E F : SumsUpTo(F, g, S, n)}
<1>1. 0 \in Q
  <2> DEFINE F == [s \in UpTo(S, 0) |-> 0]
  <2>1. \A s \in UpTo(S, 0) : s = {}
    BY SubsetSizes DEF UpTo
  <2>2. SumsUpTo(F, g, S, 0)
    BY <2>1 DEF SumsUpTo
  <2>3. QED
    BY <2>2
<1>2. ASSUME NEW n \in Q PROVE n + 1 \in Q
  <2>1. PICK F : SumsUpTo(F, g, S, n)
    OBVIOUS
  <2> DEFINE G == [s \in UpTo(S, n + 1) |->
                     IF s = {} THEN 0 ELSE g[Pick(s)] + F[s \ {Pick(s)}]]
  <2>2. \A s \in UpTo(S, n) : s \in UpTo(S, n + 1) /\ G[s] = F[s]
    <3>1. ASSUME NEW s \in UpTo(S, n) PROVE s \in UpTo(S, n + 1)
      BY SubsetSizes DEF UpTo
    <3>2. ASSUME NEW s \in UpTo(S, n) PROVE G[s] = F[s]
      BY <2>1, <3>1 DEF SumsUpTo
    <3>3. QED
      BY <3>1, <3>2
  <2>3. \A s \in UpTo(S, n + 1) : s # {} => s \ {Pick(s)} \in UpTo(S, n)
    BY SubsetSizes, PickElement DEF UpTo
  <2>4. G = [s \in UpTo(S, n + 1) |-> IF s = {} THEN 0 ELSE g[Pick(s)] + G[s \ {Pick(s)}]]
    BY <2>2, <2>3
  <2>5. SumsUpTo(G, g, S, n + 1)
    BY <2>4 DEF SumsUpTo
  <2>6. QED
    BY <2>5
<1>3. Q = Nat
  BY <1>1, <1>2, SetInduction
<1>4. Cardinality(S) \in Q
  BY <1>3, FS_CardinalityType
<1>5. UpTo(S, Cardinality(S)) = SUBSET S
  BY SubsetSizes DEF UpTo
<1>6. QED
  BY <1>4, <1>5 DEF SumsUpTo, Sums

\* A sum can be taken apart at any element.
LEMMA SumsExchange ==
  ASSUME NEW S, IsFiniteSet(S), NEW g, \A x \in S : g[x] \in Int, NEW F, Sums(F, g, S)
  PROVE  \A s \in SUBSET S : F[s] \in Int /\ \A x \in s : F[s] = g[x] + F[s \ {x}]
<1> DEFINE Good(s) == F[s] \in Int /\ \A x \in s : F[s] = g[x] + F[s \ {x}]
           Q == {n \in Nat : \A s \in UpTo(S, n) : Good(s)}
<1>1. \A s \in SUBSET S : F[s] = IF s = {} THEN 0 ELSE g[Pick(s)] + F[s \ {Pick(s)}]
  BY Zenon DEF Sums
<1>2. 0 \in Q
  <2>1. \A s \in UpTo(S, 0) : s = {}
    BY SubsetSizes DEF UpTo
  <2>2. {} \in SUBSET S /\ F[{}] = 0
    BY <1>1
  <2>3. QED
    BY <2>1, <2>2
<1>3. ASSUME NEW n \in Q PROVE n + 1 \in Q
  <2>0. {} \in SUBSET S /\ F[{}] = 0 /\ Good({}) /\ n + 1 \in Nat
    BY <1>1
  <2> SUFFICES ASSUME NEW s \in UpTo(S, n + 1) PROVE Good(s)
    BY <2>0
  <2> SUFFICES ASSUME s # {} PROVE Good(s)
    BY <2>0
  <2>1. s \in SUBSET S /\ Pick(s) \in s
    BY PickElement DEF UpTo
  <2>2. \A x \in s : s \ {x} \in UpTo(S, n)
    BY <2>1, SubsetSizes DEF UpTo
  <2>3. \A x \in s : Good(s \ {x})
    BY <2>2
  <2>4. F[s] = g[Pick(s)] + F[s \ {Pick(s)}]
    BY <1>1, <2>1
  <2>5. F[s] \in Int
    <3>1. g[Pick(s)] \in Int /\ F[s \ {Pick(s)}] \in Int
      BY <2>1, <2>3
    <3>2. QED
      BY <2>4, <3>1
  <2>6. ASSUME NEW x \in s, x # Pick(s) PROVE F[s] = g[x] + F[s \ {x}]
    <3> DEFINE y == Pick(s)
    <3>0. y \in s /\ x \in s \ {y} /\ y \in s \ {x} /\ Good(s \ {x}) /\ Good(s \ {y})
      BY <2>1, <2>3, <2>6
    <3> HIDE DEF y
    <3>1. (s \ {x}) \ {y} = (s \ {y}) \ {x}
      OBVIOUS
    <3>2. F[s \ {y}] = g[x] + F[(s \ {y}) \ {x}]
      BY <3>0
    <3>3. F[s \ {x}] = g[y] + F[(s \ {x}) \ {y}]
      BY <3>0
    <3>4. g[x] \in Int /\ g[y] \in Int /\ F[(s \ {y}) \ {x}] \in Int
      <4>1. s \ {y} \in UpTo(S, n)
        BY <2>2, <3>0
      <4>2. /\ s \ {y} \in SUBSET S /\ (s \ {y}) \ {x} \in SUBSET S
            /\ Cardinality((s \ {y}) \ {x}) = Cardinality(s \ {y}) - 1
            /\ Cardinality(s \ {y}) \in Nat /\ Cardinality(s \ {y}) <= n
        BY <2>1, <3>0, <4>1, SubsetSizes DEF UpTo
      <4>3. Cardinality((s \ {y}) \ {x}) \in Nat
        BY <4>2, SubsetSizes
      <4>4. (s \ {y}) \ {x} \in UpTo(S, n)
        BY <4>2, <4>3 DEF UpTo
      <4>5. QED
        BY <2>1, <3>0, <4>4
    <3>5. F[s] = g[y] + F[s \ {y}]
      BY <2>4 DEF y
    <3>6. F[(s \ {x}) \ {y}] = F[(s \ {y}) \ {x}]
      BY <3>1
    <3>7. QED
      BY <3>2, <3>3, <3>4, <3>5, <3>6
  <2>7. QED
    BY <2>4, <2>5, <2>6
<1>4. Q = Nat
  BY <1>2, <1>3, SetInduction
<1>5. ASSUME NEW s \in SUBSET S PROVE Good(s)
  <2>1. Cardinality(s) \in Q /\ s \in UpTo(S, Cardinality(s))
    BY <1>4, SubsetSizes DEF UpTo
  <2>2. QED
    BY <2>1
<1>6. QED
  BY <1>5

\* Two sums over sets that share a subset agree on it if their terms do.
LEMMA SumsAgree ==
  ASSUME NEW S, IsFiniteSet(S), NEW T, IsFiniteSet(T), NEW U \in SUBSET (S \cap T),
         NEW g, NEW h, \A x \in U : g[x] = h[x],
         NEW F, Sums(F, g, S), NEW H, Sums(H, h, T)
  PROVE  F[U] = H[U]
<1> DEFINE Q == {n \in Nat : \A s \in UpTo(U, n) : F[s] = H[s]}
<1>1. ASSUME NEW s \in SUBSET U
      PROVE  /\ F[s] = IF s = {} THEN 0 ELSE g[Pick(s)] + F[s \ {Pick(s)}]
             /\ H[s] = IF s = {} THEN 0 ELSE h[Pick(s)] + H[s \ {Pick(s)}]
  <2>1. s \in SUBSET S /\ s \in SUBSET T
    OBVIOUS
  <2>2. F[s] = IF s = {} THEN 0 ELSE g[Pick(s)] + F[s \ {Pick(s)}]
    BY <2>1, Zenon DEF Sums
  <2>3. H[s] = IF s = {} THEN 0 ELSE h[Pick(s)] + H[s \ {Pick(s)}]
    BY <2>1, Zenon DEF Sums
  <2>4. QED
    BY <2>2, <2>3
<1>2. IsFiniteSet(U)
  BY FS_Subset
<1>3. 0 \in Q
  <2>1. \A s \in UpTo(U, 0) : s = {} /\ s \in SUBSET U
    BY <1>2, SubsetSizes DEF UpTo
  <2>2. F[{}] = 0 /\ H[{}] = 0
    BY <1>1
  <2>3. QED
    BY <2>1, <2>2
<1>4. ASSUME NEW n \in Q PROVE n + 1 \in Q
  <2>1. \A s \in UpTo(U, n) : F[s] = H[s]
    OBVIOUS
  <2>2. ASSUME NEW s \in UpTo(U, n + 1) PROVE F[s] = H[s]
    <3>1. CASE s = {}
      BY <1>1, <3>1
    <3>2. CASE s # {}
      <4>1. s \in SUBSET U /\ Pick(s) \in s
        BY <3>2, PickElement DEF UpTo
      <4>2. s \ {Pick(s)} \in UpTo(U, n)
        BY <1>2, <4>1, SubsetSizes DEF UpTo
      <4>3. F[s \ {Pick(s)}] = H[s \ {Pick(s)}] /\ g[Pick(s)] = h[Pick(s)]
        BY <2>1, <4>1, <4>2
      <4>4. /\ F[s] = g[Pick(s)] + F[s \ {Pick(s)}]
            /\ H[s] = h[Pick(s)] + H[s \ {Pick(s)}]
        BY <1>1, <3>2, <4>1
      <4>5. QED
        BY <4>3, <4>4
    <3>3. QED
      BY <3>1, <3>2
  <2>3. QED
    BY <2>2
<1>5. Q = Nat
  BY <1>3, <1>4, SetInduction
<1>6. Cardinality(U) \in Q /\ U \in UpTo(U, Cardinality(U))
  BY <1>2, <1>5, SubsetSizes DEF UpTo
<1>7. QED
  BY <1>6

--------------------------------------------------------------------------------
(* What the models use *)

\* The folds of the models are solutions of the recursion.
LEMMA SumIsSolution ==
  ASSUME NEW S, IsFiniteSet(S), NEW g
  PROVE  \E F : Sums(F, g, S) /\ SumOf(g, S) = F[S]
<1> DEFINE F == CHOOSE F : Sums(F, g, S)
<1>1. Sums(F, g, S)
  BY SumsExist, Zenon
<1>2. SumOf(g, S) = F[S]
  BY DEF SumOf, MapThenSumSet, MapThenFoldSet, Sums, Pick
<1>3. QED
  BY <1>1, <1>2

\* FoldFunction with + is the sum of a function over its domain.
LEMMA FoldFunctionIsSum == \A g : FoldFunction(+, 0, g) = SumOf(g, DOMAIN g)
BY DEF FoldFunction, FoldFunctionOnSet, SumOf, MapThenSumSet

\* The empty sum.
LEMMA SumEmpty == \A g : SumOf(g, {}) = 0
<1> SUFFICES ASSUME NEW g PROVE SumOf(g, {}) = 0
  OBVIOUS
<1>1. PICK F : Sums(F, g, {}) /\ SumOf(g, {}) = F[{}]
  BY SumIsSolution, FS_EmptySet
<1>2. QED
  BY <1>1 DEF Sums

\* Sums of integers are integers.
LEMMA SumType ==
  ASSUME NEW S, IsFiniteSet(S), NEW g, \A x \in S : g[x] \in Int
  PROVE  SumOf(g, S) \in Int
<1>1. PICK F : Sums(F, g, S) /\ SumOf(g, S) = F[S]
  BY SumIsSolution
<1>2. QED
  BY <1>1, SumsExchange

\* Only the terms count.
LEMMA SumAgree ==
  ASSUME NEW S, IsFiniteSet(S), NEW g, NEW h, \A x \in S : g[x] = h[x]
  PROVE  SumOf(g, S) = SumOf(h, S)
<1>1. PICK F : Sums(F, g, S) /\ SumOf(g, S) = F[S]
  BY SumIsSolution
<1>2. PICK H : Sums(H, h, S) /\ SumOf(h, S) = H[S]
  BY SumIsSolution
<1>3. QED
  BY <1>1, <1>2, SumsAgree

\* A sum without one of its terms.
LEMMA SumRemove ==
  ASSUME NEW S, IsFiniteSet(S), NEW g, \A x \in S : g[x] \in Int, NEW x \in S
  PROVE  SumOf(g, S) = g[x] + SumOf(g, S \ {x})
<1>1. PICK F : Sums(F, g, S) /\ SumOf(g, S) = F[S]
  BY SumIsSolution
<1>2. F[S] = g[x] + F[S \ {x}]
  BY <1>1, SumsExchange
<1>3. IsFiniteSet(S \ {x})
  BY FS_RemoveElement
<1>4. PICK H : Sums(H, g, S \ {x}) /\ SumOf(g, S \ {x}) = H[S \ {x}]
  BY <1>3, SumIsSolution
<1>5. F[S \ {x}] = H[S \ {x}]
  BY <1>1, <1>3, <1>4, SumsAgree
<1>6. QED
  BY <1>1, <1>2, <1>4, <1>5

\* A sum with one more term.
LEMMA SumAdd ==
  ASSUME NEW S, IsFiniteSet(S), NEW x, x \notin S, NEW g, \A y \in S \cup {x} : g[y] \in Int
  PROVE  SumOf(g, S \cup {x}) = g[x] + SumOf(g, S)
<1>1. IsFiniteSet(S \cup {x}) /\ (S \cup {x}) \ {x} = S
  BY FS_AddElement
<1>2. QED
  BY <1>1, SumRemove

\* A sum of which one term changes.
LEMMA SumUpdate ==
  ASSUME NEW S, IsFiniteSet(S), NEW x \in S, NEW g, NEW h,
         \A y \in S : g[y] \in Int /\ h[y] \in Int, \A y \in S \ {x} : g[y] = h[y]
  PROVE  SumOf(h, S) = SumOf(g, S) - g[x] + h[x]
<1>1. IsFiniteSet(S \ {x})
  BY FS_RemoveElement
<1>2. SumOf(g, S) = g[x] + SumOf(g, S \ {x}) /\ SumOf(h, S) = h[x] + SumOf(h, S \ {x})
  BY SumRemove
<1>3. SumOf(g, S \ {x}) = SumOf(h, S \ {x})
  BY <1>1, SumAgree
<1>4. SumOf(g, S \ {x}) \in Int
  BY <1>1, SumType
<1>5. QED
  BY <1>2, <1>3, <1>4

\* Sums of natural numbers are natural numbers.
LEMMA SumNatural ==
  ASSUME NEW S, IsFiniteSet(S), NEW g, \A x \in S : g[x] \in Nat
  PROVE  SumOf(g, S) \in Nat
<1> DEFINE Q == {n \in Nat : \A s \in UpTo(S, n) : SumOf(g, s) \in Nat}
<1>1. 0 \in Q
  <2>1. \A s \in UpTo(S, 0) : s = {}
    BY SubsetSizes DEF UpTo
  <2>2. QED
    BY <2>1, SumEmpty
<1>2. ASSUME NEW n \in Q PROVE n + 1 \in Q
  <2> SUFFICES ASSUME NEW s \in UpTo(S, n + 1), s # {} PROVE SumOf(g, s) \in Nat
    <3>1. SumOf(g, {}) \in Nat /\ n + 1 \in Nat
      BY SumEmpty
    <3>2. QED
      BY <3>1
  <2>1. s \in SUBSET S /\ IsFiniteSet(s) /\ Pick(s) \in s
    BY PickElement, SubsetSizes DEF UpTo
  <2>2. s \ {Pick(s)} \in UpTo(S, n)
    BY <2>1, SubsetSizes DEF UpTo
  <2>3. SumOf(g, s) = g[Pick(s)] + SumOf(g, s \ {Pick(s)})
    BY <2>1, SumRemove
  <2>4. QED
    BY <2>1, <2>2, <2>3
<1>3. Q = Nat
  BY <1>1, <1>2, SetInduction
<1>4. Cardinality(S) \in Q /\ S \in UpTo(S, Cardinality(S))
  BY <1>3, SubsetSizes DEF UpTo
<1>5. QED
  BY <1>4

\* A sum of zeros.
LEMMA SumZero ==
  ASSUME NEW S, IsFiniteSet(S), NEW g, \A x \in S : g[x] = 0
  PROVE  SumOf(g, S) = 0
<1> DEFINE Q == {n \in Nat : \A s \in UpTo(S, n) : SumOf(g, s) = 0}
<1>1. 0 \in Q
  <2>1. \A s \in UpTo(S, 0) : s = {}
    BY SubsetSizes DEF UpTo
  <2>2. QED
    BY <2>1, SumEmpty
<1>2. ASSUME NEW n \in Q PROVE n + 1 \in Q
  <2> SUFFICES ASSUME NEW s \in UpTo(S, n + 1), s # {} PROVE SumOf(g, s) = 0
    <3>1. SumOf(g, {}) = 0 /\ n + 1 \in Nat
      BY SumEmpty
    <3>2. QED
      BY <3>1
  <2>1. s \in SUBSET S /\ IsFiniteSet(s) /\ Pick(s) \in s
    BY PickElement, SubsetSizes DEF UpTo
  <2>2. s \ {Pick(s)} \in UpTo(S, n)
    BY <2>1, SubsetSizes DEF UpTo
  <2>3. SumOf(g, s) = g[Pick(s)] + SumOf(g, s \ {Pick(s)})
    BY <2>1, SumRemove
  <2>4. QED
    BY <2>1, <2>2, <2>3
<1>3. Q = Nat
  BY <1>1, <1>2, SetInduction
<1>4. Cardinality(S) \in Q /\ S \in UpTo(S, Cardinality(S))
  BY <1>3, SubsetSizes DEF UpTo
<1>5. QED
  BY <1>4
-------------------------------------------------------------------------------
(* The elements of a sequence of sequences                                 *)

Lens(q) == [k \in DOMAIN q |-> Len(q[k])]
First(q, n) == SumOf(Lens(q), 1 .. n)

\* The first n + 1 members have the elements of the first n and of one more.
LEMMA FirstNext ==
  ASSUME NEW R, NEW q \in Seq(Seq(R)), NEW n \in Nat, n < Len(q)
  PROVE  First(q, n) \in Int /\ First(q, n + 1) = First(q, n) + Len(q[n + 1])
<1>0. IsFiniteSet(1 .. n)
  BY FS_Interval
<1>1. n + 1 \notin 1 .. n /\ (1 .. n) \cup {n + 1} = 1 .. (n + 1)
  OBVIOUS
<1> DEFINE g == Lens(q)
<1>2. \A k \in (1 .. n) \cup {n + 1} : g[k] = Len(q[k]) /\ g[k] \in Int
  <2>1. DOMAIN q = 1 .. Len(q) /\ Len(q) \in Nat
    OBVIOUS
  <2>2. \A k \in (1 .. n) \cup {n + 1} : k \in DOMAIN q
    BY <2>1
  <2>3. \A k \in DOMAIN q : g[k] = Len(q[k]) /\ q[k] \in Seq(R)
    BY DEF Lens
  <2>4. QED
    BY <2>2, <2>3
<1> HIDE DEF g
<1>3. SumOf(g, (1 .. n) \cup {n + 1}) = g[n + 1] + SumOf(g, 1 .. n)
  BY <1>0, <1>1, <1>2, SumAdd
<1>4. SumOf(g, 1 .. n) \in Int
  BY <1>0, <1>2, SumType
<1>5. g[n + 1] = Len(q[n + 1]) /\ g[n + 1] \in Int
  BY <1>2
<1>6. SumOf(g, (1 .. n) \cup {n + 1}) = SumOf(g, 1 .. n) + Len(q[n + 1])
  BY <1>3, <1>4, <1>5
<1>7. SumOf(g, 1 .. (n + 1)) = SumOf(g, 1 .. n) + Len(q[n + 1])
  BY <1>1, <1>6
<1>8. QED
  BY <1>4, <1>7 DEF g, First

\* No members, no elements.
LEMMA FirstNone == \A q : First(q, 0) = 0
<1>1. 1 .. 0 = {}
  OBVIOUS
<1>2. QED
  BY <1>1, SumEmpty DEF First

\* The elements without those of the first member.
LEMMA FirstTail ==
  ASSUME NEW R, NEW q \in Seq(Seq(R)), q # <<>>
  PROVE  First(q, Len(q)) = Len(Head(q)) + First(Tail(q), Len(Tail(q)))
<1> DEFINE Q == {n \in Nat : n < Len(q) => First(q, n + 1) = Len(Head(q)) + First(Tail(q), n)}
<1>1. /\ Tail(q) \in Seq(Seq(R)) /\ Len(Tail(q)) = Len(q) - 1 /\ Len(q) \in Nat \ {0}
      /\ Head(q) = q[1] /\ Len(Head(q)) \in Nat
      /\ \A n \in 1 .. Len(q) - 1 : Tail(q)[n] = q[n + 1]
  OBVIOUS
<1>2. 0 \in Q
  BY <1>1, FirstNext, FirstNone
<1>3. ASSUME NEW n \in Q PROVE n + 1 \in Q
  <2> SUFFICES ASSUME n + 1 < Len(q)
               PROVE  First(q, n + 1 + 1) = Len(Head(q)) + First(Tail(q), n + 1)
    OBVIOUS
  <2>1. First(q, n + 1) = Len(Head(q)) + First(Tail(q), n)
    OBVIOUS
  <2>2. First(q, n + 1 + 1) = First(q, n + 1) + Len(q[n + 1 + 1])
    BY FirstNext
  <2>3. First(Tail(q), n) \in Int
          /\ First(Tail(q), n + 1) = First(Tail(q), n) + Len(Tail(q)[n + 1])
    <3>1. n \in Nat /\ n < Len(Tail(q))
      BY <1>1
    <3> HIDE DEF Q
    <3>2. QED
      BY <1>1, <3>1, FirstNext
  <2>4. Tail(q)[n + 1] = q[n + 1 + 1] /\ Len(q[n + 1 + 1]) \in Int
    BY <1>1
  <2>5. QED
    BY <1>1, <2>1, <2>2, <2>3, <2>4
<1> HIDE DEF Q
<1>4. Q \in SUBSET Nat
  BY DEF Q
<1>5. Q = Nat
  BY <1>2, <1>3, <1>4, SetInduction
<1>6. Len(q) - 1 \in Q
  BY <1>1, <1>5
<1>7. QED
  BY <1>1, <1>6 DEF Q

\* The first members of a concatenation.
LEMMA FirstConcat ==
  ASSUME NEW R, NEW q \in Seq(Seq(R)), NEW r \in Seq(Seq(R))
  PROVE  First(q \o r, Len(q)) = First(q, Len(q))
<1>1. \A k \in 1 .. Len(q) : Lens(q \o r)[k] = Lens(q)[k]
  <2>1. /\ DOMAIN q = 1 .. Len(q) /\ DOMAIN (q \o r) = 1 .. Len(q) + Len(r)
        /\ Len(q) \in Nat /\ Len(r) \in Nat
        /\ \A k \in 1 .. Len(q) : (q \o r)[k] = q[k]
    OBVIOUS
  <2>2. \A k \in 1 .. Len(q) : k \in DOMAIN q /\ k \in DOMAIN (q \o r)
    BY <2>1
  <2>3. QED
    BY <2>1, <2>2 DEF Lens
<1>2. IsFiniteSet(1 .. Len(q))
  BY FS_Interval
<1>3. QED
  BY <1>1, <1>2, SumAgree DEF First

\* Members that have size elements each but for the last one.
LEMMA FirstEven ==
  ASSUME NEW R, NEW q \in Seq(Seq(R)), NEW r \in Seq(Seq(R)), NEW size \in Nat,
         NEW n \in Nat, n <= Len(r), \A k \in 1 .. n : Len(r[k]) = size
  PROVE  First(q \o r, Len(q) + n) = First(q, Len(q)) + n * size
<1> DEFINE s == q \o r
           m == Len(q)
           Q == {j \in Nat : j <= n => First(s, m + j) = First(q, m) + j * size}
<1>1. /\ s \in Seq(Seq(R)) /\ m \in Nat /\ Len(r) \in Nat /\ Len(s) = m + Len(r)
      /\ \A k \in 1 .. Len(r) : s[m + k] = r[k]
  OBVIOUS
<1>2. First(s, m) = First(q, m)
  BY FirstConcat
<1> HIDE DEF s, m
<1>3. First(q, m) \in Int
  <2>1. IsFiniteSet(1 .. m) /\ \A k \in 1 .. m : Lens(q)[k] \in Int
    <3>1. DOMAIN q = 1 .. m /\ \A k \in DOMAIN q : q[k] \in Seq(R)
      BY DEF m
    <3>2. \A k \in 1 .. m : Lens(q)[k] = Len(q[k]) /\ Len(q[k]) \in Nat
      BY <3>1 DEF Lens
    <3>3. IsFiniteSet(1 .. m)
      BY <1>1, FS_Interval
    <3>4. QED
      BY <3>2, <3>3
  <2>2. SumOf(Lens(q), 1 .. m) \in Int
    BY <2>1, SumType
  <2>3. QED
    BY <2>2 DEF First
<1>4. 0 \in Q
  BY <1>1, <1>2, <1>3
<1>5. ASSUME NEW j \in Q PROVE j + 1 \in Q
  <2> SUFFICES ASSUME j + 1 <= n PROVE First(s, m + (j + 1)) = First(q, m) + (j + 1) * size
    OBVIOUS
  <2>1. j \in Nat /\ First(s, m + j) = First(q, m) + j * size
    OBVIOUS
  <2> HIDE DEF Q
  <2>2. m + j \in Nat /\ m + j < Len(s) /\ j + 1 \in 1 .. Len(r)
    <3>1. m \in Nat /\ Len(r) \in Nat /\ Len(s) = m + Len(r)
      BY <1>1
    <3>2. j \in Nat /\ n \in Nat /\ j + 1 <= n /\ n <= Len(r)
      BY <2>1
    <3>3. QED
      BY ONLY <3>1, <3>2
  <2>7. m + (j + 1) = (m + j) + 1
    BY <1>1, <2>1
  <2>3. First(s, (m + j) + 1) = First(s, m + j) + Len(s[(m + j) + 1])
    BY <1>1, <2>2, FirstNext
  <2>4. s[(m + j) + 1] = r[j + 1] /\ Len(r[j + 1]) = size
    BY <1>1, <2>1, <2>2
  <2>5. (j + 1) * size = j * size + size /\ j * size \in Int
    BY <2>1
  <2>6. QED
    BY <1>3, <2>1, <2>2, <2>3, <2>4, <2>5, <2>7
<1> HIDE DEF Q
<1>6. Q \in SUBSET Nat
  BY DEF Q
<1>7. Q = Nat
  BY <1>4, <1>5, <1>6, SetInduction
<1>8. n \in Q
  BY <1>7
<1>9. QED
  BY <1>8 DEF Q, s, m

-------------------------------------------------------------------------------
(* What sorting returns                                                    *)

\* The elements below one, and the relations that sort: total and strict.
Below(S, R, x) == {y \in S : <<y, x>> \in R}
StrictOrder(S, R) ==
  /\ \A x \in S : <<x, x>> \notin R
  /\ \A x, y \in S : x # y => <<x, y>> \in R \/ <<y, x>> \in R
  /\ \A x, y, z \in S : <<x, y>> \in R /\ <<y, z>> \in R => <<x, z>> \in R

\* In a strict order fewer elements are below a smaller element.
LEMMA RanksGrow ==
  ASSUME NEW S, IsFiniteSet(S), NEW R, StrictOrder(S, R), NEW x \in S, NEW y \in S, <<x, y>> \in R
  PROVE  Cardinality(Below(S, R, x)) < Cardinality(Below(S, R, y))
<1>1. Below(S, R, x) \subseteq Below(S, R, y) \ {x} /\ x \in Below(S, R, y)
  BY DEF Below, StrictOrder
<1>2. Below(S, R, y) \in SUBSET S
  BY DEF Below
<1>3. /\ IsFiniteSet(Below(S, R, y)) /\ Cardinality(Below(S, R, y)) \in Nat
      /\ Cardinality(Below(S, R, y) \ {x}) = Cardinality(Below(S, R, y)) - 1
      /\ Below(S, R, y) \ {x} \in SUBSET S
  BY <1>1, <1>2, SubsetSizes
<1>4. IsFiniteSet(Below(S, R, y) \ {x})
  BY <1>3, SubsetSizes
<1>5. Cardinality(Below(S, R, x)) <= Cardinality(Below(S, R, y) \ {x})
      /\ Cardinality(Below(S, R, x)) \in Nat
  BY <1>4, <1>1, SubsetSizes
<1>6. QED
  BY <1>3, <1>5

\* So each rank of a finite strict order is taken, by one element.
LEMMA RanksTaken ==
  ASSUME NEW S, IsFiniteSet(S), NEW R, StrictOrder(S, R), NEW i \in 1 .. Cardinality(S)
  PROVE  \E x \in S : Cardinality(Below(S, R, x)) = i - 1
<1> DEFINE n == Cardinality(S)
           rank == [x \in S |-> Cardinality(Below(S, R, x)) + 1]
<1>1. n \in Nat
  BY FS_CardinalityType
<1>2. ASSUME NEW x \in S PROVE rank[x] \in 1 .. n
  <2>1. Below(S, R, x) \in SUBSET (S \ {x}) /\ S \in SUBSET S
    BY DEF Below, StrictOrder
  <2>2. IsFiniteSet(S \ {x}) /\ Cardinality(S \ {x}) = n - 1
    BY FS_RemoveElement
  <2>3. Cardinality(Below(S, R, x)) \in Nat /\ Cardinality(Below(S, R, x)) <= n - 1
    BY <2>1, <2>2, SubsetSizes
  <2>4. QED
    BY <2>3, <1>1
<1>3. ASSUME NEW x \in S, NEW y \in S, x # y PROVE rank[x] # rank[y]
  <2>1. \A z \in S : Cardinality(Below(S, R, z)) \in Nat
    <3>1. ASSUME NEW z \in S PROVE Below(S, R, z) \in SUBSET S
      BY DEF Below
    <3>2. QED
      BY <3>1, SubsetSizes
  <2>2. CASE <<x, y>> \in R
    <3>1. Cardinality(Below(S, R, x)) < Cardinality(Below(S, R, y))
      BY <2>2, RanksGrow
    <3>2. QED
      BY <3>1, <2>1
  <2>3. CASE <<y, x>> \in R
    <3>1. Cardinality(Below(S, R, y)) < Cardinality(Below(S, R, x))
      BY <2>3, RanksGrow
    <3>2. QED
      BY <3>1, <2>1
  <2>4. QED
    BY <2>2, <2>3, <1>3 DEF StrictOrder
<1>4. rank \in Injection(S, 1 .. n)
  <2>1. rank \in [S -> 1 .. n]
    BY <1>2
  <2> HIDE DEF rank
  <2>2. QED
    BY <2>1, <1>3 DEF Injection, IsInjective
<1>5. IsFiniteSet(1 .. n) /\ Cardinality(1 .. n) = n
  <2>1. /\ IsFiniteSet(1 .. n) /\ Cardinality(1 .. n) = IF 1 > n THEN 0 ELSE n - 1 + 1
    BY <1>1, FS_Interval
  <2>2. QED
    BY <2>1, <1>1
<1>6. rank \in Surjection(S, 1 .. n)
  <2> HIDE DEF rank, n
  <2>1. Cardinality(S) = Cardinality(1 .. n)
    BY <1>5 DEF n
  <2>2. QED
    BY <1>4, <1>5, <2>1, FS_Injection
<1>7. PICK x \in S : rank[x] = i
  <2> HIDE DEF rank
  <2>1. i \in 1 .. n
    OBVIOUS
  <2>2. QED
    BY <1>6, <2>1 DEF Surjection
<1>8. Below(S, R, x) \in SUBSET S
  BY DEF Below
<1>9. Cardinality(Below(S, R, x)) \in Nat
  BY <1>8, SubsetSizes
<1>10. QED
  BY <1>7, <1>9

\* The same of the sequence that lists the elements by their rank.
Ranked(S, R, s) ==
  /\ s \in [1 .. Cardinality(S) -> S]
  /\ \A i \in 1 .. Cardinality(S) : Cardinality(Below(S, R, s[i])) = i - 1

\* A list by rank lists its set: every element once, each after those below it.
LEMMA RankedLists ==
  ASSUME NEW S, IsFiniteSet(S), NEW R, StrictOrder(S, R), NEW s, Ranked(S, R, s)
  PROVE  /\ s \in Seq(S) /\ Len(s) = Cardinality(S)
         /\ DOMAIN s = 1 .. Cardinality(S) /\ Cardinality(S) \in Nat
         /\ \A i, j \in 1 .. Cardinality(S) : i < j => <<s[i], s[j]>> \in R
         /\ \A x \in S : \E i \in 1 .. Cardinality(S) : s[i] = x
<1> DEFINE n == Cardinality(S)
           rank(x) == Cardinality(Below(S, R, x))
<1>1. n \in Nat
  BY FS_CardinalityType
<1>2. \A i \in 1 .. n : s[i] \in S /\ rank(s[i]) = i - 1
  BY DEF Ranked
<1>4. s \in Seq(S) /\ Len(s) = n /\ DOMAIN s = 1 .. n
  <2>1. s \in [1 .. n -> S]
    BY DEF Ranked
  <2> HIDE DEF n
  <2>2. QED
    BY <1>1, <2>1
<1>5. \A x \in S : rank(x) \in Nat /\ rank(x) <= n /\ (\E y \in S : rank(y) = rank(x)) /\ rank(x) < n
  <2> SUFFICES ASSUME NEW x \in S PROVE rank(x) \in Nat /\ rank(x) < n
    BY <1>1
  <2>1. Below(S, R, x) \in SUBSET (S \ {x})
    BY DEF Below, StrictOrder
  <2>2. IsFiniteSet(S \ {x}) /\ Cardinality(S \ {x}) = n - 1
    BY FS_RemoveElement
  <2>3. Cardinality(Below(S, R, x)) \in Nat /\ Cardinality(Below(S, R, x)) <= n - 1
    BY <2>1, <2>2, SubsetSizes
  <2>4. QED
    BY <2>3, <1>1
<1>6. \A x, y \in S : <<x, y>> \in R => rank(x) < rank(y)
  BY RanksGrow
<1>7. \A i, j \in 1 .. n : i < j => <<s[i], s[j]>> \in R
  <2> SUFFICES ASSUME NEW i \in 1 .. n, NEW j \in 1 .. n, i < j PROVE <<s[i], s[j]>> \in R
    OBVIOUS
  <2>1. s[i] \in S /\ s[j] \in S /\ rank(s[i]) = i - 1 /\ rank(s[j]) = j - 1
    BY <1>2
  <2> HIDE DEF rank
  <2>2. s[i] # s[j]
    BY <2>1
  <2>3. ~ (<<s[j], s[i]>> \in R)
    BY <2>1, <1>6
  <2>4. QED
    BY <2>1, <2>2, <2>3 DEF StrictOrder
<1>8. ASSUME NEW x \in S PROVE \E i \in 1 .. n : s[i] = x
  <2>1. rank(x) \in Nat /\ rank(x) + 1 \in 1 .. n
    BY <1>5, <1>1
  <2>2. s[rank(x) + 1] \in S /\ rank(s[rank(x) + 1]) = rank(x)
    <3>1. s[rank(x) + 1] \in S /\ rank(s[rank(x) + 1]) = rank(x) + 1 - 1
      BY <1>2, <2>1
    <3>2. QED
      BY <3>1, <2>1
  <2> DEFINE y == s[rank(x) + 1]
  <2>3. y \in S /\ rank(y) = rank(x)
    BY <2>2
  <2>4. <<x, y>> \notin R /\ <<y, x>> \notin R
    <3>1. <<x, y>> \in R => rank(x) < rank(y)
      BY <1>6, <2>3
    <3>2. <<y, x>> \in R => rank(y) < rank(x)
      BY <1>6, <2>3
    <3> HIDE DEF rank, y
    <3>3. QED
      BY <3>1, <3>2, <2>3, <2>1
  <2> HIDE DEF rank
  <2>5. x = y
    <3> HIDE DEF y
    <3>1. QED
      BY <2>3, <2>4 DEF StrictOrder
  <2>6. QED
    BY <2>5, <2>1
<1>9. QED
  BY <1>1, <1>4, <1>7, <1>8

\* Integers in their order.
Smaller(S) == {p \in S \X S : p[1] < p[2]}
\* InOrder (sorted(), source order) lists a set of integers once each, in ascending order.
LEMMA OrderedInts ==
  ASSUME NEW S \in SUBSET Int, IsFiniteSet(S), NEW s, s = InOrder(S)
  PROVE  /\ s \in Seq(S) /\ Len(s) = Cardinality(S)
         /\ DOMAIN s = 1 .. Cardinality(S) /\ Cardinality(S) \in Nat
         /\ \A i, j \in 1 .. Cardinality(S) : i < j => s[i] < s[j]
         /\ \A x \in S : \E i \in 1 .. Cardinality(S) : s[i] = x
<1> DEFINE R == Smaller(S)
<1>1. StrictOrder(S, R)
  BY DEF StrictOrder, Smaller
<1>2. \A x \in S : Below(S, R, x) = {y \in S : y < x}
  BY DEF Below, Smaller
<1>3. IsFiniteSet(S) /\ Cardinality(S) \in Nat
  BY FS_CardinalityType
<1>4. \A i \in 1 .. Cardinality(S) : \E x \in S : Cardinality({y \in S : y < x}) = i - 1
  <2> SUFFICES ASSUME NEW i \in 1 .. Cardinality(S)
               PROVE  \E x \in S : Cardinality({y \in S : y < x}) = i - 1
    OBVIOUS
  <2> HIDE DEF R
  <2>1. PICK x \in S : Cardinality(Below(S, R, x)) = i - 1
    BY <1>1, RanksTaken
  <2>2. QED
    BY <2>1, <1>2
<1>5. /\ s \in [1 .. Cardinality(S) -> S]
      /\ \A i \in 1 .. Cardinality(S) : s[i] \in S /\ Cardinality({y \in S : y < s[i]}) = i - 1
  BY <1>4 DEF InOrder, Arranged
<1>6. Ranked(S, R, s)
  <2> HIDE DEF R
  <2>1. QED
    BY <1>5, <1>2 DEF Ranked
<1>7. \A a, b : <<a, b>> \in R => a < b
  BY DEF Smaller
<1> HIDE DEF R
<1>8. /\ s \in Seq(S) /\ Len(s) = Cardinality(S)
      /\ DOMAIN s = 1 .. Cardinality(S) /\ Cardinality(S) \in Nat
      /\ \A i, j \in 1 .. Cardinality(S) : i < j => <<s[i], s[j]>> \in R
      /\ \A x \in S : \E i \in 1 .. Cardinality(S) : s[i] = x
  BY <1>1, <1>6, RankedLists
<1>9. QED
  BY <1>7, <1>8

-------------------------------------------------------------------------------
(* What is sorted once and picked by its place                             *)

\* Only one sequence lists a set of integers in their order.
LEMMA OneOrder ==
  ASSUME NEW S \in SUBSET Int, NEW n \in Nat, NEW t \in [1 .. n -> S],
         \A i, j \in 1 .. n : i < j => t[i] < t[j],
         \A x \in S : \E i \in 1 .. n : t[i] = x
  PROVE  IsFiniteSet(S) /\ Cardinality(S) = n /\ InOrder(S) = t
<1>1. IsFiniteSet(1 .. n) /\ Cardinality(1 .. n) = n
  <2>1. IsFiniteSet(1 .. n) /\ Cardinality(1 .. n) = IF 1 > n THEN 0 ELSE n - 1 + 1
    BY FS_Interval
  <2>2. QED
    BY <2>1
<1>2. t \in Injection(1 .. n, S) /\ t \in Surjection(1 .. n, S)
  <2>1. \A i, j \in 1 .. n : t[i] = t[j] => i = j
    <3> SUFFICES ASSUME NEW i \in 1 .. n, NEW j \in 1 .. n, i # j PROVE t[i] # t[j]
      OBVIOUS
    <3>1. t[i] \in S /\ t[j] \in S
      OBVIOUS
    <3>2. t[i] \in Int /\ t[j] \in Int
      BY <3>1
    <3>3. i < j \/ j < i
      OBVIOUS
    <3>4. QED
      BY <3>2, <3>3
  <2>2. QED
    BY <2>1 DEF Injection, IsInjective, Surjection
<1>3. IsFiniteSet(S) /\ Cardinality(S) = n
  BY <1>1, <1>2, FS_Surjection
<1> DEFINE s == InOrder(S)
<1>4. /\ s \in Seq(S) /\ Len(s) = n /\ DOMAIN s = 1 .. n
      /\ \A i, j \in 1 .. n : i < j => s[i] < s[j]
      /\ \A x \in S : \E i \in 1 .. n : s[i] = x
  <2> HIDE DEF s
  <2>1. s = InOrder(S)
    BY DEF s
  <2>2. QED
    BY <1>3, <2>1, OrderedInts
<1> HIDE DEF s
<1>5. \A i \in 1 .. n : s[i] \in S /\ t[i] \in S /\ s[i] \in Int /\ t[i] \in Int
  BY <1>4, ElementOfSeq
<1>6. ASSUME NEW k \in 1 .. n, s[k] # t[k] PROVE FALSE
  <2> DEFINE N == {i \in Nat : i \in 1 .. n /\ s[i] # t[i]}
  <2>1. PICK m \in N : \A i \in N : m <= i
    <3>1. k \in N
      BY <1>6
    <3> HIDE DEF N
    <3>2. N \in SUBSET Nat
      BY DEF N
    <3>3. QED
      BY <3>1, <3>2, LeastNatural
  <2>2. \A i \in 1 .. n : i < m => s[i] = t[i]
    BY <2>1
  <2>3. PICK a \in 1 .. n : t[a] = s[m]
    BY <2>1, <1>5
  <2>4. PICK b \in 1 .. n : s[b] = t[m]
    BY <2>1, <1>4, <1>5
  <2>5. m \in 1 .. n /\ s[m] # t[m] /\ m \in Nat
    BY <2>1
  <2>6. a # m /\ b # m
    BY <2>3, <2>4, <2>5
  <2>7. CASE s[m] < t[m]
    <3>1. a < m
      BY <2>3, <2>5, <2>6, <2>7, <1>5
    <3>2. s[a] = t[a] /\ s[a] < s[m]
      BY <3>1, <2>2, <2>5, <1>4
    <3>3. QED
      BY <3>2, <2>3, <1>5
  <2>8. CASE t[m] < s[m]
    <3>1. b < m
      BY <2>4, <2>5, <2>6, <2>8, <1>4, <1>5
    <3>2. s[b] = t[b] /\ t[b] < t[m]
      BY <3>1, <2>2, <2>5
    <3>3. QED
      BY <3>2, <2>4, <1>5
  <2>9. QED
    BY <2>5, <2>7, <2>8, <1>5
<1>7. s = t
  BY <1>4, <1>6, LenProperties
<1>8. QED
  BY <1>3, <1>7 DEF s

\* A finite set of integers that is not empty has a least and a greatest element.
LEMMA Extremes ==
  ASSUME NEW S \in SUBSET Int, IsFiniteSet(S), S # {}
  PROVE  /\ Min(S) \in S /\ \A x \in S : Min(S) <= x
         /\ Max(S) \in S /\ \A x \in S : Max(S) >= x
<1> DEFINE s == InOrder(S)
           n == Cardinality(S)
<1>1. /\ s \in Seq(S) /\ Len(s) = n /\ DOMAIN s = 1 .. n /\ n \in Nat
      /\ \A i, j \in 1 .. n : i < j => s[i] < s[j]
      /\ \A x \in S : \E i \in 1 .. n : s[i] = x
  BY OrderedInts
<1>2. n # 0
  BY FS_EmptySet
<1> HIDE DEF s, n
<1>3. \A i \in 1 .. n : s[i] \in S /\ s[i] \in Int
  BY <1>1, ElementOfSeq
<1>4. s[1] \in S /\ \A x \in S : s[1] <= x
  <2>1. \A i \in 1 .. n : s[1] <= s[i]
    BY <1>1, <1>2, <1>3
  <2>2. QED
    BY <1>1, <1>2, <1>3, <2>1
<1>5. s[n] \in S /\ \A x \in S : s[n] >= x
  <2>1. \A i \in 1 .. n : s[n] >= s[i]
    BY <1>1, <1>2, <1>3
  <2>2. QED
    BY <1>1, <1>2, <1>3, <2>1
<1>6. Min(S) \in S /\ \A x \in S : Min(S) <= x
  BY <1>4 DEF Min
<1>7. Max(S) \in S /\ \A x \in S : Max(S) >= x
  BY <1>5 DEF Max
<1>8. QED
  BY <1>6, <1>7

\* What is picked, by the order of the places.
PickedAs(T, seq, places, spot) ==
  /\ Picked(seq, places) \in Seq(T) /\ Len(Picked(seq, places)) = Len(spot)
  /\ DOMAIN Picked(seq, places) = 1 .. Len(spot)
  /\ spot \in Seq(places) /\ Len(spot) \in Nat
  /\ \A k \in 1 .. Len(spot) : spot[k] \in places /\ Picked(seq, places)[k] = seq[spot[k]]
  /\ \A k, l \in 1 .. Len(spot) : k < l => spot[k] < spot[l]
  /\ \A p \in places : \E k \in 1 .. Len(spot) : spot[k] = p

\* What is picked from a sequence: elements of it, in their order.
LEMMA PickedElements ==
  ASSUME NEW T, NEW seq \in Seq(T), NEW places \in SUBSET (DOMAIN seq), NEW spot, spot = InOrder(places)
  PROVE  PickedAs(T, seq, places, spot)
<1>1. DOMAIN seq = 1 .. Len(seq) /\ Len(seq) \in Nat /\ \A i \in DOMAIN seq : seq[i] \in T
  BY LenProperties, ElementOfSeq
<1>2. IsFiniteSet(places)
  <2>1. IsFiniteSet(1 .. Len(seq))
    BY <1>1, FS_Interval
  <2>2. QED
    BY <1>1, <2>1, SubsetSizes
<1>3. places \in SUBSET Int
  BY <1>1
<1> DEFINE n == Cardinality(places)
<1>4. /\ spot \in Seq(places) /\ Len(spot) = n /\ DOMAIN spot = 1 .. n /\ n \in Nat
      /\ \A k, l \in 1 .. n : k < l => spot[k] < spot[l]
      /\ \A p \in places : \E k \in 1 .. n : spot[k] = p
  <2>1. \A s : s = InOrder(places) =>
          /\ s \in Seq(places) /\ Len(s) = Cardinality(places)
          /\ DOMAIN s = 1 .. Cardinality(places) /\ Cardinality(places) \in Nat
          /\ \A i, j \in 1 .. Cardinality(places) : i < j => s[i] < s[j]
          /\ \A x \in places : \E i \in 1 .. Cardinality(places) : s[i] = x
    BY <1>2, <1>3, OrderedInts
  <2>2. QED
    BY <2>1
<1> HIDE DEF n
<1>5. \A k \in 1 .. n : spot[k] \in places /\ seq[spot[k]] \in T
  BY <1>4, <1>1, ElementOfSeq
<1>6. Picked(seq, places) = [k \in 1 .. n |-> seq[spot[k]]]
  BY <1>4 DEF Picked
<1>7. Picked(seq, places) \in [1 .. n -> T]
  BY <1>5, <1>6
<1>8. Picked(seq, places) \in Seq(T) /\ Len(Picked(seq, places)) = n
      /\ DOMAIN Picked(seq, places) = 1 .. n
  BY <1>4, <1>7
<1>9. QED
  BY <1>4, <1>5, <1>6, <1>8 DEF PickedAs

-------------------------------------------------------------------------------
(* Joining the sequences of a sequence                                     *)

\* The recursion of FlattenSeq over the first n sequences has a solution.
Flattening(f, q, n) == f = [i \in 1 .. n |-> IF i = 1 THEN q[i] ELSE f[i - 1] \o q[i]]
\* The recursion that concatenates the first n lists has a solution.
LEMMA FlatteningExists ==
  ASSUME NEW q, NEW n \in Nat
  PROVE  \E f : Flattening(f, q, n)
<1> DEFINE Q == {k \in Nat : \E f : Flattening(f, q, k)}
<1>1. 0 \in Q
  <2> DEFINE f == [i \in 1 .. 0 |-> q[i]]
  <2>1. Flattening(f, q, 0)
    BY DEF Flattening
  <2>2. QED
    BY <2>1
<1>2. ASSUME NEW k \in Q PROVE k + 1 \in Q
  <2>1. PICK f : Flattening(f, q, k)
    OBVIOUS
  <2> DEFINE g == [i \in 1 .. k + 1 |-> IF i = 1 THEN q[i] ELSE f[i - 1] \o q[i]]
  <2>2. f = [i \in 1 .. k |-> IF i = 1 THEN q[i] ELSE f[i - 1] \o q[i]]
    BY <2>1 DEF Flattening
  <2>3. \A i \in 1 .. k : g[i] = f[i]
    <3> DEFINE h == [i \in 1 .. k |-> IF i = 1 THEN q[i] ELSE f[i - 1] \o q[i]]
    <3>1. \A i \in 1 .. k : i \in 1 .. k + 1 /\ h[i] = g[i]
      OBVIOUS
    <3> HIDE DEF h, g
    <3>2. h = f
      BY <2>2 DEF h
    <3>3. QED
      BY <3>1, <3>2
  <2>4. \A i \in 1 .. k + 1 : i # 1 => i - 1 \in 1 .. k
    OBVIOUS
  <2>5. g = [i \in 1 .. k + 1 |-> IF i = 1 THEN q[i] ELSE g[i - 1] \o q[i]]
    <3>1. \A i \in 1 .. k + 1 : (IF i = 1 THEN q[i] ELSE f[i - 1] \o q[i]) =
                             (IF i = 1 THEN q[i] ELSE g[i - 1] \o q[i])
      <4> HIDE DEF g
      <4>1. QED
        BY <2>3, <2>4
    <3>2. QED
      BY <3>1
  <2>6. Flattening(g, q, k + 1)
    <3> HIDE DEF g
    <3>1. QED
      BY <2>5 DEF Flattening
  <2>7. QED
    BY <2>6
<1>3. Q = Nat
  <2> HIDE DEF Q
  <2>1. Q \in SUBSET Nat
    BY DEF Q
  <2>2. QED
    BY <1>1, <1>2, <2>1, SetInduction
<1>4. QED
  BY <1>3
================================================================================
