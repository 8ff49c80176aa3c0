-------------------------- MODULE SessionWorkflowProofs ------------------------
(***************************************************************************)
(* Theorems about a session, for every number of frames, every judge and   *)
(* every capacity: what segmentation and stitching hand on, what the cuts  *)
(* of sequences that overflow downstream may and may not do, and how often *)
(* each is counted.  They follow from one inductive invariant, SessionInv. *)
(* Before it, facts on the sorts, the recursions and the folds that the    *)
(* code of a session consists of.                                          *)
(***************************************************************************)
EXTENDS SessionWorkflow, CollectionTheorems, SequenceTheorems, TLAPS

-------------------------------------------------------------------------------
(* Lists of sets that tile a set                                           *)

\* The sequences of q have members, share none, and have together those of M.
Tiles(q, M) ==
  /\ \A i \in DOMAIN q : q[i].pos # {}
  /\ \A i, j \in DOMAIN q : i # j => q[i].pos \cap q[j].pos = {}
  /\ \A i \in DOMAIN q : \A x \in q[i].pos : x \in M
  /\ \A x \in M : \E i \in DOMAIN q : x \in q[i].pos

\* Lists that tile two disjoint sets tile their union together.
LEMMA TilesConcat ==
  ASSUME NEW T, NEW q \in Seq(T), NEW r \in Seq(T), NEW M, NEW N, M \cap N = {},
         Tiles(q, M), Tiles(r, N)
  PROVE  Tiles(q \o r, M \cup N)
<1> DEFINE s == q \o r
           a == Len(q)
           b == Len(r)
<1>1. a \in Nat /\ b \in Nat /\ DOMAIN q = 1 .. a /\ DOMAIN r = 1 .. b
  BY LenProperties
<1>2. s \in Seq(T) /\ Len(s) = a + b /\ \A i \in 1 .. a + b : s[i] = IF i <= a THEN q[i] ELSE r[i - a]
  BY ConcatProperties
<1>3. DOMAIN s = 1 .. a + b
  <2> HIDE DEF s, a, b
  <2>1. QED
    BY <1>2, LenProperties
<1> HIDE DEF s, a, b
<1>4. \A i \in 1 .. a + b : IF i <= a THEN i \in DOMAIN q ELSE i - a \in DOMAIN r
  BY <1>1
<1>9. ASSUME NEW i \in DOMAIN r PROVE i + a \in DOMAIN s /\ s[i + a] = r[i]
  <2> DEFINE c == i + a
  <2>1. i \in 1 .. b
    BY <1>1
  <2>2. c \in 1 .. a + b /\ ~ (c <= a) /\ c - a = i
    BY <2>1, <1>1
  <2> HIDE DEF c
  <2>3. s[c] = r[c - a]
    BY <2>2, <1>2
  <2>4. c \in DOMAIN s /\ s[c] = r[i]
    BY <2>2, <2>3, <1>3
  <2>5. QED
    BY <2>4 DEF c
<1>5. \A i \in DOMAIN s : s[i].pos # {} /\ \A x \in s[i].pos : IF i <= a THEN x \in M ELSE x \in N
  BY <1>2, <1>3, <1>4 DEF Tiles
<1>6. ASSUME NEW i \in DOMAIN s, NEW j \in DOMAIN s, i # j PROVE s[i].pos \cap s[j].pos = {}
  <2>1. CASE i <= a /\ j <= a
    BY <2>1, <1>2, <1>3, <1>4, <1>6 DEF Tiles
  <2>2. CASE ~ (i <= a) /\ ~ (j <= a)
    <3>1. i - a # j - a
      BY <1>1, <1>3, <1>6
    <3>2. s[i] = r[i - a] /\ s[j] = r[j - a] /\ i - a \in DOMAIN r /\ j - a \in DOMAIN r
      BY <2>2, <1>2, <1>3, <1>4
    <3>3. QED
      BY <3>1, <3>2 DEF Tiles
  <2>3. CASE (i <= a /\ ~ (j <= a)) \/ (~ (i <= a) /\ j <= a)
    <3>1. (\A x \in s[i].pos : IF i <= a THEN x \in M ELSE x \in N)
          /\ (\A x \in s[j].pos : IF j <= a THEN x \in M ELSE x \in N)
      BY <1>5
    <3>2. QED
      BY <2>3, <3>1
  <2>4. QED
    BY <2>1, <2>2, <2>3
<1>7. ASSUME NEW x \in M \cup N PROVE \E i \in DOMAIN s : x \in s[i].pos
  <2>1. CASE x \in M
    <3>1. PICK i \in DOMAIN q : x \in q[i].pos
      BY <2>1 DEF Tiles
    <3>2. i \in 1 .. a + b /\ i <= a
      BY <1>1
    <3>3. s[i] = q[i]
      BY <3>2, <1>2
    <3>4. QED
      BY <3>1, <3>2, <3>3, <1>3
  <2>2. CASE x \in N
    <3>1. PICK i \in DOMAIN r : x \in r[i].pos
      BY <2>2 DEF Tiles
    <3>2. i + a \in DOMAIN s /\ s[i + a] = r[i]
      BY <1>9
    <3>3. QED
      BY <3>1, <3>2
  <2>3. QED
    BY <2>1, <2>2
<1>8. Tiles(s, M \cup N)
  <2>1. \A i \in DOMAIN s : \A x \in s[i].pos : x \in M \cup N
    BY <1>5
  <2>2. QED
    BY <1>5, <1>6, <1>7, <2>1 DEF Tiles
<1>10. QED
  BY <1>8 DEF s

\* Members of the first n sets.
FirstOf(m, n) == {x \in UNION {m[i] : i \in DOMAIN m} : \E i \in 1 .. n : x \in m[i]}

\* Sequences that tile sets which share nothing tile their union when they are joined.
LEMMA FlattenTiles ==
  ASSUME NEW T, NEW q \in Seq(Seq(T)), NEW m, DOMAIN m = DOMAIN q,
         \A i \in DOMAIN q : Tiles(q[i], m[i]),
         \A i, j \in DOMAIN q : i # j => m[i] \cap m[j] = {}
  PROVE  /\ FlattenSeq(q) \in Seq(T)
         /\ Tiles(FlattenSeq(q), UNION {m[i] : i \in DOMAIN m})
<1> DEFINE n == Len(q)
<1>1. n \in Nat /\ DOMAIN q = 1 .. n /\ \A i \in 1 .. n : q[i] \in Seq(T)
  BY LenProperties, ElementOfSeq
<1>2. CASE n = 0
  <2>1. FlattenSeq(q) = q
    BY <1>2 DEF FlattenSeq
  <2>2. q = <<>> /\ DOMAIN q = {}
    BY <1>1, <1>2
  <2>3. QED
    BY <2>1, <2>2 DEF Tiles
<1>3. CASE n # 0
  <2> DEFINE f == CHOOSE f : Flattening(f, q, n)
  <2>1. FlattenSeq(q) = f[n]
    BY <1>3 DEF FlattenSeq, Flattening
  <2>2. Flattening(f, q, n)
    BY <1>1, FlatteningExists
  <2> HIDE DEF f, n
  <2>3. \A i \in 1 .. n : f[i] = IF i = 1 THEN q[i] ELSE f[i - 1] \o q[i]
    BY <2>2, Zenon DEF Flattening
  <2> DEFINE Good(i) == f[i] \in Seq(T) /\ Tiles(f[i], FirstOf(m, i))
             Q == {i \in Nat : i \in 1 .. n => Good(i)}
  <2>4. 0 \in Q
    OBVIOUS
  <2>5. ASSUME NEW i \in Q PROVE i + 1 \in Q
    <3> SUFFICES ASSUME i + 1 \in 1 .. n PROVE Good(i + 1)
      OBVIOUS
    <3>1. q[i + 1] \in Seq(T) /\ Tiles(q[i + 1], m[i + 1]) /\ i + 1 \in DOMAIN m
      BY <1>1
    <3>2. CASE i = 0
      <4>1. f[i + 1] = q[i + 1]
        BY <2>3, <3>2
      <4>2. FirstOf(m, i + 1) = m[i + 1]
        BY <3>1, <3>2 DEF FirstOf
      <4>3. QED
        BY <3>1, <4>1, <4>2
    <3>3. CASE i # 0
      <4>1. i \in 1 .. n /\ i + 1 # 1 /\ i + 1 - 1 = i
        BY <1>1, <3>3
      <4>2. f[i] \in Seq(T) /\ Tiles(f[i], FirstOf(m, i))
        BY <4>1
      <4>3. f[i + 1] = f[i] \o q[i + 1]
        <5>1. f[i + 1] = IF i + 1 = 1 THEN q[i + 1] ELSE f[i + 1 - 1] \o q[i + 1]
          BY <2>3
        <5>2. QED
          BY <5>1, <4>1
      <4>4. FirstOf(m, i) \cap m[i + 1] = {}
        <5>1. ASSUME NEW k \in 1 .. i PROVE m[k] \cap m[i + 1] = {}
          <6>1. k \in DOMAIN q /\ i + 1 \in DOMAIN q /\ k # i + 1
            BY <1>1
          <6>2. QED
            BY <6>1
        <5>2. QED
          BY <5>1 DEF FirstOf
      <4>5. FirstOf(m, i + 1) = FirstOf(m, i) \cup m[i + 1]
        <5>1. \A k \in 1 .. i + 1 : k \in 1 .. i \/ k = i + 1
          OBVIOUS
        <5>2. 1 .. i \subseteq 1 .. i + 1 /\ i + 1 \in 1 .. i + 1
          OBVIOUS
        <5>3. QED
          BY <5>1, <5>2, <3>1 DEF FirstOf
      <4>6. f[i] \o q[i + 1] \in Seq(T)
        BY <4>2, <3>1, ConcatProperties
      <4>7. Tiles(f[i] \o q[i + 1], FirstOf(m, i) \cup m[i + 1])
        BY <4>2, <3>1, <4>4, TilesConcat
      <4>8. QED
        BY <4>3, <4>5, <4>6, <4>7
    <3>4. QED
      BY <3>2, <3>3
  <2>6. Q = Nat
    <3> HIDE DEF Q
    <3>1. Q \in SUBSET Nat
      BY DEF Q
    <3>2. QED
      BY <2>4, <2>5, <3>1, SetInduction
  <2>7. Good(n)
    BY <2>6, <1>1, <1>3
  <2>8. FirstOf(m, n) = UNION {m[i] : i \in DOMAIN m}
    BY <1>1 DEF FirstOf
  <2>9. QED
    BY <2>1, <2>7, <2>8
<1>4. QED
  BY <1>2, <1>3

-------------------------------------------------------------------------------
(* Recursions that join pieces from the front                              *)

\* The recursion that joins pieces from the place i on, from step to step up to b.
Joining(F, a, b, piece, step, last) ==
  F = [i \in a .. b |-> IF i \in last THEN piece[i] ELSE piece[i] \o F[step[i]]]

\* That recursion has a solution when every piece names a later place to go on from.
LEMMA JoiningExists ==
  ASSUME NEW a \in Int, NEW b \in Int, a <= b, NEW piece, NEW step, NEW last,
         \A i \in a .. b : i \notin last => step[i] \in i + 1 .. b
  PROVE  \E F : Joining(F, a, b, piece, step, last)
<1> DEFINE Q == {k \in Nat : k <= b - a => \E F : Joining(F, b - k, b, piece, step, last)}
<1>1. 0 \in Q
  <2> DEFINE F == [i \in b - 0 .. b |-> piece[i]]
  <2>1. \A i \in b - 0 .. b : i \in last
    <3> SUFFICES ASSUME NEW i \in b - 0 .. b, i \notin last PROVE FALSE
      OBVIOUS
    <3>1. i = b /\ i \in a .. b
      OBVIOUS
    <3>2. step[i] \in i + 1 .. b
      BY <3>1
    <3>3. QED
      BY <3>1, <3>2
  <2>2. Joining(F, b - 0, b, piece, step, last)
    BY <2>1 DEF Joining
  <2> HIDE DEF F
  <2>3. QED
    BY <2>2
<1>2. ASSUME NEW k \in Q PROVE k + 1 \in Q
  <2> SUFFICES ASSUME k + 1 <= b - a PROVE \E F : Joining(F, b - (k + 1), b, piece, step, last)
    OBVIOUS
  <2>1. PICK F : Joining(F, b - k, b, piece, step, last)
    OBVIOUS
  <2> DEFINE c == b - k
             d == b - (k + 1)
             G == [i \in d .. b |-> IF i \in last THEN piece[i] ELSE piece[i] \o F[step[i]]]
  <2>2. c \in Int /\ d \in Int /\ d + 1 = c /\ a <= d /\ c <= b
    OBVIOUS
  <2>3. F = [i \in c .. b |-> IF i \in last THEN piece[i] ELSE piece[i] \o F[step[i]]]
    BY <2>1 DEF Joining
  <2> HIDE DEF c, d
  <2>4. \A i \in c .. b : i \in d .. b /\ G[i] = F[i]
    <3> DEFINE H == [i \in c .. b |-> IF i \in last THEN piece[i] ELSE piece[i] \o F[step[i]]]
    <3>1. \A i \in c .. b : i \in d .. b /\ H[i] = G[i]
      BY <2>2
    <3> HIDE DEF H, G
    <3>2. H = F
      BY <2>3 DEF H
    <3>3. QED
      BY <3>1, <3>2
  <2>5. \A i \in d .. b : i \notin last => step[i] \in c .. b
    <3> SUFFICES ASSUME NEW i \in d .. b, i \notin last PROVE step[i] \in c .. b
      OBVIOUS
    <3>1. i \in a .. b
      BY <2>2
    <3>2. step[i] \in i + 1 .. b
      BY <3>1
    <3>3. QED
      BY <3>2, <2>2
  <2>6. G = [i \in d .. b |-> IF i \in last THEN piece[i] ELSE piece[i] \o G[step[i]]]
    <3>1. \A i \in d .. b : (IF i \in last THEN piece[i] ELSE piece[i] \o F[step[i]])
                              = IF i \in last THEN piece[i] ELSE piece[i] \o G[step[i]]
      <4> HIDE DEF G
      <4>1. QED
        BY <2>4, <2>5
    <3>2. QED
      BY <3>1
  <2>7. Joining(G, d, b, piece, step, last)
    <3> HIDE DEF G
    <3>1. QED
      BY <2>6 DEF Joining
  <2>8. QED
    BY <2>7 DEF d
<1>3. Q = Nat
  <2> HIDE DEF Q
  <2>1. Q \in SUBSET Nat
    BY DEF Q
  <2>2. QED
    BY <1>1, <1>2, <2>1, SetInduction
<1>4. b - a \in Nat /\ b - (b - a) = a
  OBVIOUS
<1>5. b - a \in Q
  BY <1>3, <1>4
<1>6. QED
  BY <1>4, <1>5

-------------------------------------------------------------------------------
(* The parts of a sequence that is too long for its stage                  *)

\* The sizes of a configuration are natural numbers.
LEMMA ConfigTyped ==
  ASSUME cfg \in Configs
  PROVE  /\ Frames \in Nat \ {0} /\ IsFiniteSet(Positions)
         /\ cfg.room \in Nat /\ cfg.min_len \in Nat \ {0} /\ cfg.max_open \in Nat \ {0}
         /\ cfg.window \in Nat /\ cfg.window >= 2 /\ cfg.budget \in Nat /\ cfg.votes \in Nat \ {0}
<1>1. Frames \in Nat \ {0} /\ cfg.room \in Nat /\ cfg.min_len \in Nat \ {0}
      /\ cfg.max_open \in Nat \ {0}
      /\ cfg.window \in Nat /\ cfg.window >= 2 /\ cfg.budget \in Nat /\ cfg.votes \in Nat \ {0}
  BY SegmentationAssumption DEF ConfigOK, Frames
<1>2. IsFiniteSet(0 .. Frames - 1)
  BY <1>1, FS_Interval
<1>3. QED
  BY <1>1, <1>2 DEF Positions

\* Sets of positions are finite sets of natural numbers.
LEMMA MembersFinite ==
  ASSUME cfg \in Configs, NEW members \in SUBSET Positions
  PROVE  /\ IsFiniteSet(members) /\ members \in SUBSET Int /\ members \in SUBSET Nat
         /\ Cardinality(members) \in Nat /\ (Cardinality(members) = 0 <=> members = {})
         /\ \A x \in members : 0 <= x /\ x < Frames
<1>1. IsFiniteSet(Positions) /\ Frames \in Nat
  BY ConfigTyped
<1>2. IsFiniteSet(members) /\ Cardinality(members) \in Nat
      /\ (Cardinality(members) = 0 <=> members = {})
  BY <1>1, SubsetSizes
<1>3. QED
  BY <1>1, <1>2 DEF Positions

\* The members of a sequence, in source order.
LEMMA MembersOrdered ==
  ASSUME cfg \in Configs, NEW members \in SUBSET Positions, NEW s, s = InOrder(members), NEW n,
         n = Len(s)
  PROVE  /\ s \in Seq(members) /\ n = Cardinality(members) /\ DOMAIN s = 1 .. n /\ n \in Nat
         /\ \A i \in 1 .. n : s[i] \in members /\ s[i] \in Nat
         /\ \A i, j \in 1 .. n : i < j => s[i] < s[j]
         /\ \A x \in members : \E i \in 1 .. n : s[i] = x
         /\ members # {} => n # 0
<1>1. IsFiniteSet(members) /\ members \in SUBSET Int /\ members \in SUBSET Nat
  BY MembersFinite
<1>2. /\ s \in Seq(members) /\ Len(s) = Cardinality(members)
      /\ DOMAIN s = 1 .. Cardinality(members) /\ Cardinality(members) \in Nat
      /\ \A i, j \in 1 .. Cardinality(members) : i < j => s[i] < s[j]
      /\ \A x \in members : \E i \in 1 .. Cardinality(members) : s[i] = x
  BY <1>1, OrderedInts
<1>3. \A i \in 1 .. Cardinality(members) : s[i] \in members
  BY <1>2, ElementOfSeq
<1>4. n = Cardinality(members)
  BY <1>2
<1>5. members # {} => n # 0
  BY <1>2, <1>4
<1>6. QED
  BY <1>1, <1>2, <1>3, <1>4, <1>5

\* The parts of Partition, by the place of their first member.
ReachOf(s, i) ==
  Max({i - 1} \union {j \in i .. Len(s) : \A k \in i .. j : Preview({s[x] : x \in i .. k}) = "fits"})
StopOf(s, i) == Max({ReachOf(s, i), i})
PartOf(s, i) == [pos |-> {s[x] : x \in i .. StopOf(s, i)}, failed |-> ReachOf(s, i) < i]
Parting(F, s) ==
  F = [i \in 1 .. Len(s) + 1 |->
        IF i > Len(s) THEN <<>> ELSE <<PartOf(s, i)>> \o F[StopOf(s, i) + 1]]

\* Partition, in the names used here.
LEMMA PartitionIs ==
  ASSUME NEW members, NEW s, s = InOrder(members)
  PROVE  Partition(members) =
           IF Preview({s[1]}) = "fixed" THEN <<[pos |-> members, failed |-> FALSE]>>
           ELSE (CHOOSE F : Parting(F, s))[1]
BY DEF Partition, Parting, PartOf, StopOf, ReachOf

\* A part holds its first member and goes no further than the sequence; it failed or it fits.
LEMMA PartStops ==
  ASSUME NEW s, NEW n \in Nat, Len(s) = n, NEW i \in 1 .. n
  PROVE  /\ StopOf(s, i) \in i .. n
         /\ PartOf(s, i).failed \in BOOLEAN
         /\ PartOf(s, i).pos = {s[x] : x \in i .. StopOf(s, i)}
         /\ ~PartOf(s, i).failed => Preview(PartOf(s, i).pos) = "fits"
<1> DEFINE J == {j \in i .. n : \A k \in i .. j : Preview({s[x] : x \in i .. k}) = "fits"}
           R == {i - 1} \cup J
           r == ReachOf(s, i)
<1>1. R \in SUBSET Int /\ IsFiniteSet(R) /\ R # {} /\ \A j \in R : j <= n
  <2>1. R \in SUBSET (i - 1 .. n)
    OBVIOUS
  <2>2. IsFiniteSet(i - 1 .. n)
    BY FS_Interval
  <2> HIDE DEF R
  <2>3. IsFiniteSet(R)
    BY <2>1, <2>2, FS_Subset
  <2>4. R # {}
    BY DEF R
  <2>5. R \in SUBSET Int /\ \A j \in R : j <= n
    BY <2>1
  <2>6. QED
    BY <2>3, <2>4, <2>5
<1>2. r = Max(R)
  BY DEF ReachOf
<1>3. r \in R /\ r \in Int /\ r <= n
  <2> HIDE DEF R
  <2>1. Max(R) \in R
    BY <1>1, Extremes
  <2> HIDE DEF r
  <2>2. QED
    BY <2>1, <1>1, <1>2
<1>4. StopOf(s, i) = IF r >= i THEN r ELSE i
  <2> HIDE DEF r
  <2>1. {r, i} \in SUBSET Int /\ IsFiniteSet({r, i}) /\ {r, i} # {}
    <3>1. IsFiniteSet({r})
      BY FS_Singleton
    <3>2. IsFiniteSet({r} \cup {i})
      BY <3>1, FS_AddElement
    <3>3. {r} \cup {i} = {r, i}
      OBVIOUS
    <3>4. IsFiniteSet({r, i})
      BY <3>2, <3>3
    <3>5. QED
      BY <3>4, <1>3
  <2>2. Max({r, i}) \in {r, i} /\ \A x \in {r, i} : Max({r, i}) >= x
    BY <2>1, Extremes
  <2>3. StopOf(s, i) = Max({r, i})
    BY DEF StopOf, r
  <2>4. QED
    BY <2>2, <2>3, <1>3
<1>5. StopOf(s, i) \in i .. n
  BY <1>3, <1>4
<1>6. PartOf(s, i).pos = {s[x] : x \in i .. StopOf(s, i)} /\ PartOf(s, i).failed = (r < i)
  BY DEF PartOf
<1>7. ASSUME ~ (r < i) PROVE Preview({s[x] : x \in i .. r}) = "fits"
  <2>1. r \in J
    BY <1>3, <1>7
  <2> HIDE DEF r
  <2>2. r \in i .. r
    BY <1>3, <1>7
  <2>3. QED
    BY <2>1, <2>2
<1>8. QED
  <2> HIDE DEF r
  <2>1. ~ (r < i) => StopOf(s, i) = r
    BY <1>3, <1>4
  <2>2. PartOf(s, i).failed \in BOOLEAN
    BY <1>6
  <2>3. ASSUME ~PartOf(s, i).failed PROVE Preview(PartOf(s, i).pos) = "fits"
    <3>1. ~ (r < i)
      BY <1>6, <2>3
    <3>2. PartOf(s, i).pos = {s[x] : x \in i .. r}
      BY <1>6, <2>1, <3>1
    <3>3. QED
      BY <3>1, <3>2, <1>7
  <2>4. QED
    BY <1>5, <1>6, <2>2, <2>3

\* Parts in source order that failed or fit, and tile the members.
Part == [pos : SUBSET Nat, failed : BOOLEAN]
\* The parts from one place on: they tile the members from there, in their order.
InRow(q) == \A k, l \in DOMAIN q : k < l => \A x \in q[k].pos, y \in q[l].pos : x < y
PartsFit(q) == \A k \in DOMAIN q : ~q[k].failed => Preview(q[k].pos) # "sequence"
GoodParts(q, M) == q \in Seq(Part) /\ Tiles(q, M) /\ InRow(q) /\ PartsFit(q)

\* A part that failed or fits is a list of parts for its own members.
LEMMA OnePart ==
  ASSUME NEW p \in Part, p.pos # {}, ~p.failed => Preview(p.pos) # "sequence"
  PROVE  GoodParts(<<p>>, p.pos)
<1> DEFINE q == <<p>>
<1>1. q \in Seq(Part) /\ DOMAIN q = {1} /\ q[1] = p
  OBVIOUS
<1> HIDE DEF q
<1>2. GoodParts(q, p.pos)
  BY <1>1 DEF GoodParts, Tiles, InRow, PartsFit
<1>3. QED
  BY <1>2 DEF q

\* A part before a list of parts of later frames makes a list of parts.
LEMMA PartsJoin ==
  ASSUME NEW p \in Part, p.pos # {}, ~p.failed => Preview(p.pos) # "sequence",
         NEW q, NEW M, GoodParts(q, M), \A x \in p.pos, y \in M : x < y, M \subseteq Nat
  PROVE  GoodParts(<<p>> \o q, p.pos \cup M)
<1> DEFINE r == <<p>> \o q
           n == Len(q)
<1>1. <<p>> \in Seq(Part) /\ Len(<<p>>) = 1 /\ <<p>>[1] = p /\ q \in Seq(Part) /\ Tiles(<<p>>, p.pos)
      /\ Tiles(q, M)
  BY OnePart DEF GoodParts
<1>2. n \in Nat /\ DOMAIN q = 1 .. n
  BY <1>1, LenProperties
<1>3. p.pos \cap M = {}
  <2>1. \A x \in p.pos : x \in Nat
    BY DEF Part
  <2>2. \A x \in p.pos \cap M : x \in Nat /\ x < x
    BY <2>1
  <2>3. QED
    BY <2>2
<1>4. r \in Seq(Part) /\ Len(r) = 1 + n
      /\ \A i \in 1 .. 1 + n : r[i] = IF i <= 1 THEN <<p>>[i] ELSE q[i - 1]
  BY <1>1, ConcatProperties
<1>5. Tiles(r, p.pos \cup M)
  BY <1>1, <1>3, TilesConcat
<1>6. DOMAIN r = 1 .. 1 + n
  <2> HIDE DEF r
  <2>1. QED
    BY <1>4, LenProperties
<1> HIDE DEF r, n
<1>7. \A i \in 1 .. 1 + n : (i = 1 /\ r[i] = p) \/ (i # 1 /\ i - 1 \in DOMAIN q /\ r[i] = q[i - 1])
  BY <1>1, <1>2, <1>4
<1>8. PartsFit(r)
  BY <1>6, <1>7 DEF PartsFit, GoodParts
<1>9. InRow(r)
  <2> SUFFICES ASSUME NEW k \in 1 .. 1 + n, NEW l \in 1 .. 1 + n, k < l,
                      NEW x \in r[k].pos, NEW y \in r[l].pos
               PROVE  x < y
    BY <1>6 DEF InRow
  <2>1. l # 1 /\ l - 1 \in DOMAIN q /\ r[l] = q[l - 1]
    BY <1>7, <1>2
  <2>2. CASE k = 1
    <3>1. x \in p.pos /\ y \in M
      BY <2>1, <2>2, <1>1, <1>7 DEF Tiles
    <3>2. QED
      BY <3>1
  <2>3. CASE k # 1
    <3>1. k - 1 \in DOMAIN q /\ r[k] = q[k - 1] /\ k - 1 < l - 1
      BY <2>3, <1>2, <1>7
    <3>2. QED
      BY <3>1, <2>1 DEF GoodParts, InRow
  <2>4. QED
    BY <2>2, <2>3
<1>10. QED
  BY <1>4, <1>5, <1>8, <1>9 DEF GoodParts, r

\* _partition_members loses no member and takes none twice; its parts follow each other, and each
\* fits or is a frame that failed by itself.
LEMMA PartitionParts ==
  ASSUME cfg \in Configs, NEW members \in SUBSET Positions, members # {}
  PROVE  GoodParts(Partition(members), members) /\ Partition(members) # <<>>
<1> DEFINE s == InOrder(members)
           n == Len(s)
<1>1. /\ s \in Seq(members) /\ DOMAIN s = 1 .. n /\ n \in Nat /\ n # 0
      /\ \A i \in 1 .. n : s[i] \in members /\ s[i] \in Nat
      /\ \A i, j \in 1 .. n : i < j => s[i] < s[j]
      /\ \A x \in members : \E i \in 1 .. n : s[i] = x
  BY MembersOrdered
<1>2. members \in SUBSET Nat
  BY MembersFinite
<1>3. Partition(members) =
           IF Preview({s[1]}) = "fixed" THEN <<[pos |-> members, failed |-> FALSE]>>
           ELSE (CHOOSE F : Parting(F, s))[1]
  BY PartitionIs
<1> HIDE DEF s, n
<1>4. CASE Preview({s[1]}) = "fixed"
  <2> DEFINE p == [pos |-> members, failed |-> FALSE]
  <2>1. Preview(members) = "fixed"
    BY <1>4 DEF Preview
  <2>2. p \in Part /\ p.pos = members /\ p.pos # {} /\ (~p.failed => Preview(p.pos) # "sequence")
    BY <1>2, <2>1 DEF Part
  <2> HIDE DEF p
  <2>3. GoodParts(<<p>>, p.pos) /\ <<p>> # <<>>
    BY <2>2, OnePart
  <2>4. QED
    BY <1>3, <1>4, <2>2, <2>3 DEF p
<1>5. CASE Preview({s[1]}) # "fixed"
  <2> DEFINE piece == [i \in 1 .. n + 1 |-> IF i > n THEN <<>> ELSE <<PartOf(s, i)>>]
             step == [i \in 1 .. n + 1 |-> StopOf(s, i) + 1]
             last == {n + 1}
  <2>1. \A i \in 1 .. n : /\ StopOf(s, i) \in i .. n
                          /\ PartOf(s, i).failed \in BOOLEAN
                          /\ PartOf(s, i).pos = {s[x] : x \in i .. StopOf(s, i)}
                          /\ ~PartOf(s, i).failed => Preview(PartOf(s, i).pos) = "fits"
    BY <1>1, PartStops DEF n
  <2>2. \E F : Joining(F, 1, n + 1, piece, step, last)
    <3>1. \A i \in 1 .. n + 1 : i \notin last => step[i] \in i + 1 .. n + 1
      <4> SUFFICES ASSUME NEW i \in 1 .. n + 1, i \notin last PROVE step[i] \in i + 1 .. n + 1
        OBVIOUS
      <4>1. i \in 1 .. n /\ step[i] = StopOf(s, i) + 1
        BY <1>1
      <4>2. StopOf(s, i) \in i .. n
        BY <4>1, <2>1
      <4> HIDE DEF step, last, piece
      <4>3. QED
        BY <4>1, <4>2, <1>1
    <3>2. 1 \in Int /\ n + 1 \in Int /\ 1 <= n + 1
      BY <1>1
    <3> HIDE DEF piece, step, last
    <3>3. QED
      BY <3>1, <3>2, JoiningExists
  <2>3. PICK G : Joining(G, 1, n + 1, piece, step, last)
    BY <2>2
  <2>4. Parting(G, s)
    <3>1. G = [i \in 1 .. n + 1 |-> IF i \in last THEN piece[i] ELSE piece[i] \o G[step[i]]]
      BY <2>3 DEF Joining
    <3>2. \A i \in 1 .. n + 1 : (IF i \in last THEN piece[i] ELSE piece[i] \o G[step[i]])
                                 = IF i > n THEN <<>> ELSE <<PartOf(s, i)>> \o G[StopOf(s, i) + 1]
      BY <1>1
    <3>3. G = [i \in 1 .. n + 1 |-> IF i > n THEN <<>> ELSE <<PartOf(s, i)>> \o G[StopOf(s, i) + 1]]
      BY <3>1, <3>2
    <3>4. QED
      BY <3>3 DEF Parting, n
  <2> DEFINE F == CHOOSE H : Parting(H, s)
  <2>5. Parting(F, s)
    BY <2>4
  <2> HIDE DEF F, piece, step, last
  <2>6. \A i \in 1 .. n + 1 : F[i] = IF i > n THEN <<>> ELSE <<PartOf(s, i)>> \o F[StopOf(s, i) + 1]
    BY <2>5, Zenon DEF Parting, n
  <2> DEFINE M(i) == {s[x] : x \in i .. n}
             Good(i) == IF i = n + 1 THEN F[i] = <<>> ELSE GoodParts(F[i], M(i)) /\ F[i] # <<>>
             Q == {k \in Nat : \A i \in 1 .. n + 1 : n + 1 - i <= k => Good(i)}
  <2>7. 0 \in Q
    <3> SUFFICES ASSUME NEW i \in 1 .. n + 1, n + 1 - i <= 0 PROVE Good(i)
      OBVIOUS
    <3>1. i = n + 1 /\ i > n
      BY <1>1
    <3>2. F[i] = <<>>
      BY <2>6, <3>1
    <3>3. QED
      BY <3>1, <3>2
  <2>8. ASSUME NEW k \in Q PROVE k + 1 \in Q
    <3> SUFFICES ASSUME NEW i \in 1 .. n + 1, n + 1 - i <= k + 1 PROVE Good(i)
      <4> HIDE DEF Good
      <4>1. QED
        OBVIOUS
    <3>1. CASE i = n + 1
      <4>1. i > n
        BY <3>1, <1>1
      <4>3. F[i] = <<>>
        BY <2>6, <4>1
      <4>2. QED
        BY <3>1, <4>3
    <3>2. CASE i # n + 1
      <4> DEFINE p == PartOf(s, i)
                 j == StopOf(s, i) + 1
      <4>1. i \in 1 .. n /\ ~ (i > n)
        BY <3>2, <1>1
      <4>2. /\ StopOf(s, i) \in i .. n /\ p.failed \in BOOLEAN
            /\ p.pos = {s[x] : x \in i .. StopOf(s, i)} /\ (~p.failed => Preview(p.pos) = "fits")
        BY <2>1, <4>1
      <4>12. \E z \in i .. n : z = StopOf(s, i) /\ j = z + 1
        BY <4>2
      <4>3. j \in i + 1 .. n + 1 /\ j \in 1 .. n + 1 /\ n + 1 - j <= k
        <5>1. PICK z \in i .. n : j = z + 1
          BY <4>12
        <5> HIDE DEF j
        <5>2. i \in Nat /\ i >= 1 /\ n \in Nat /\ k \in Nat /\ n + 1 - i <= k + 1
          BY <4>1, <1>1
        <5>3. QED
          BY <5>1, <5>2
      <4>4. F[i] = <<p>> \o F[j]
        BY <2>6, <4>1
      <4>5. Good(j)
        BY <4>3
      <4>6. \A x \in i .. StopOf(s, i) : x \in 1 .. n /\ s[x] \in Nat
        <5>1. \A y \in 1 .. n : s[y] \in Nat
          BY <1>1
        <5> DEFINE z == StopOf(s, i)
        <5>2. z \in i .. n /\ i \in 1 .. n /\ n \in Nat
          BY <4>1, <4>2, <1>1
        <5> HIDE DEF z
        <5>3. \A x \in i .. z : x \in 1 .. n
          BY <5>2
        <5>4. QED
          BY <5>1, <5>3 DEF z
      <4>7. p \in Part /\ p.pos # {}
        <5>1. p = [pos |-> p.pos, failed |-> p.failed]
          BY DEF PartOf
        <5>2. i \in i .. StopOf(s, i)
          BY <4>1, <4>2
        <5> HIDE DEF p
        <5>3. QED
          BY <5>1, <5>2, <4>2, <4>6 DEF Part
      <4>8. ~p.failed => Preview(p.pos) # "sequence"
        BY <4>2
      <4> HIDE DEF p, j
      <4>9. CASE j = n + 1
        <5>1. F[i] = <<p>>
          <6>1. F[j] = <<>> /\ <<p>> \in Seq(Part)
            BY <4>5, <4>9, <4>7
          <6>2. <<p>> \o <<>> = <<p>>
            BY <6>1, ConcatEmptySeq
          <6>3. QED
            BY <6>1, <6>2, <4>4
        <5>2. p.pos = M(i)
          <6>1. StopOf(s, i) = n
            <7>1. StopOf(s, i) \in Int /\ StopOf(s, i) + 1 = n + 1
              BY <4>2, <4>9 DEF j
            <7>2. QED
              BY <7>1, <1>1
          <6>2. QED
            BY <6>1, <4>2
        <5>3. GoodParts(<<p>>, p.pos) /\ <<p>> # <<>>
          BY <4>7, <4>8, OnePart
        <5>4. QED
          BY <5>1, <5>2, <5>3, <3>2
      <4>10. CASE j # n + 1
        <5>1. GoodParts(F[j], M(j))
          BY <4>5, <4>10
        <5>2. M(j) \subseteq Nat
          BY <4>3, <1>1
        <5>3. \A x \in p.pos, y \in M(j) : x < y
          <6> SUFFICES ASSUME NEW a \in i .. StopOf(s, i), NEW b \in j .. n PROVE s[a] < s[b]
            BY <4>2
          <6>1. a \in 1 .. n /\ b \in 1 .. n /\ a < b
            BY <4>1, <4>12, <1>1
          <6>2. QED
            BY <6>1, <1>1
        <5>4. p.pos \cup M(j) = M(i)
          <6>1. i .. n = (i .. StopOf(s, i)) \cup (j .. n)
            <7>1. PICK z \in i .. n : z = StopOf(s, i) /\ j = z + 1
              BY <4>12
            <7>2. i \in Nat /\ n \in Nat /\ z \in Nat /\ i <= z /\ z <= n
              BY <4>1, <7>1, <1>1
            <7>3. i .. n = (i .. z) \cup (z + 1 .. n)
              BY <7>2
            <7>4. QED
              BY <7>1, <7>3
          <6>2. QED
            BY <6>1, <4>2
        <5> HIDE DEF M
        <5>5. GoodParts(<<p>> \o F[j], p.pos \cup M(j))
          BY <4>7, <4>8, <5>1, <5>2, <5>3, PartsJoin
        <5>6. F[j] \in Seq(Part)
          BY <5>1 DEF GoodParts
        <5>7. <<p>> \o F[j] # <<>>
          BY <5>6, <4>7
        <5>8. QED
          BY <5>4, <5>5, <5>7, <4>4, <3>2
      <4>11. QED
        BY <4>9, <4>10
    <3>3. QED
      BY <3>1, <3>2
  <2>9. Q = Nat
    <3> HIDE DEF Q
    <3>1. Q \in SUBSET Nat
      BY DEF Q
    <3>2. QED
      BY <2>7, <2>8, <3>1, SetInduction
  <2>10. Good(1)
    <3>1. 1 \in 1 .. n + 1 /\ n + 1 - 1 <= n
      BY <1>1
    <3>2. n \in Q
      BY <2>9, <1>1
    <3>3. \A i \in 1 .. n + 1 : n + 1 - i <= n => Good(i)
      <4> HIDE DEF Good
      <4>1. QED
        BY <3>2
    <3> HIDE DEF Good
    <3>4. QED
      BY <3>1, <3>3
  <2>11. M(1) = members
    BY <1>1
  <2>12. Partition(members) = F[1]
    BY <1>3, <1>5 DEF F
  <2>13. QED
    <3> HIDE DEF M
    <3>1. QED
      BY <2>10, <2>11, <2>12, <1>1
<1>6. QED
  BY <1>4, <1>5

-------------------------------------------------------------------------------
(* The inductive invariant                                                 *)

(* The values of the state.  A sequence has members (pos) between bounds,  *)
(* the members it started with (root) and those it was cut down to (cut,   *)
(* empty before a cut): the pair is its name.                              *)
Statuses == {"active", "failed", "stitched"}
Sequence == [root : SUBSET Nat, cut : SUBSET Nat, pos : SUBSET Nat, lower : Nat, upper : Nat,
             sealed : BOOLEAN, status : Statuses, seams : SUBSET Int]
FrameStates == {"active", "noise", "absorbed", "below_min_len", "failed"}
Reading == {"plan", "judge", "assembled"}
Threading == {"stitch", "repass", "finalize"}
Upstreaming == Reading \union Threading
Phases == Upstreaming \union {"serve", "advance", "done", "raised"}

(* All values are of their kinds, and every sequence has members.          *)
Typed ==
  /\ cfg \in Configs /\ phase \in Phases
  /\ items \in Seq(Sequence) /\ frames \in [Positions -> FrameStates]
  /\ \A i \in DOMAIN items : items[i].pos # {} /\ items[i].pos \subseteq Positions

(* No two sequences have one name, so that a failure that names a sequence *)
(* names one only.  A sequence that was cut is named by what it has.       *)
SameName(d, e) == d.root = e.root /\ d.cut = e.cut
NamesDiffer ==
  /\ \A i \in DOMAIN items :
       /\ items[i].root # {}
       /\ items[i].cut # {} => items[i].pos = items[i].cut /\ items[i].status # "stitched"
  /\ \A i, j \in DOMAIN items : i # j => ~SameName(items[i], items[j])

(* Nothing is cut before the stages run: roots alone name the sequences,   *)
(* and stay disjoint when one sequence takes the members of another.       *)
Fresh ==
  phase \in Upstreaming =>
    \A i, j \in DOMAIN items :
      items[i].cut = {} /\ (i # j => items[i].root \intersect items[j].root = {})

(* While windows are judged, every pair of adjacent frames was judged or   *)
(* lies within a window that is left.                                      *)
Covered(p) == p \in paired \/ \E k \in DOMAIN spans : spans[k][1] <= p /\ p <= spans[k][2] - 2
WindowsCover ==
  /\ phase = "plan" => paired = {} /\ items = <<>>
  /\ phase = "judge" => items = <<>>
  /\ phase = "judge" /\ broken = {} =>
       /\ spans \in Seq(Nat \X Nat \X Nat)
       /\ \A k \in DOMAIN spans : spans[k][1] < spans[k][2] /\ spans[k][2] <= Frames
       /\ paired \subseteq 0 .. Frames - 2
       /\ \A p \in 0 .. Frames - 2 : Covered(p)

(* Before the first cut downstream, no sequence that can be cut is known   *)
(* to be too large.                                                        *)
Fitting ==
  netEpisodes = 0 =>
    \A i \in DOMAIN items : Active(items[i]) /\ Cardinality(items[i].pos) > 1
      => Preview(items[i].pos) # "sequence"

(* The threads: each over a sequence of its own, those that are not sealed *)
(* at different times, which is what orders the cards.                     *)
Fragment == [pos : SUBSET Nat, cause : {"origin", "resumed", "rescued"}]
Thread == [item : Nat, frags : SUBSET Fragment, last : Nat, alive : BOOLEAN]
SealedThread(t) == items[threads[t].item].sealed
ThreadsTyped ==
  /\ threads \in Seq(Thread) /\ clock \in Nat /\ pool \subseteq DOMAIN threads
  /\ \A t \in DOMAIN threads :
       /\ threads[t].item \in DOMAIN items
       /\ threads[t].alive => Active(items[threads[t].item])
       /\ threads[t].last <= clock
       /\ ~SealedThread(t) => threads[t].last < clock
       /\ phase = "stitch" => threads[t].alive
  /\ \A t, u \in DOMAIN threads : t # u =>
       /\ threads[t].item # threads[u].item
       /\ ~SealedThread(t) /\ ~SealedThread(u) => threads[t].last # threads[u].last

(* The queue: candidates that no thread has yet, with disjoint members, in *)
(* the first pass; threads in the second.                                  *)
Candidate == [kind : {"episode", "rescue"}, item : Nat, pos : SUBSET Nat, thread : {0}]
Waiting(c) ==
  /\ c.pos # {} /\ c.pos \subseteq Positions
  /\ c.kind = "episode" =>
       /\ c.item \in DOMAIN items /\ Active(items[c.item]) /\ items[c.item].pos = c.pos
       /\ \A t \in DOMAIN threads : threads[t].item # c.item
  /\ c.kind = "rescue" => c.item = 0 /\ \A p \in c.pos : frames[p] = "below_min_len"
QueueTyped ==
  /\ phase = "stitch" =>
       /\ queue \in Seq(Candidate)
       /\ \A k \in DOMAIN queue : Waiting(queue[k])
       /\ \A k, l \in DOMAIN queue : k # l => queue[k].pos \intersect queue[l].pos = {}
  /\ phase = "repass" => queue \in Seq(DOMAIN threads)

(* Every active episode has a thread or waits for one.                     *)
Owners ==
  \A i \in DOMAIN items : Active(items[i]) =>
    \/ \E t \in DOMAIN threads : threads[t].alive /\ threads[t].item = i
    \/ phase = "stitch" /\ \E k \in DOMAIN queue : queue[k].item = i

(* The sequence before a cut is sealed, or went into one that is.          *)
CutsSealed ==
  /\ \A c \in cuts : c[1] \in Positions /\ frames[c[1]] = "absorbed"
  /\ \A c \in cuts, i \in DOMAIN items :
       c[1] \in items[i].pos => items[i].sealed \/ items[i].status = "stitched"
ThreadInv == phase \in Threading => ThreadsTyped /\ QueueTyped /\ Owners /\ CutsSealed

(* Before stitching, there are no threads, and a sequence that ends before *)
(* the session does is sealed; before the stages, there are no seams.      *)
Assembled ==
  /\ phase \in Reading =>
       /\ threads = <<>> /\ pool = {} /\ clock = 0
       /\ \A i \in DOMAIN items : items[i].status # "stitched"
          /\ (items[i].upper < Frames => items[i].sealed)
  /\ phase \in Upstreaming => \A i \in DOMAIN items : items[i].seams = {}

(* What failed in a wave names pieces of sequences; a wave that made no    *)
(* progress yet has a failure that is not settled at its head.             *)
Piece == [root : SUBSET Nat, cut : SUBSET Nat, pos : SUBSET Nat]
Failures == [stage : STRING, unit : Units, targets : SUBSET Piece]
Wave ==
  /\ pending \in Seq(Failures) /\ terminals \subseteq Failures
  /\ phase = "advance" /\ ~progress => pending # <<>> /\ ~Handled(Head(pending))

(* The counters are those of the sequences, and nothing is counted before  *)
(* the stages run; captured is the stages that ended in this attempt.      *)
Totals ==
  /\ episodes \in Nat /\ netEpisodes \in Nat /\ Len(items) = episodes + netEpisodes
  /\ phase \in Upstreaming =>
       /\ at = 0 /\ terminals = {} /\ pending = <<>> /\ captured = <<>> /\ netEpisodes = 0
       /\ reservation = FALSE
  /\ at \in 0 .. Len(Stages)
  /\ phase # "done" => captured = SubSeq(Stages, 1, at)

(* Together with the claims (Valid) and three of the properties.           *)
SessionInv ==
  /\ Typed /\ NamesDiffer /\ Fresh /\ Valid /\ WindowsCover /\ Fitting
  /\ Assembled /\ ThreadInv /\ Wave /\ Totals
  /\ MinimaFail /\ CountsOnce /\ SeamsMarkInterruptions

\* What segmentation promises of a sequence that it makes.
Episodic(e) ==
  /\ e \in Sequence /\ e.pos \in SUBSET Positions /\ e.pos # {}
  /\ e.root = e.pos /\ e.cut = {} /\ e.seams = {} /\ e.status # "stitched"
  /\ \A p \in e.pos : e.lower <= p /\ p < e.upper
  /\ e.upper < Frames => e.sealed
  /\ Active(e) /\ Cardinality(e.pos) > 1 => Preview(e.pos) # "sequence"
Episodes == {e \in Sequence : Episodic(e)}

\* capacity_episodes makes such sequences of an episode, and they tile it.
LEMMA CapacityEpisodesTile ==
  ASSUME cfg \in Configs, NEW members \in SUBSET Positions, members # {}
  PROVE  CapacityEpisodes(members) \in Seq(Episodes) /\ Tiles(CapacityEpisodes(members), members)
<1> DEFINE q == Partition(members)
           n == Len(q)
           r == CapacityEpisodes(members)
<1>1. q \in Seq(Part) /\ Tiles(q, members) /\ InRow(q) /\ PartsFit(q)
  BY PartitionParts DEF GoodParts
<1>2. n \in Nat /\ DOMAIN q = 1 .. n /\ \A k \in 1 .. n : q[k] \in Part
  <2> HIDE DEF q
  <2>1. QED
    BY <1>1, LenProperties, ElementOfSeq
<1> DEFINE low(k) == IF k = 1 THEN 0 ELSE Min(q[k].pos)
           high(k) == IF k = n THEN Frames ELSE Min(q[k + 1].pos)
           ep(k) == [root |-> q[k].pos, cut |-> {}, pos |-> q[k].pos, lower |-> low(k),
                     upper |-> high(k), sealed |-> (k < n),
                     status |-> (IF q[k].failed THEN "failed" ELSE "active"),
                     seams |-> {}]
<1>3. r = [k \in 1 .. n |-> ep(k)]
  <2> DEFINE raw(k) == [Envelope(q[k].pos, low(k), high(k), k < n)
                         EXCEPT !.status = IF q[k].failed THEN "failed" ELSE "active"]
  <2>1. r = [k \in 1 .. n |-> raw(k)]
    BY <1>2 DEF CapacityEpisodes
  <2>2. \A k \in 1 .. n : raw(k) = ep(k)
    <3> HIDE DEF q, n, low, high
    <3>1. QED
      BY DEF Envelope
  <2> HIDE DEF raw, ep
  <2>3. QED
    BY <2>1, <2>2
<1> HIDE DEF q, r, n
<1>4. \A k \in 1 .. n : q[k].pos # {} /\ q[k].pos \in SUBSET Positions
  BY <1>1, <1>2 DEF Tiles
<1>5. Frames \in Nat \ {0}
  BY ConfigTyped
<1>6. ASSUME NEW k \in 1 .. n
      PROVE  Min(q[k].pos) \in q[k].pos /\ Min(q[k].pos) \in Nat
             /\ \A p \in q[k].pos : Min(q[k].pos) <= p /\ p \in Nat
  <2> DEFINE S == q[k].pos
  <2>1. S \in SUBSET Positions /\ S # {}
    BY <1>4
  <2> HIDE DEF S
  <2>2. IsFiniteSet(S) /\ S \in SUBSET Int /\ S \in SUBSET Nat
    BY <2>1, MembersFinite
  <2>3. Min(S) \in S /\ \A x \in S : Min(S) <= x
    BY <2>1, <2>2, Extremes
  <2>4. QED
    BY <2>2, <2>3 DEF S
<1>7. ASSUME NEW k \in 1 .. n
      PROVE  low(k) \in Nat /\ high(k) \in Nat /\ \A p \in q[k].pos : low(k) <= p /\ p < high(k)
  <2>1. low(k) \in Nat /\ \A p \in q[k].pos : low(k) <= p
    BY <1>6
  <2>2. high(k) \in Nat /\ \A p \in q[k].pos : p < high(k)
    <3>1. CASE k = n
      <4>1. q[k].pos \in SUBSET Positions
        BY <1>4
      <4>2. \A p \in q[k].pos : p < Frames
        BY <4>1, MembersFinite
      <4>3. QED
        BY <3>1, <4>2, <1>5
    <3>2. CASE k # n
      <4>1. k + 1 \in 1 .. n /\ k < k + 1
        BY <3>2, <1>2
      <4>2. Min(q[k + 1].pos) \in q[k + 1].pos /\ Min(q[k + 1].pos) \in Nat
        BY <4>1, <1>6
      <4>3. \A p \in q[k].pos : p < Min(q[k + 1].pos)
        BY <4>1, <4>2, <1>1, <1>2 DEF InRow
      <4>4. QED
        BY <3>2, <4>2, <4>3
    <3>3. QED
      BY <3>1, <3>2
  <2>3. QED
    BY <2>1, <2>2
<1>8. ASSUME NEW k \in 1 .. n PROVE ep(k) \in Episodes
  <2> DEFINE e == ep(k)
  <2>1. /\ e.root = q[k].pos /\ e.cut = {} /\ e.pos = q[k].pos /\ e.lower = low(k) /\ e.upper = high(k)
        /\ e.sealed = (k < n) /\ e.status = (IF q[k].failed THEN "failed" ELSE "active") /\ e.seams = {}
    BY Zenon
  <2>2. q[k].pos \in SUBSET Nat /\ q[k].pos \in SUBSET Positions /\ q[k].pos # {}
    BY <1>2, <1>4 DEF Part
  <2>3. e \in Sequence
    BY <1>7, <2>2 DEF Sequence, Statuses
  <2>4. e.upper < Frames => e.sealed
    <3> SUFFICES ASSUME e.upper < Frames PROVE k < n
      BY <2>1
    <3>1. high(k) < Frames
      BY <2>1
    <3>2. k # n
      BY <3>1, <1>5
    <3>3. QED
      BY <3>2, <1>2
  <2>5. Active(e) => Preview(e.pos) # "sequence"
    BY <2>1, <1>1, <1>2 DEF Active, PartsFit
  <2>6. \A p \in e.pos : e.lower <= p /\ p < e.upper
    BY <2>1, <1>7
  <2>7. e.status # "stitched"
    BY <2>1
  <2> HIDE DEF e
  <2>8. Episodic(e)
    BY <2>1, <2>2, <2>3, <2>4, <2>5, <2>6, <2>7 DEF Episodic
  <2>9. e \in Episodes
    BY <2>3, <2>8 DEF Episodes
  <2>10. QED
    BY <2>9 DEF e
<1>9. \A k \in 1 .. n : ep(k).pos = q[k].pos
  OBVIOUS
<1> HIDE DEF ep
<1>10. r \in Seq(Episodes) /\ DOMAIN r = 1 .. n /\ \A k \in 1 .. n : r[k].pos = q[k].pos
  BY <1>2, <1>3, <1>8, <1>9
<1>11. Tiles(r, members)
  BY <1>10, <1>1, <1>2 DEF Tiles
<1>12. QED
  BY <1>10, <1>11 DEF r

-------------------------------------------------------------------------------
(* What segmentation leaves behind                                         *)

\* The frames that segmentation gives to sequences.
Absorbed(f) == {p \in Positions : f[p] = "absorbed"}
\* What segmentation leaves behind: sequences that claim what was absorbed.
Segmented(q, f) == q \in Seq(Episodes) /\ Tiles(q, Absorbed(f)) /\ f \in [Positions -> FrameStates]

\* A session without a judge is cut into sequences that tile it (segmentation.py, whole_episode).
LEMMA WholeSegmented ==
  ASSUME cfg \in Configs, WholeEpisode
  PROVE  Segmented(items', frames')
<1>1. Positions \in SUBSET Positions /\ Positions # {}
  <2>1. Frames \in Nat \ {0}
    BY ConfigTyped
  <2>2. 0 \in Positions
    BY <2>1 DEF Positions
  <2>3. QED
    BY <2>2
<1>2. CapacityEpisodes(Positions) \in Seq(Episodes) /\ Tiles(CapacityEpisodes(Positions), Positions)
  BY <1>1, CapacityEpisodesTile
<1>3. items' = CapacityEpisodes(Positions) /\ frames' = [p \in Positions |-> "absorbed"]
  BY DEF WholeEpisode
<1>4. Absorbed(frames') = Positions /\ frames' \in [Positions -> FrameStates]
  BY <1>3 DEF Absorbed, FrameStates
<1>5. QED
  BY <1>2, <1>3, <1>4 DEF Segmented

\* The segments are parts of the frames that are kept, and share none.
LEMMA SegmentsApart ==
  ASSUME cfg \in Configs
  PROVE  /\ Segments \in Seq(SUBSET Positions)
         /\ \A i \in DOMAIN Segments : Segments[i] # {} /\ \A p \in Segments[i] : p \in Kept
         /\ \A i, j \in DOMAIN Segments : i # j => Segments[i] \cap Segments[j] = {}
<1> DEFINE s == InOrder(Starts)
           n == Len(s)
<1>1. Starts \in SUBSET Positions /\ Kept \in SUBSET Positions
  BY DEF Starts, Kept
<1>2. /\ DOMAIN s = 1 .. n /\ n \in Nat
      /\ \A i \in 1 .. n : s[i] \in Starts /\ s[i] \in Nat
      /\ \A i, j \in 1 .. n : i < j => s[i] < s[j]
  BY <1>1, MembersOrdered
<1> DEFINE seg(i) == {p \in Kept : p >= s[i] /\ (i < n => p < s[i + 1])}
<1>3. Segments = [i \in 1 .. n |-> seg(i)]
  BY <1>2 DEF Segments
<1> HIDE DEF s, n
<1>4. \A p \in Kept : p \in Nat
  BY <1>1, MembersFinite
<1>5. ASSUME NEW i \in 1 .. n PROVE seg(i) \in SUBSET Positions /\ seg(i) # {}
             /\ \A p \in seg(i) : p \in Kept
  <2>1. s[i] \in Kept /\ s[i] \in Nat
    BY <1>2 DEF Starts
  <2>2. i < n => s[i] < s[i + 1]
    BY <1>2
  <2>3. s[i] \in seg(i)
    BY <2>1, <2>2
  <2>4. QED
    BY <2>3, <1>1
<1>6. ASSUME NEW i \in 1 .. n, NEW j \in 1 .. n, i < j PROVE seg(i) \cap seg(j) = {}
  <2>1. i + 1 \in 1 .. n /\ i < n /\ s[i + 1] \in Nat /\ s[j] \in Nat
    BY <1>2, <1>6
  <2>2. s[i + 1] <= s[j]
    BY <2>1, <1>2, <1>6
  <2>3. \A p \in seg(i) \cap seg(j) : p \in Nat /\ p < s[i + 1] /\ p >= s[j]
    BY <2>1, <1>4
  <2>4. \A p \in seg(i) \cap seg(j) : FALSE
    BY <2>1, <2>2, <2>3
  <2>5. QED
    BY <2>4
<1> HIDE DEF seg
<1>7. \A i, j \in 1 .. n : i # j => seg(i) \cap seg(j) = {}
  <2> SUFFICES ASSUME NEW i \in 1 .. n, NEW j \in 1 .. n, i # j PROVE seg(i) \cap seg(j) = {}
    OBVIOUS
  <2>1. i < j \/ j < i
    BY <1>2
  <2>2. CASE i < j
    BY <2>2, <1>6
  <2>3. CASE j < i
    BY <2>3, <1>6
  <2>4. QED
    BY <2>1, <2>2, <2>3
<1>8. Segments \in [1 .. n -> SUBSET Positions]
  BY <1>3, <1>5
<1>9. Segments \in Seq(SUBSET Positions) /\ DOMAIN Segments = 1 .. n
  BY <1>2, <1>8
<1>10. QED
  BY <1>3, <1>5, <1>7, <1>9

\* So is a session whose windows were all judged, but for its noise and its short runs.
LEMMA AssembleSegmented ==
  ASSUME cfg \in Configs, Assemble
  PROVE  Segmented(items', frames')
<1> DEFINE places == {i \in DOMAIN Segments : Cardinality(Segments[i]) >= cfg.min_len}
           long == Picked(Segments, places)
           n == Len(long)
<1>1. /\ items' = FlattenSeq([i \in DOMAIN long |-> CapacityEpisodes(long[i])])
      /\ frames' = [p \in Positions |->
           IF p \notin Kept THEN "noise"
           ELSE IF \E i \in DOMAIN long : p \in long[i] THEN "absorbed" ELSE "below_min_len"]
  BY Zenon DEF Assemble
<1>2. places \in SUBSET (DOMAIN Segments)
  OBVIOUS
<1>3. /\ Segments \in Seq(SUBSET Positions)
      /\ \A i \in DOMAIN Segments : Segments[i] # {} /\ \A p \in Segments[i] : p \in Kept
      /\ \A i, j \in DOMAIN Segments : i # j => Segments[i] \cap Segments[j] = {}
  BY SegmentsApart
<1> HIDE DEF places
<1> DEFINE spot == InOrder(places)
           m == Len(spot)
<1>4. /\ long \in Seq(SUBSET Positions) /\ DOMAIN long = 1 .. m /\ m \in Nat
      /\ \A k \in 1 .. m : spot[k] \in places /\ long[k] = Segments[spot[k]]
      /\ \A k, l \in 1 .. m : k < l => spot[k] < spot[l]
  <2>1. PickedAs(SUBSET Positions, Segments, places, spot)
    BY <1>2, <1>3, PickedElements
  <2>2. QED
    BY <2>1 DEF PickedAs
<1> HIDE DEF long, spot, m
<1>5. \A k \in 1 .. m : long[k] \in SUBSET Positions /\ long[k] # {} /\ \A p \in long[k] : p \in Kept
  <2> SUFFICES ASSUME NEW k \in 1 .. m
               PROVE  long[k] \in SUBSET Positions /\ long[k] # {} /\ \A p \in long[k] : p \in Kept
    OBVIOUS
  <2>1. spot[k] \in DOMAIN Segments /\ long[k] = Segments[spot[k]]
    BY <1>2, <1>4
  <2>2. long[k] # {} /\ \A p \in long[k] : p \in Kept
    BY <2>1, <1>3
  <2>3. QED
    BY <2>2 DEF Kept
<1>6. \A k, l \in 1 .. m : k # l => long[k] \cap long[l] = {}
  <2> SUFFICES ASSUME NEW k \in 1 .. m, NEW l \in 1 .. m, k # l PROVE long[k] \cap long[l] = {}
    OBVIOUS
  <2>1. spot[k] # spot[l]
    <3>1. k < l \/ l < k
      BY <1>4
    <3>2. spot[k] \in Int /\ spot[l] \in Int
      <4>1. spot[k] \in DOMAIN Segments /\ spot[l] \in DOMAIN Segments
        BY <1>2, <1>4
      <4>2. QED
        BY <4>1, <1>3, LenProperties
    <3>3. QED
      BY <3>1, <3>2, <1>4
  <2>2. QED
    BY <2>1, <1>2, <1>3, <1>4
<1> DEFINE q == [k \in 1 .. m |-> CapacityEpisodes(long[k])]
<1>7. \A k \in 1 .. m : q[k] \in Seq(Episodes) /\ Tiles(q[k], long[k])
  <2> SUFFICES ASSUME NEW k \in 1 .. m PROVE q[k] \in Seq(Episodes) /\ Tiles(q[k], long[k])
    OBVIOUS
  <2>1. CapacityEpisodes(long[k]) \in Seq(Episodes) /\ Tiles(CapacityEpisodes(long[k]), long[k])
    BY <1>5, CapacityEpisodesTile
  <2>2. QED
    BY <2>1
<1>8. DOMAIN q = 1 .. m /\ items' = FlattenSeq(q)
  BY <1>1, <1>4
<1>9. q \in Seq(Seq(Episodes))
  <2>1. q \in [1 .. m -> Seq(Episodes)]
    <3>1. \A k \in 1 .. m : q[k] \in Seq(Episodes)
      BY <1>7
    <3>2. q = [k \in 1 .. m |-> q[k]]
      OBVIOUS
    <3> HIDE DEF q
    <3>3. QED
      BY <3>1, <3>2
  <2> HIDE DEF q
  <2>2. QED
    BY <2>1, <1>4
<1> HIDE DEF q
<1> DEFINE U == UNION {long[k] : k \in DOMAIN long}
<1>10. FlattenSeq(q) \in Seq(Episodes) /\ Tiles(FlattenSeq(q), U)
  <2>1. DOMAIN long = DOMAIN q
    BY <1>4, <1>8
  <2>2. \A i \in DOMAIN q : Tiles(q[i], long[i])
    BY <1>7, <1>8
  <2>3. \A i, j \in DOMAIN q : i # j => long[i] \cap long[j] = {}
    BY <1>6, <1>8
  <2>4. QED
    BY <1>9, <2>1, <2>2, <2>3, FlattenTiles
<1>11. U = Absorbed(frames')
  <2>1. \A p \in Positions : frames'[p] = "absorbed" <=> \E k \in 1 .. m : p \in long[k]
    BY <1>1, <1>4, <1>5
  <2>2. \A p \in U : p \in Positions
    BY <1>4, <1>5
  <2>3. QED
    BY <2>1, <2>2, <1>4 DEF Absorbed
<1>12. frames' \in [Positions -> FrameStates]
  <2> DEFINE val(p) == IF p \notin Kept THEN "noise"
           ELSE IF \E i \in DOMAIN long : p \in long[i] THEN "absorbed" ELSE "below_min_len"
  <2>1. frames' = [p \in Positions |-> val(p)]
    BY <1>1
  <2>2. \A p \in Positions : val(p) \in FrameStates
    BY DEF FrameStates
  <2> HIDE DEF val
  <2>3. QED
    BY <2>1, <2>2
<1>13. QED
  BY <1>8, <1>10, <1>11, <1>12 DEF Segmented

\* A session with a broken window is kept whole or failed whole.
LEMMA DisposeSegmented ==
  ASSUME cfg \in Configs, DisposeFailed
  PROVE  Segmented(items', frames')
<1>1. CASE cfg.segment_on_error = "fail" \/ "overflow" \in broken
  <2>1. items' = <<>> /\ frames' = [p \in Positions |-> "failed"]
    BY <1>1 DEF DisposeFailed
  <2>2. Absorbed(frames') = {} /\ frames' \in [Positions -> FrameStates]
    BY <2>1 DEF Absorbed, FrameStates
  <2>3. items' \in Seq(Episodes) /\ DOMAIN items' = {}
    BY <2>1
  <2>4. QED
    BY <2>2, <2>3 DEF Segmented, Tiles
<1>2. CASE ~ (cfg.segment_on_error = "fail" \/ "overflow" \in broken)
  <2>1. WholeEpisode
    BY <1>2 DEF DisposeFailed
  <2>2. QED
    BY <2>1, WholeSegmented
<1>3. QED
  BY <1>1, <1>2

-------------------------------------------------------------------------------
(* The windows of the judge and their overlaps                             *)

\* Least and greatest of a few numbers.
LEMMA OfTwo ==
  ASSUME NEW a \in Int, NEW b \in Int
  PROVE  /\ IsFiniteSet({a, b})
         /\ Min({a, b}) = (IF a <= b THEN a ELSE b) /\ Max({a, b}) = (IF a >= b THEN a ELSE b)
<1>1. IsFiniteSet({a})
  BY FS_Singleton
<1>2. IsFiniteSet({a} \cup {b})
  BY <1>1, FS_AddElement
<1>3. {a} \cup {b} = {a, b} /\ {a, b} \in SUBSET Int /\ {a, b} # {}
  OBVIOUS
<1>4. IsFiniteSet({a, b})
  BY <1>2, <1>3
<1>5. /\ Min({a, b}) \in {a, b} /\ \A x \in {a, b} : Min({a, b}) <= x
      /\ Max({a, b}) \in {a, b} /\ \A x \in {a, b} : Max({a, b}) >= x
  BY <1>3, <1>4, Extremes
<1>6. QED
  BY <1>4, <1>5

\* A window ends with the session or at least two frames on.
LEMMA WindowEnds ==
  ASSUME cfg \in Configs, NEW start \in 0 .. Frames
  PROVE  /\ WindowEnd(start) \in Nat /\ WindowEnd(start) <= Frames
         /\ WindowEnd(start) = Frames \/ WindowEnd(start) >= start + 2
<1>1. Frames \in Nat \ {0} /\ cfg.window \in Nat /\ cfg.budget \in Nat
  BY ConfigTyped
<1> DEFINE S == {cfg.window, cfg.budget, Frames - start}
           room == Min(S)
           long == Max({room, 2})
<1>2. S \in SUBSET Int /\ S # {} /\ IsFiniteSet(S)
  <2>1. IsFiniteSet({cfg.window, cfg.budget})
    BY <1>1, OfTwo
  <2>2. IsFiniteSet({cfg.window, cfg.budget} \cup {Frames - start})
    BY <2>1, FS_AddElement
  <2>3. S = {cfg.window, cfg.budget} \cup {Frames - start}
    OBVIOUS
  <2> HIDE DEF S
  <2>4. IsFiniteSet(S)
    BY <2>2, <2>3
  <2>5. S \in SUBSET Int /\ S # {}
    BY <1>1 DEF S
  <2>6. QED
    BY <2>4, <2>5
<1>3. room \in Int
  <2> HIDE DEF S
  <2>1. Min(S) \in S
    BY <1>2, Extremes
  <2>2. QED
    BY <2>1, <1>2
<1>4. WindowEnd(start) = Min({start + long, Frames})
  BY DEF WindowEnd
<1> HIDE DEF room
<1>5. long \in Int /\ long >= 2
  <2>1. Max({room, 2}) = IF room >= 2 THEN room ELSE 2
    BY <1>3, OfTwo
  <2>2. QED
    BY <2>1, <1>3
<1> HIDE DEF long
<1>6. Min({start + long, Frames}) = IF start + long <= Frames THEN start + long ELSE Frames
  <2> DEFINE a == start + long
             b == Frames
  <2>1. a \in Int /\ b \in Int
    BY <1>1, <1>5
  <2> HIDE DEF a, b
  <2>2. Min({a, b}) = IF a <= b THEN a ELSE b
    BY <2>1, OfTwo
  <2>3. QED
    BY <2>2 DEF a, b
<1>7. QED
  BY <1>1, <1>4, <1>5, <1>6

\* Windows, the pairs that they span, and a list of them that covers a session from frame i on.
Windows == Nat \X Nat \X Nat
Spanned(w, p) == \E k \in DOMAIN w : w[k][1] <= p /\ p <= w[k][2] - 2
Within(w) == \A k \in DOMAIN w : w[k][1] < w[k][2] /\ w[k][2] <= Frames
CoverFrom(w, i) == w \in Seq(Windows) /\ Within(w) /\ \A p \in i .. Frames - 2 : Spanned(w, p)

\* The last window covers what is left.
LEMMA OneWindow ==
  ASSUME NEW a \in Nat, NEW b \in Nat, NEW c \in Nat, a < b, b <= Frames, b = Frames
  PROVE  CoverFrom(<<<<a, b, c>>>>, a)
<1> DEFINE w == <<<<a, b, c>>>>
<1>1. w \in Seq(Windows) /\ DOMAIN w = {1} /\ w[1][1] = a /\ w[1][2] = b
  BY DEF Windows
<1> HIDE DEF w
<1>2. CoverFrom(w, a)
  BY <1>1 DEF CoverFrom, Within, Spanned
<1>3. QED
  BY <1>2 DEF w

\* A window and those that start at its last frame cover what both do.
LEMMA WindowsJoin ==
  ASSUME NEW a \in Nat, NEW b \in Nat, NEW c \in Nat, a < b, b <= Frames, Frames \in Nat,
         NEW w, CoverFrom(w, b - 1)
  PROVE  CoverFrom(<<<<a, b, c>>>> \o w, a)
<1> DEFINE r == <<<<a, b, c>>>> \o w
           n == Len(w)
<1>1. <<<<a, b, c>>>> \in Seq(Windows) /\ w \in Seq(Windows) /\ Len(<<<<a, b, c>>>>) = 1
  BY DEF Windows, CoverFrom
<1>2. n \in Nat /\ DOMAIN w = 1 .. n
  BY <1>1, LenProperties
<1>3. r \in Seq(Windows) /\ Len(r) = 1 + n
      /\ \A i \in 1 .. 1 + n : r[i] = IF i <= 1 THEN <<<<a, b, c>>>>[i] ELSE w[i - 1]
  BY <1>1, ConcatProperties
<1>4. DOMAIN r = 1 .. 1 + n
  <2> HIDE DEF r
  <2>1. QED
    BY <1>3, LenProperties
<1> HIDE DEF r, n
<1>5. 1 \in DOMAIN r /\ r[1][1] = a /\ r[1][2] = b
  BY <1>2, <1>3, <1>4
<1>6. \A i \in 1 .. 1 + n : i = 1 \/ (i - 1 \in DOMAIN w /\ r[i] = w[i - 1])
  BY <1>2, <1>3
<1>7. \A k \in 1 .. n : k + 1 \in DOMAIN r /\ r[k + 1] = w[k]
  BY <1>2, <1>3, <1>4
<1>8. Within(r)
  BY <1>4, <1>5, <1>6 DEF Within, CoverFrom
<1>9. ASSUME NEW p \in a .. Frames - 2 PROVE Spanned(r, p)
  <2>1. CASE p <= b - 2
    BY <2>1, <1>5 DEF Spanned
  <2>2. CASE ~ (p <= b - 2)
    <3>1. p \in b - 1 .. Frames - 2
      BY <2>2
    <3>2. PICK k \in 1 .. n : w[k][1] <= p /\ p <= w[k][2] - 2
      BY <3>1, <1>2 DEF CoverFrom, Spanned
    <3>3. QED
      BY <3>2, <1>7 DEF Spanned
  <2>3. QED
    BY <2>1, <2>2
<1>10. QED
  BY <1>3, <1>8, <1>9 DEF CoverFrom, r

\* The recursion of pack_windows, for every frame that a window can start at.
Packing(F) ==
  F = [start \in 0 .. Frames |->
        <<<<start, WindowEnd(start), start>>>> \o
          (IF WindowEnd(start) = Frames THEN <<>> ELSE F[WindowEnd(start) - 1])]

\* pack_windows: the frames of each pair of neighbours are in one window.
LEMMA PackWindowsCover ==
  ASSUME cfg \in Configs
  PROVE  CoverFrom(PackWindows, 0)
<1> DEFINE n == Frames
           E(i) == WindowEnd(i)
<1>1. n \in Nat \ {0}
  BY ConfigTyped
<1>2. \A i \in 0 .. n : E(i) \in Nat /\ E(i) <= n /\ (E(i) = n \/ E(i) >= i + 2)
  BY WindowEnds
<1>3. PackWindows = (CHOOSE F : Packing(F))[0]
  BY DEF PackWindows, Packing
<1> DEFINE piece == [i \in 0 .. n |-> <<<<i, E(i), i>>>>]
           step == [i \in 0 .. n |-> E(i) - 1]
           last == {i \in 0 .. n : E(i) = n}
<1> HIDE DEF n, E
<1>4. \E F : Joining(F, 0, n, piece, step, last)
  <2>1. \A i \in 0 .. n : i \notin last => step[i] \in i + 1 .. n
    BY <1>1, <1>2
  <2> HIDE DEF piece, step, last
  <2>2. QED
    BY <1>1, <2>1, JoiningExists
<1>5. PICK G : Joining(G, 0, n, piece, step, last)
  BY <1>4
<1>6. Packing(G)
  <2>1. G = [i \in 0 .. n |-> IF i \in last THEN piece[i] ELSE piece[i] \o G[step[i]]]
    BY <1>5 DEF Joining
  <2>2. \A i \in 0 .. n : (IF i \in last THEN piece[i] ELSE piece[i] \o G[step[i]])
                           = <<<<i, E(i), i>>>> \o (IF E(i) = n THEN <<>> ELSE G[E(i) - 1])
    <3> SUFFICES ASSUME NEW i \in 0 .. n
                 PROVE  (IF i \in last THEN piece[i] ELSE piece[i] \o G[step[i]])
                           = <<<<i, E(i), i>>>> \o (IF E(i) = n THEN <<>> ELSE G[E(i) - 1])
      OBVIOUS
    <3>1. <<<<i, E(i), i>>>> \o <<>> = <<<<i, E(i), i>>>>
      <4>1. <<<<i, E(i), i>>>> \in Seq(Windows)
        BY <1>2 DEF Windows
      <4>2. QED
        BY <4>1, ConcatEmptySeq
    <3>2. QED
      BY <3>1
  <2>3. G = [i \in 0 .. n |-> <<<<i, E(i), i>>>> \o (IF E(i) = n THEN <<>> ELSE G[E(i) - 1])]
    <3> HIDE DEF piece, step, last
    <3>1. QED
      BY <2>1, <2>2
  <2>4. QED
    BY <2>3 DEF Packing, n, E
<1> DEFINE F == CHOOSE H : Packing(H)
<1>7. Packing(F)
  BY <1>6
<1> HIDE DEF F, piece, step, last
<1>8. \A i \in 0 .. n : F[i] = <<<<i, E(i), i>>>> \o (IF E(i) = n THEN <<>> ELSE F[E(i) - 1])
  BY <1>7, Zenon DEF Packing, n, E
<1> DEFINE Good(i) == CoverFrom(F[i], i)
           Q == {k \in Nat : \A i \in 0 .. n - 1 : n - 1 - i <= k => Good(i)}
<1>9. ASSUME NEW i \in 0 .. n - 1, \A j \in 0 .. n - 1 : i < j => Good(j) PROVE Good(i)
  <2>1. i \in Nat /\ i \in 0 .. n /\ E(i) \in Nat /\ E(i) <= n /\ (E(i) = n \/ E(i) >= i + 2)
        /\ i < E(i)
    BY <1>1, <1>2
  <2>2. CASE E(i) = n
    <3>1. F[i] = <<<<i, E(i), i>>>>
      <4>1. F[i] = <<<<i, E(i), i>>>> \o <<>>
        BY <1>8, <2>1, <2>2
      <4>2. <<<<i, E(i), i>>>> \in Seq(Windows)
        BY <2>1 DEF Windows
      <4>3. QED
        BY <4>1, <4>2, ConcatEmptySeq
    <3>2. CoverFrom(<<<<i, E(i), i>>>>, i)
      BY <2>1, <2>2, OneWindow DEF n
    <3>3. QED
      BY <3>1, <3>2
  <2>3. CASE E(i) # n
    <3>1. F[i] = <<<<i, E(i), i>>>> \o F[E(i) - 1]
      BY <1>8, <2>1, <2>3
    <3>2. E(i) - 1 \in 0 .. n - 1 /\ i < E(i) - 1
      BY <2>1, <2>3, <1>1
    <3>3. CoverFrom(F[E(i) - 1], E(i) - 1)
      BY <3>2, <1>9
    <3> HIDE DEF F
    <3>4. CoverFrom(<<<<i, E(i), i>>>> \o F[E(i) - 1], i)
      BY <2>1, <3>3, <1>1, WindowsJoin DEF n
    <3>5. QED
      BY <3>1, <3>4
  <2>4. QED
    BY <2>2, <2>3
<1> HIDE DEF Good
<1>10. 0 \in Q
  <2> SUFFICES ASSUME NEW i \in 0 .. n - 1, n - 1 - i <= 0 PROVE Good(i)
    OBVIOUS
  <2>1. \A j \in 0 .. n - 1 : ~ (i < j)
    BY <1>1
  <2>2. QED
    BY <2>1, <1>9
<1>11. ASSUME NEW k \in Q PROVE k + 1 \in Q
  <2> SUFFICES ASSUME NEW i \in 0 .. n - 1, n - 1 - i <= k + 1 PROVE Good(i)
    OBVIOUS
  <2>1. \A j \in 0 .. n - 1 : i < j => n - 1 - j <= k
    BY <1>1
  <2>2. \A j \in 0 .. n - 1 : i < j => Good(j)
    BY <2>1
  <2>3. QED
    BY <2>2, <1>9
<1>12. Q = Nat
  <2> HIDE DEF Q
  <2>1. Q \in SUBSET Nat
    BY DEF Q
  <2>2. QED
    BY <1>10, <1>11, <2>1, SetInduction
<1>13. Good(0)
  <2>4. n - 1 \in Nat
    BY <1>1
  <2>1. n - 1 \in Q
    <3> HIDE DEF Q
    <3>1. QED
      BY <1>12, <2>4
  <2>2. 0 \in 0 .. n - 1 /\ n - 1 - 0 <= n - 1
    BY <1>1
  <2>3. QED
    BY <2>1, <2>2
<1>14. QED
  BY <1>3, <1>13 DEF Good, F

-------------------------------------------------------------------------------
(* Segmentation keeps the invariant                                        *)

\* The sequences, by their index.
LEMMA ItemsIndexed ==
  ASSUME Typed
  PROVE  /\ Len(items) \in Nat /\ DOMAIN items = 1 .. Len(items)
         /\ \A i \in DOMAIN items : items[i] \in Sequence
         /\ cfg \in Configs
BY LenProperties, ElementOfSeq DEF Typed

\* What was segmented keeps every promise about the sequences of a session that is not threaded yet.
LEMMA SegmentedKeeps ==
  ASSUME Typed, cfg' = cfg, Segmented(items', frames'), phase' = "assembled",
         threads' = <<>>, pool' = {}, clock' = 0
  PROVE  Typed' /\ NamesDiffer' /\ Fresh' /\ Valid' /\ Fitting' /\ Assembled'
<1>1. Positions' = Positions /\ Frames' = Frames /\ (\A m : (Preview(m))' = Preview(m))
  BY DEF Positions, Frames, Preview
<1>2. items' \in Seq(Episodes) /\ Tiles(items', Absorbed(frames'))
      /\ frames' \in [Positions -> FrameStates]
  BY DEF Segmented
<1>3. \A i \in DOMAIN items' : items'[i] \in Sequence /\ Episodic(items'[i])
  <2>1. \A i \in DOMAIN items' : items'[i] \in Episodes
    BY <1>2, LenProperties, ElementOfSeq
  <2>2. QED
    BY <2>1 DEF Episodes
<1>4. items' \in Seq(Sequence)
  <2>1. Episodes \subseteq Sequence
    BY DEF Episodes
  <2>2. QED
    BY <1>2, <2>1, SeqMonotonic
<1>5. Typed'
  <2>1. \A i \in DOMAIN items' : items'[i].pos # {} /\ items'[i].pos \subseteq Positions
    BY <1>3 DEF Episodic
  <2>2. phase' \in Phases
    BY DEF Phases, Upstreaming, Reading
  <2>3. QED
    BY <1>1, <1>2, <1>4, <2>1, <2>2 DEF Typed
<1>6. \A i, j \in DOMAIN items' : i # j => items'[i].root \cap items'[j].root = {}
  BY <1>2, <1>3 DEF Tiles, Episodic
<1>7. Fresh'
  BY <1>3, <1>6 DEF Fresh, Episodic
<1>8. NamesDiffer'
  <2>1. \A i \in DOMAIN items' : items'[i].root # {} /\ items'[i].cut = {}
    BY <1>3 DEF Episodic
  <2>2. \A i, j \in DOMAIN items' : i # j => ~SameName(items'[i], items'[j])
    BY <2>1, <1>6 DEF SameName
  <2>3. QED
    BY <2>1, <2>2 DEF NamesDiffer, SameName
<1>9. Fitting'
  <2>1. \A i \in DOMAIN items' : Active(items'[i]) /\ Cardinality(items'[i].pos) > 1
                                  => Preview(items'[i].pos) # "sequence"
    BY <1>3 DEF Episodic
  <2>2. QED
    BY <2>1, <1>1 DEF Fitting, Active
<1>10. Assembled'
  BY <1>1, <1>3 DEF Assembled, Episodic
<1>11. Valid'
  <2>1. Claiming' = DOMAIN items'
    BY <1>3 DEF Claiming, Episodic
  <2>2. {p \in Positions : frames'[p] = "absorbed"} = UNION {items'[i].pos : i \in DOMAIN items'}
    BY <1>2 DEF Absorbed, Tiles
  <2>3. \A i \in DOMAIN items' :
          items'[i].pos # {} /\ \A p \in items'[i].pos : items'[i].lower <= p /\ p < items'[i].upper
    BY <1>3 DEF Episodic
  <2>4. QED
    BY <1>1, <1>2, <2>1, <2>2, <2>3 DEF Valid, Tiles
<1>12. QED
  BY <1>5, <1>7, <1>8, <1>9, <1>10, <1>11

\* Nothing of a session counts or fails before it is served.
LEMMA UpstreamQuiet ==
  ASSUME SessionInv, RunUpstream, phase \in Upstreaming, phase' \in Upstreaming \union {"serve"}, Typed'
  PROVE  Wave' /\ Totals' /\ MinimaFail' /\ CountsOnce'
<1>1. /\ episodes' = Len(items') /\ Len(items') \in Nat
      /\ UNCHANGED <<at, failed, terminals, pending, progress, reservation, captured, merged,
                     netEpisodes, delta>>
  BY LenProperties DEF RunUpstream, Typed
<1>2. /\ at = 0 /\ terminals = {} /\ pending = <<>> /\ captured = <<>> /\ netEpisodes = 0
         /\ reservation = FALSE
      /\ merged = <<>> /\ delta = 0
  BY DEF SessionInv, Totals, CountsOnce, Upstreaming, Reading, Threading
<1>3. phase' # "done" /\ phase' # "advance" /\ phase' # "internal"
  BY DEF Upstreaming, Reading, Threading
<1>4. Wave'
  BY <1>1, <1>2, <1>3 DEF Wave
<1>5. Totals'
  <2>1. SubSeq(Stages, 1, 0) = <<>>
    BY SubSeqEmpty
  <2>2. Stages \in Seq(STRING) /\ Len(Stages) \in Nat
    BY SessionAssumption, LenProperties
  <2>3. QED
    BY <1>1, <1>2, <2>1, <2>2 DEF Totals
<1>6. MinimaFail'
  BY <1>1, <1>2, <1>3 DEF MinimaFail
<1>7. CountsOnce'
  BY <1>1, <1>2, <1>3 DEF CountsOnce
<1>8. QED
  BY <1>4, <1>5, <1>6, <1>7

\* An action that leaves the sequences and the frames as they are keeps what is said of them.
LEMMA SequencesStay ==
  ASSUME SessionInv, UNCHANGED <<cfg, items, frames, netEpisodes>>, phase' \in Phases,
         phase' \in Upstreaming => phase \in Upstreaming
  PROVE  Typed' /\ NamesDiffer' /\ Fresh' /\ Valid' /\ Fitting'
<1>1. Positions' = Positions /\ Frames' = Frames /\ (\A m : (Preview(m))' = Preview(m))
      /\ Claiming' = Claiming
  BY DEF Positions, Frames, Preview, Claiming
<1>2. Typed'
  BY <1>1 DEF SessionInv, Typed
<1>3. NamesDiffer' /\ Fresh' /\ Fitting'
  BY <1>1 DEF SessionInv, NamesDiffer, Fresh, Fitting, SameName, Active
<1>4. Valid'
  BY <1>1 DEF SessionInv, Valid
<1>5. QED
  BY <1>2, <1>3, <1>4

-------------------------------------------------------------------------------
(* Before and beside the threads                                           *)

Upper == Typed /\ NamesDiffer /\ Fresh /\ Valid /\ WindowsCover /\ Fitting /\ Assembled /\ ThreadInv
         /\ SeamsMarkInterruptions

\* Before the threads: nothing is said of threads and seams yet.
LEMMA ReadingQuiet ==
  ASSUME SessionInv, phase \in Reading, phase' \in Reading, UNCHANGED stitchVars
  PROVE  /\ ThreadInv' /\ SeamsMarkInterruptions'
         /\ threads' = <<>> /\ pool' = {} /\ clock' = 0
<1>1. threads = <<>> /\ pool = {} /\ clock = 0
  BY DEF SessionInv, Assembled
<1>2. ThreadInv'
  BY DEF ThreadInv, Reading, Threading
<1>3. SeamsMarkInterruptions'
  BY DEF SeamsMarkInterruptions, Reading
<1>4. QED
  BY <1>1, <1>2, <1>3 DEF stitchVars

\* Planning the windows keeps the invariant: before the judge, every adjacent pair lies in one.
LEMMA PlanKeeps ==
  ASSUME SessionInv, Plan, UNCHANGED stitchVars, netEpisodes' = netEpisodes
  PROVE  Upper' /\ phase' \in Reading
<1>1. phase = "plan" /\ cfg' = cfg /\ broken' = broken /\ paired' = paired /\ cfg \in Configs
  BY DEF Plan, SessionInv, Typed
<1>2. Typed /\ Assembled /\ items = <<>> /\ paired = {} /\ phase \in Reading
  BY <1>1 DEF SessionInv, WindowsCover, Reading
<1>3. CASE Refined /\ phase' = "judge" /\ spans' = PackWindows /\ UNCHANGED <<frames, items>>
  <2>1. phase' \in Phases /\ phase' \in Reading /\ phase \in Upstreaming
    BY <1>2, <1>3 DEF Phases, Upstreaming, Reading
  <2>2. Typed' /\ NamesDiffer' /\ Fresh' /\ Valid' /\ Fitting'
    BY <1>1, <1>3, <2>1, SequencesStay
  <2>3. ThreadInv' /\ SeamsMarkInterruptions' /\ threads' = <<>> /\ pool' = {} /\ clock' = 0
    BY <1>2, <2>1, ReadingQuiet
  <2>4. Assembled'
    BY <1>1, <1>2, <1>3, <2>3 DEF Assembled, Frames
  <2>5. CoverFrom(PackWindows, 0)
    BY <1>1, PackWindowsCover
  <2>6. WindowsCover'
    <3>1. Frames' = Frames /\ phase' # "plan" /\ items' = <<>> /\ paired' = {}
      BY <1>1, <1>2, <1>3 DEF Frames
    <3>2. spans' \in Seq(Nat \X Nat \X Nat)
          /\ \A k \in DOMAIN spans' : spans'[k][1] < spans'[k][2] /\ spans'[k][2] <= Frames
      BY <1>3, <2>5 DEF CoverFrom, Within, Windows
    <3>3. \A p \in 0 .. Frames - 2 : \E k \in DOMAIN spans' : spans'[k][1] <= p /\ p <= spans'[k][2] - 2
      BY <1>3, <2>5 DEF CoverFrom, Spanned
    <3>4. QED
      BY <3>1, <3>2, <3>3 DEF WindowsCover, Covered
  <2>7. QED
    BY <2>1, <2>2, <2>3, <2>4, <2>6 DEF Upper
<1>4. CASE ~Refined /\ phase' = "assembled" /\ WholeEpisode /\ UNCHANGED spans
  <2>1. phase' \in Reading
    BY <1>4 DEF Reading
  <2>2. ThreadInv' /\ SeamsMarkInterruptions' /\ threads' = <<>> /\ pool' = {} /\ clock' = 0
    BY <1>2, <2>1, ReadingQuiet
  <2>3. Segmented(items', frames')
    BY <1>1, <1>4, WholeSegmented
  <2>4. Typed' /\ NamesDiffer' /\ Fresh' /\ Valid' /\ Fitting' /\ Assembled'
    BY <1>1, <1>2, <1>4, <2>2, <2>3, SegmentedKeeps
  <2>5. WindowsCover'
    BY <1>4 DEF WindowsCover
  <2>6. QED
    BY <2>1, <2>2, <2>4, <2>5 DEF Upper
<1>5. QED
  BY <1>3, <1>4 DEF Plan

\* The windows move on; the sequences are not there yet.
LEMMA JudgingKeeps ==
  ASSUME SessionInv, phase = "judge", UNCHANGED <<cfg, phase, frames, items, netEpisodes>>,
         UNCHANGED stitchVars, WindowsCover'
  PROVE  Upper' /\ phase' \in Reading
<1>1. phase' \in Phases /\ phase' \in Reading /\ phase \in Reading /\ phase \in Upstreaming
  BY DEF Phases, Upstreaming, Reading
<1>2. Typed' /\ NamesDiffer' /\ Fresh' /\ Valid' /\ Fitting'
  BY <1>1, SequencesStay
<1>3. ThreadInv' /\ SeamsMarkInterruptions' /\ threads' = <<>> /\ pool' = {} /\ clock' = 0
  BY <1>1, ReadingQuiet
<1>4. Assembled'
  BY <1>1, <1>3 DEF SessionInv, Assembled, Frames
<1>5. QED
  BY <1>1, <1>2, <1>3, <1>4 DEF Upper

\* The next window and those after it.
LEMMA HeadOfWindows ==
  ASSUME SessionInv, phase = "judge", spans # <<>>, broken = {}
  PROVE  /\ Head(spans) = spans[1] /\ 1 \in DOMAIN spans /\ Tail(spans) \in Seq(Windows)
         /\ spans[1] \in Windows /\ spans[1][1] < spans[1][2] /\ spans[1][2] <= Frames
         /\ \A k \in DOMAIN Tail(spans) : k + 1 \in DOMAIN spans /\ Tail(spans)[k] = spans[k + 1]
         /\ \A k \in DOMAIN spans : k = 1 \/ (k - 1 \in DOMAIN Tail(spans)
            /\ Tail(spans)[k - 1] = spans[k])
<1>1. spans \in Seq(Windows) /\ \A k \in DOMAIN spans : spans[k][1] < spans[k][2]
      /\ spans[k][2] <= Frames
  BY DEF SessionInv, WindowsCover, Windows
<1> DEFINE n == Len(spans)
           t == Tail(spans)
<1>2. n \in Nat /\ n # 0 /\ DOMAIN spans = 1 .. n
  BY <1>1, LenProperties, EmptySeq
<1>3. /\ Head(spans) = spans[1] /\ t \in Seq(Windows) /\ Len(t) = n - 1
      /\ \A i \in 1 .. Len(t) : t[i] = spans[i + 1]
  BY <1>1, HeadTailProperties
<1>4. DOMAIN t = 1 .. n - 1
  <2> HIDE DEF t
  <2>1. QED
    BY <1>3, LenProperties
<1>5. spans[1] \in Windows
  BY <1>1, <1>2, ElementOfSeq
<1> HIDE DEF t, n
<1>6. \A k \in 1 .. n - 1 : k + 1 \in DOMAIN spans /\ t[k] = spans[k + 1]
  BY <1>2, <1>3, <1>4
<1>7. \A k \in 1 .. n : k = 1 \/ (k - 1 \in 1 .. n - 1 /\ t[k - 1] = spans[k])
  <2> SUFFICES ASSUME NEW k \in 1 .. n, k # 1 PROVE k - 1 \in 1 .. n - 1 /\ t[k - 1] = spans[k]
    OBVIOUS
  <2> DEFINE j == k - 1
  <2>1. j \in 1 .. n - 1 /\ j + 1 = k
    BY <1>2
  <2> HIDE DEF j
  <2>2. t[j] = spans[k]
    BY <2>1, <1>6
  <2>3. QED
    BY <2>1, <2>2 DEF j
<1>8. QED
  BY <1>1, <1>2, <1>3, <1>4, <1>5, <1>6, <1>7 DEF t

\* Judging a window keeps it: the pairs of the window are judged now.
LEMMA JudgeWindowKeeps ==
  ASSUME SessionInv, JudgeWindow, UNCHANGED stitchVars, netEpisodes' = netEpisodes
  PROVE  Upper' /\ phase' \in Reading
<1>1. /\ phase = "judge" /\ spans # <<>> /\ spans' = Tail(spans)
      /\ UNCHANGED <<cfg, phase, broken, frames, items>>
      /\ paired' = paired \union Head(spans)[1] .. Head(spans)[2] - 2
  BY DEF JudgeWindow
<1>2. items = <<>> /\ Frames' = Frames
  BY <1>1 DEF SessionInv, WindowsCover, Frames
<1>3. ASSUME broken = {}
      PROVE  /\ spans' \in Seq(Windows) /\ \A k \in DOMAIN spans' : spans'[k][1] < spans'[k][2]
                /\ spans'[k][2] <= Frames
             /\ paired' \subseteq 0 .. Frames - 2
             /\ \A p \in 0 .. Frames - 2 : p \in paired'
                \/ \E k \in DOMAIN spans' : spans'[k][1] <= p /\ p <= spans'[k][2] - 2
  <2>1. /\ Head(spans) = spans[1] /\ 1 \in DOMAIN spans /\ Tail(spans) \in Seq(Windows)
        /\ spans[1] \in Windows /\ spans[1][1] < spans[1][2] /\ spans[1][2] <= Frames
        /\ \A k \in DOMAIN Tail(spans) : k + 1 \in DOMAIN spans /\ Tail(spans)[k] = spans[k + 1]
        /\ \A k \in DOMAIN spans : k = 1 \/ (k - 1 \in DOMAIN Tail(spans)
           /\ Tail(spans)[k - 1] = spans[k])
    BY <1>1, <1>3, HeadOfWindows
  <2>2. /\ \A k \in DOMAIN spans : spans[k][1] < spans[k][2] /\ spans[k][2] <= Frames
        /\ paired \subseteq 0 .. Frames - 2
        /\ \A p \in 0 .. Frames - 2 : p \in paired
           \/ \E k \in DOMAIN spans : spans[k][1] <= p /\ p <= spans[k][2] - 2
    BY <1>1, <1>3 DEF SessionInv, WindowsCover, Covered
  <2>3. spans[1][1] \in Nat /\ spans[1][2] \in Nat /\ Frames \in Nat
    BY <2>1, ConfigTyped DEF Windows, SessionInv, Typed
  <2>4. paired' \subseteq 0 .. Frames - 2
    <3> DEFINE a == spans[1][1]
               b == spans[1][2]
    <3>1. a \in Nat /\ b \in Nat /\ b <= Frames /\ paired' = paired \union a .. b - 2
      BY <1>1, <2>1, <2>3
    <3> HIDE DEF a, b
    <3>2. a .. b - 2 \subseteq 0 .. Frames - 2
      BY <3>1, <2>3
    <3>3. QED
      BY <3>1, <3>2, <2>2
  <2>5. ASSUME NEW p \in 0 .. Frames - 2
        PROVE  p \in paired' \/ \E k \in DOMAIN spans' : spans'[k][1] <= p /\ p <= spans'[k][2] - 2
    <3>1. CASE p \in paired
      BY <3>1, <1>1
    <3>2. CASE \E k \in DOMAIN spans : spans[k][1] <= p /\ p <= spans[k][2] - 2
      <4>1. PICK k \in DOMAIN spans : spans[k][1] <= p /\ p <= spans[k][2] - 2
        BY <3>2
      <4>2. CASE k = 1
        <5>1. p \in spans[1][1] .. spans[1][2] - 2
          BY <4>1, <4>2, <2>3
        <5>2. QED
          BY <5>1, <1>1, <2>1
      <4>3. CASE k # 1
        BY <4>1, <4>3, <2>1, <1>1
      <4>4. QED
        BY <4>2, <4>3
    <3>3. QED
      BY <3>1, <3>2, <2>2
  <2>6. QED
    BY <1>1, <2>1, <2>2, <2>4, <2>5
<1>4. WindowsCover'
  BY <1>1, <1>2, <1>3 DEF WindowsCover, Covered, Windows
<1>5. QED
  BY <1>1, <1>4, JudgingKeeps

\* Halving a window that is too large keeps it: the halves overlap in one frame.
LEMMA OverflowWindowKeeps ==
  ASSUME SessionInv, OverflowWindow, UNCHANGED stitchVars, netEpisodes' = netEpisodes
  PROVE  Upper' /\ phase' \in Reading
<1>1. /\ phase = "judge" /\ spans # <<>> /\ UNCHANGED <<cfg, phase, paired, frames, items>>
      /\ IF Head(spans)[2] - Head(spans)[1] < 3
         THEN broken' = broken \union {"overflow"} /\ spans' = WithoutJob
         ELSE spans' = Halves(Head(spans)) \o Tail(spans) /\ UNCHANGED broken
  BY DEF OverflowWindow
<1>2. items = <<>> /\ Frames' = Frames
  BY <1>1 DEF SessionInv, WindowsCover, Frames
<1>3. ASSUME broken' = {}
      PROVE  /\ spans' \in Seq(Windows) /\ \A k \in DOMAIN spans' : spans'[k][1] < spans'[k][2]
                /\ spans'[k][2] <= Frames
             /\ paired \subseteq 0 .. Frames - 2
             /\ \A p \in 0 .. Frames - 2 : p \in paired
                \/ \E k \in DOMAIN spans' : spans'[k][1] <= p /\ p <= spans'[k][2] - 2
  <2>1. /\ ~ (Head(spans)[2] - Head(spans)[1] < 3)
        /\ spans' = Halves(Head(spans)) \o Tail(spans) /\ broken = {}
    BY <1>1, <1>3
  <2>2. /\ Head(spans) = spans[1] /\ 1 \in DOMAIN spans /\ Tail(spans) \in Seq(Windows)
        /\ spans[1] \in Windows /\ spans[1][1] < spans[1][2] /\ spans[1][2] <= Frames
        /\ \A k \in DOMAIN Tail(spans) : k + 1 \in DOMAIN spans /\ Tail(spans)[k] = spans[k + 1]
        /\ \A k \in DOMAIN spans : k = 1 \/ (k - 1 \in DOMAIN Tail(spans)
           /\ Tail(spans)[k - 1] = spans[k])
    BY <1>1, <2>1, HeadOfWindows
  <2>3. /\ \A k \in DOMAIN spans : spans[k][1] < spans[k][2] /\ spans[k][2] <= Frames
        /\ paired \subseteq 0 .. Frames - 2
        /\ \A p \in 0 .. Frames - 2 : p \in paired
           \/ \E k \in DOMAIN spans : spans[k][1] <= p /\ p <= spans[k][2] - 2
    BY <1>1, <2>1 DEF SessionInv, WindowsCover, Covered
  <2> DEFINE a == spans[1][1]
             b == spans[1][2]
             mid == (a + b) \div 2
             h == Halves(spans[1])
             t == Tail(spans)
             n == Len(t)
  <2>4. a \in Nat /\ b \in Nat /\ Frames \in Nat /\ spans[1][3] \in Nat
    BY <2>2, ConfigTyped DEF Windows, SessionInv, Typed
  <2>5. ~ (b - a < 3) /\ b <= Frames
    BY <2>1, <2>2
  <2>6. mid \in Nat /\ a < mid /\ mid + 1 <= b /\ mid < b
    <3> HIDE DEF a, b
    <3>1. QED
      BY <2>4, <2>5
  <2>7. /\ h \in Seq(Windows) /\ Len(h) = 2 /\ h[1][1] = a /\ h[1][2] = mid + 1 /\ h[2][1] = mid
           /\ h[2][2] = b
    <3>1. h = <<<<a, mid + 1, spans[1][3]>>, <<mid, b, spans[1][3]>>>>
      BY DEF Halves
    <3> HIDE DEF h, a, b, mid
    <3>2. QED
      BY <3>1, <2>4, <2>6 DEF Windows
  <2>8. spans' = h \o t /\ t \in Seq(Windows)
    BY <2>1, <2>2
  <2> HIDE DEF h, t, a, b, mid, n
  <2>9. n \in Nat /\ DOMAIN t = 1 .. n
    BY <2>8, LenProperties DEF n
  <2>10. spans' \in Seq(Windows) /\ Len(spans') = 2 + n
         /\ \A i \in 1 .. 2 + n : spans'[i] = IF i <= 2 THEN h[i] ELSE t[i - 2]
    <3>1. /\ h \o t \in Seq(Windows) /\ Len(h \o t) = Len(h) + Len(t)
          /\ \A i \in 1 .. Len(h) + Len(t) : (h \o t)[i] = IF i <= Len(h) THEN h[i] ELSE t[i - Len(h)]
      BY <2>7, <2>8, ConcatProperties
    <3>2. Len(h) = 2 /\ Len(t) = n
      BY <2>7 DEF n
    <3>3. QED
      BY <3>1, <3>2, <2>8
  <2>11. DOMAIN spans' = 1 .. 2 + n
    BY <2>10, LenProperties
  <2>12. 1 \in DOMAIN spans' /\ 2 \in DOMAIN spans' /\ spans'[1] = h[1] /\ spans'[2] = h[2]
    BY <2>9, <2>10, <2>11
  <2>13. \A i \in 1 .. 2 + n : i = 1 \/ i = 2 \/ (i - 2 \in DOMAIN t /\ spans'[i] = t[i - 2])
    BY <2>9, <2>10
  <2>14. \A k \in 1 .. n : k + 2 \in DOMAIN spans' /\ spans'[k + 2] = t[k]
    BY <2>9, <2>10, <2>11
  <2>15. \A k \in DOMAIN spans' : spans'[k][1] < spans'[k][2] /\ spans'[k][2] <= Frames
    <3> SUFFICES ASSUME NEW k \in 1 .. 2 + n PROVE spans'[k][1] < spans'[k][2] /\ spans'[k][2] <= Frames
      BY <2>11
    <3>1. CASE k = 1
      <4>1. a < mid + 1 /\ mid + 1 <= Frames
        BY <2>4, <2>5, <2>6
      <4>2. QED
        BY <3>1, <4>1, <2>7, <2>12
    <3>2. CASE k = 2
      BY <3>2, <2>5, <2>6, <2>7, <2>12
    <3>3. CASE k # 1 /\ k # 2
      <4>1. k - 2 \in DOMAIN t /\ spans'[k] = t[k - 2]
        BY <3>3, <2>13
      <4>2. \A j \in DOMAIN t : t[j][1] < t[j][2] /\ t[j][2] <= Frames
        BY <2>2, <2>3 DEF t
      <4>3. QED
        BY <4>1, <4>2
    <3>4. QED
      BY <3>1, <3>2, <3>3
  <2>16. ASSUME NEW p \in 0 .. Frames - 2, p \notin paired
         PROVE  \E k \in DOMAIN spans' : spans'[k][1] <= p /\ p <= spans'[k][2] - 2
    <3>1. PICK k \in DOMAIN spans : spans[k][1] <= p /\ p <= spans[k][2] - 2
      BY <2>3, <2>16
    <3>2. CASE k = 1
      <4>1. a <= p /\ p <= b - 2
        BY <3>1, <3>2 DEF a, b
      <4>2. (a <= p /\ p <= mid + 1 - 2) \/ (mid <= p /\ p <= b - 2)
        BY <4>1, <2>4, <2>6
      <4>3. CASE a <= p /\ p <= mid + 1 - 2
        <5>1. spans'[1][1] = a /\ spans'[1][2] = mid + 1 /\ 1 \in DOMAIN spans'
          BY <2>7, <2>12
        <5>2. spans'[1][1] <= p /\ p <= spans'[1][2] - 2
          BY <5>1, <4>3, <2>6
        <5>3. QED
          BY <5>1, <5>2
      <4>4. CASE mid <= p /\ p <= b - 2
        BY <4>4, <2>7, <2>12
      <4>5. QED
        BY <4>2, <4>3, <4>4
    <3>3. CASE k # 1
      <4>1. k - 1 \in 1 .. n /\ t[k - 1] = spans[k]
        BY <3>3, <2>2, <2>9 DEF t
      <4>2. PICK j \in 1 .. n : t[j] = spans[k]
        BY <4>1
      <4>3. QED
        BY <3>1, <4>2, <2>14
    <3>4. QED
      BY <3>2, <3>3
  <2>17. QED
    BY <2>3, <2>10, <2>15, <2>16
<1>4. WindowsCover'
  BY <1>1, <1>2, <1>3 DEF WindowsCover, Covered, Windows
<1>5. QED
  BY <1>1, <1>4, JudgingKeeps

\* A window that fails for good keeps it: the session is disposed of as a whole.
LEMMA FailWindowKeeps ==
  ASSUME SessionInv, FailWindow, UNCHANGED stitchVars, netEpisodes' = netEpisodes
  PROVE  Upper' /\ phase' \in Reading
<1>1. phase = "judge" /\ broken' # {} /\ UNCHANGED <<cfg, phase, frames, items>>
  BY DEF FailWindow
<1>2. WindowsCover'
  BY <1>1 DEF SessionInv, WindowsCover
<1>3. QED
  BY <1>1, <1>2, JudgingKeeps

\* Assembling the sequences of the session keeps it.
LEMMA SettleKeeps ==
  ASSUME SessionInv, Settle, UNCHANGED stitchVars, netEpisodes' = netEpisodes
  PROVE  Upper' /\ phase' \in Reading
<1>1. phase = "judge" /\ phase' = "assembled" /\ cfg' = cfg
      /\ (IF broken # {} THEN DisposeFailed ELSE Assemble)
  BY DEF Settle
<1>2. Typed /\ cfg \in Configs /\ phase \in Reading /\ phase' \in Reading
  BY <1>1 DEF SessionInv, Typed, Reading
<1>3. Segmented(items', frames')
  BY <1>1, <1>2, AssembleSegmented, DisposeSegmented
<1>4. ThreadInv' /\ SeamsMarkInterruptions' /\ threads' = <<>> /\ pool' = {} /\ clock' = 0
  BY <1>2, ReadingQuiet
<1>5. Typed' /\ NamesDiffer' /\ Fresh' /\ Valid' /\ Fitting' /\ Assembled'
  BY <1>1, <1>2, <1>3, <1>4, SegmentedKeeps
<1>6. WindowsCover'
  BY <1>1 DEF WindowsCover
<1>7. QED
  BY <1>2, <1>4, <1>5, <1>6 DEF Upper

-------------------------------------------------------------------------------
(* The candidates for the threads                                          *)

\* What a function takes from a finite set is finite.
LEMMA ImageFinite ==
  ASSUME NEW S, IsFiniteSet(S), NEW f, f = [x \in S |-> f[x]], NEW T, \A y \in T : \E x \in S : y = f[x]
  PROVE  IsFiniteSet(T)
<1> DEFINE I == {f[x] : x \in S}
<1>1. f \in Surjection(S, I)
  BY DEF Surjection
<1> HIDE DEF I
<1>2. IsFiniteSet(I)
  BY <1>1, FS_Surjection
<1>3. T \in SUBSET I
  BY DEF I
<1>4. QED
  BY <1>2, <1>3, FS_Subset

\* The members of a sequence and its extremes.
LEMMA PosExtremes ==
  ASSUME cfg \in Configs, NEW S \in SUBSET Positions, S # {}
  PROVE  /\ Min(S) \in S /\ Min(S) \in Nat /\ \A x \in S : Min(S) <= x
         /\ Max(S) \in S /\ Max(S) \in Nat /\ \A x \in S : Max(S) >= x
         /\ \A x \in S : x \in Nat
<1>1. IsFiniteSet(S) /\ S \in SUBSET Int /\ S \in SUBSET Nat
  BY MembersFinite
<1>2. Min(S) \in S /\ (\A x \in S : Min(S) <= x) /\ Max(S) \in S /\ \A x \in S : Max(S) >= x
  BY <1>1, Extremes
<1>3. QED
  BY <1>1, <1>2

\* What the type invariant says of the sequences, one by one.
LEMMA Typedness ==
  ASSUME Typed
  PROVE  /\ cfg \in Configs /\ Frames \in Nat \ {0} /\ IsFiniteSet(Positions)
         /\ Len(items) \in Nat /\ DOMAIN items = 1 .. Len(items)
         /\ \A i \in DOMAIN items : /\ items[i] \in Sequence /\ items[i].pos # {}
                                       /\ items[i].pos \in SUBSET Positions
                                    /\ items[i].lower \in Nat /\ items[i].upper \in Nat
                                    /\ items[i].sealed \in BOOLEAN /\ items[i].status \in Statuses
                                    /\ items[i].root \in SUBSET Nat /\ items[i].cut \in SUBSET Nat
<1>1. cfg \in Configs /\ Len(items) \in Nat /\ DOMAIN items = 1 .. Len(items)
      /\ \A i \in DOMAIN items : items[i] \in Sequence
  BY ItemsIndexed
<1>2. Frames \in Nat \ {0} /\ IsFiniteSet(Positions)
  BY <1>1, ConfigTyped
<1>3. \A i \in DOMAIN items : /\ items[i].lower \in Nat /\ items[i].upper \in Nat
                              /\ items[i].sealed \in BOOLEAN /\ items[i].status \in Statuses
                              /\ items[i].root \in SUBSET Nat /\ items[i].cut \in SUBSET Nat
  BY <1>1 DEF Sequence
<1>4. QED
  BY <1>1, <1>2, <1>3 DEF Typed

\* The frames dropped as too short a run, that a thread may still rescue.
Short == {p \in Positions : frames[p] = "below_min_len"}

\* Two maximal runs of dropped frames are the same or share no frame.
LEMMA RunsApart ==
  ASSUME Typed
  PROVE  /\ Runs \in SUBSET (SUBSET Positions)
         /\ \A r \in Runs : r # {} /\ r \subseteq Short
         /\ \A r, t \in Runs : r # t => r \cap t = {}
<1>1. Runs = {run \in {a .. b : a, b \in Short} :
                /\ run # {} /\ run \subseteq Short
                /\ Min(run) - 1 \notin Short /\ Max(run) + 1 \notin Short}
  BY DEF Runs, Short
<1>2. Short \in SUBSET Positions /\ \A p \in Short : p \in Nat
  BY MembersFinite DEF Short, Typed
<1>3. \A r \in Runs : r # {} /\ r \subseteq Short /\ r \in SUBSET Positions
  BY <1>1, <1>2
<1>4. ASSUME NEW r \in Runs
      PROVE  \E a, b \in Short : r = a .. b /\ a <= b /\ a - 1 \notin Short /\ b + 1 \notin Short
  <2>1. PICK a \in Short, b \in Short : r = a .. b
    BY <1>1
  <2>2. a \in Nat /\ b \in Nat /\ a <= b
    BY <2>1, <1>2, <1>3
  <2>3. Min(r) \in r /\ (\A x \in r : Min(r) <= x) /\ Max(r) \in r /\ \A x \in r : Max(r) >= x
    BY <1>3, PosExtremes DEF Typed
  <2>4. Min(r) = a /\ Max(r) = b
    <3> DEFINE m == Min(r)
               n == Max(r)
    <3>1. m \in a .. b /\ (\A x \in a .. b : m <= x) /\ n \in a .. b /\ \A x \in a .. b : n >= x
      BY <2>1, <2>3
    <3> HIDE DEF m, n
    <3>2. a \in a .. b /\ b \in a .. b
      BY <2>2
    <3>3. m <= a /\ n >= b
      BY <3>1, <3>2
    <3>4. m = a /\ n = b
      BY <3>1, <3>3, <2>2
    <3>5. QED
      BY <3>4 DEF m, n
  <2>5. Min(r) - 1 \notin Short /\ Max(r) + 1 \notin Short
    BY <1>1
  <2>6. QED
    BY <2>1, <2>2, <2>4, <2>5
<1>5. ASSUME NEW r \in Runs, NEW t \in Runs, r \cap t # {} PROVE r = t
  <2>1. PICK a \in Short, b \in Short : r = a .. b /\ a <= b /\ a - 1 \notin Short /\ b + 1 \notin Short
    BY <1>4
  <2>2. PICK c \in Short, d \in Short : t = c .. d /\ c <= d /\ c - 1 \notin Short /\ d + 1 \notin Short
    BY <1>4
  <2>3. a \in Nat /\ b \in Nat /\ c \in Nat /\ d \in Nat
    BY <1>2, <2>1, <2>2
  <2>4. PICK x \in r : x \in t
    BY <1>5
  <2>5. x \in Int /\ a <= x /\ x <= b /\ c <= x /\ x <= d
    BY <2>1, <2>2, <2>4
  <2>6. a .. b \subseteq Short /\ c .. d \subseteq Short
    BY <2>1, <2>2, <1>3
  <2>7. ~ (a < c)
    <3> SUFFICES ASSUME a < c PROVE FALSE
      OBVIOUS
    <3>1. c - 1 \in a .. b
      BY <2>3, <2>5
    <3>2. QED
      BY <3>1, <2>6, <2>2
  <2>8. ~ (c < a)
    <3> SUFFICES ASSUME c < a PROVE FALSE
      OBVIOUS
    <3>1. a - 1 \in c .. d
      BY <2>3, <2>5
    <3>2. QED
      BY <3>1, <2>6, <2>1
  <2>9. ~ (b < d)
    <3> SUFFICES ASSUME b < d PROVE FALSE
      OBVIOUS
    <3>1. b + 1 \in c .. d
      BY <2>3, <2>5
    <3>2. QED
      BY <3>1, <2>6, <2>1
  <2>10. ~ (d < b)
    <3> SUFFICES ASSUME d < b PROVE FALSE
      OBVIOUS
    <3>1. d + 1 \in a .. b
      BY <2>3, <2>5
    <3>2. QED
      BY <3>1, <2>6, <2>2
  <2>11. a = c /\ b = d
    BY <2>3, <2>7, <2>8, <2>9, <2>10
  <2>12. QED
    BY <2>1, <2>2, <2>11
<1>6. QED
  BY <1>3, <1>5

\* The live sequences claim what was absorbed, each frame once.
LEMMA Claims ==
  ASSUME Typed, Valid
  PROVE  /\ \A i \in DOMAIN items : items[i].status # "stitched" =>
              \A p \in items[i].pos : /\ p \in Nat /\ frames[p] = "absorbed"
                                      /\ items[i].lower <= p /\ p < items[i].upper
         /\ \A i, j \in DOMAIN items : i # j /\ items[i].status # "stitched"
            /\ items[j].status # "stitched" =>
              items[i].pos \cap items[j].pos = {}
         /\ \A p \in Positions : frames[p] = "absorbed" =>
              \E i \in DOMAIN items : items[i].status # "stitched" /\ p \in items[i].pos
<1>1. \A i \in DOMAIN items : items[i].status # "stitched" => i \in Claiming
  BY DEF Claiming
<1>2. \A i \in DOMAIN items : items[i].pos \in SUBSET Positions /\ \A p \in items[i].pos : p \in Nat
  BY Typedness, MembersFinite
<1>3. ASSUME NEW i \in DOMAIN items, items[i].status # "stitched", NEW p \in items[i].pos
      PROVE  p \in Nat /\ frames[p] = "absorbed" /\ items[i].lower <= p /\ p < items[i].upper
  <2>1. i \in Claiming
    BY <1>1, <1>3
  <2>2. p \in UNION {items[k].pos : k \in Claiming}
    BY <2>1
  <2>3. p \in {x \in Positions : frames[x] = "absorbed"}
    BY <2>2 DEF Valid
  <2>4. QED
    BY <2>1, <2>3, <1>2 DEF Valid
<1>4. ASSUME NEW p \in Positions, frames[p] = "absorbed"
      PROVE  \E i \in DOMAIN items : items[i].status # "stitched" /\ p \in items[i].pos
  <2>1. p \in UNION {items[k].pos : k \in Claiming}
    BY <1>4 DEF Valid
  <2>2. QED
    BY <2>1 DEF Claiming
<1>5. \A i, j \in DOMAIN items : i # j /\ items[i].status # "stitched"
      /\ items[j].status # "stitched" =>
              items[i].pos \cap items[j].pos = {}
  BY <1>1 DEF Valid
<1>6. QED
  BY <1>3, <1>4, <1>5

\* The candidates: active episodes and dropped runs.
CandidateSet ==
  {Episode(i) : i \in {j \in DOMAIN items : items[j].status = "active"}}
    \union (IF cfg.rescue_short THEN {Rescue(run) : run \in Runs} ELSE {})

\* The candidates of stitching wait their turn, and no two share a frame.
LEMMA CandidatesWait ==
  ASSUME Typed, Valid
  PROVE  /\ \A c \in CandidateSet :
              /\ c \in Candidate /\ c.pos # {} /\ c.pos \in SUBSET Positions
              /\ c.kind = "episode" => c.item \in DOMAIN items /\ Active(items[c.item])
                 /\ items[c.item].pos = c.pos
              /\ c.kind = "rescue" => c.item = 0 /\ \A p \in c.pos : frames[p] = "below_min_len"
         /\ \A c, d \in CandidateSet : c # d => c.pos \cap d.pos = {}
         /\ IsFiniteSet(CandidateSet)
<1> DEFINE A == {j \in DOMAIN items : items[j].status = "active"}
<1>1. /\ cfg \in Configs /\ DOMAIN items = 1 .. Len(items) /\ Len(items) \in Nat
         /\ IsFiniteSet(Positions)
      /\ \A i \in DOMAIN items : items[i].pos # {} /\ items[i].pos \in SUBSET Positions
         /\ items[i].pos \in SUBSET Nat
  BY Typedness, MembersFinite
<1>2. /\ Runs \in SUBSET (SUBSET Positions) /\ (\A r \in Runs : r # {} /\ r \subseteq Short)
      /\ \A r, t \in Runs : r # t => r \cap t = {}
  BY RunsApart
<1>3. \A r \in Runs : r \in SUBSET Nat
  BY <1>1, <1>2, MembersFinite
<1>4. \A c \in CandidateSet : (\E i \in A : c = Episode(i)) \/ (\E r \in Runs : c = Rescue(r))
  BY DEF CandidateSet
<1>5. \A i \in A : /\ i \in DOMAIN items /\ i \in Nat /\ Episode(i).kind = "episode"
                      /\ Episode(i).item = i
                   /\ Episode(i).pos = items[i].pos /\ Episode(i) \in Candidate /\ Active(items[i])
  BY <1>1 DEF Episode, Candidate, Active
<1>6. \A r \in Runs : /\ Rescue(r).kind = "rescue" /\ Rescue(r).item = 0 /\ Rescue(r).pos = r
                      /\ Rescue(r) \in Candidate /\ \A p \in r : frames[p] = "below_min_len"
  BY <1>2, <1>3 DEF Rescue, Candidate, Short
<1>7. /\ \A i \in A : \A p \in items[i].pos : frames[p] = "absorbed"
      /\ \A i, j \in A : i # j => items[i].pos \cap items[j].pos = {}
  <2>1. \A i \in A : i \in DOMAIN items /\ items[i].status # "stitched"
    OBVIOUS
  <2>2. QED
    BY <2>1, Claims
<1>8. ASSUME NEW c \in CandidateSet
      PROVE  /\ c \in Candidate /\ c.pos # {} /\ c.pos \in SUBSET Positions
             /\ c.kind = "episode" => c.item \in DOMAIN items /\ Active(items[c.item])
                /\ items[c.item].pos = c.pos
             /\ c.kind = "rescue" => c.item = 0 /\ \A p \in c.pos : frames[p] = "below_min_len"
  <2>1. CASE \E i \in A : c = Episode(i)
    <3>1. PICK i \in A : c = Episode(i)
      BY <2>1
    <3>2. QED
      BY <3>1, <1>1, <1>5
  <2>2. CASE \E r \in Runs : c = Rescue(r)
    BY <2>2, <1>2, <1>6
  <2>3. QED
    BY <2>1, <2>2, <1>4
<1>9. ASSUME NEW c \in CandidateSet, NEW d \in CandidateSet, c # d PROVE c.pos \cap d.pos = {}
  <2>1. CASE (\E i \in A : c = Episode(i)) /\ (\E i \in A : d = Episode(i))
    <3>1. PICK i \in A : c = Episode(i)
      BY <2>1
    <3>2. PICK j \in A : d = Episode(j)
      BY <2>1
    <3>3. QED
      BY <3>1, <3>2, <1>5, <1>7, <1>9
  <2>2. CASE (\E r \in Runs : c = Rescue(r)) /\ (\E r \in Runs : d = Rescue(r))
    <3>1. PICK r \in Runs : c = Rescue(r)
      BY <2>2
    <3>2. PICK t \in Runs : d = Rescue(t)
      BY <2>2
    <3>3. QED
      BY <3>1, <3>2, <1>2, <1>6, <1>9
  <2>3. CASE (\E i \in A : c = Episode(i)) /\ (\E r \in Runs : d = Rescue(r))
    <3>1. \A p \in c.pos : frames[p] = "absorbed"
      BY <2>3, <1>5, <1>7
    <3>2. \A p \in d.pos : frames[p] = "below_min_len"
      BY <2>3, <1>6
    <3>3. QED
      BY <3>1, <3>2
  <2>4. CASE (\E r \in Runs : c = Rescue(r)) /\ (\E i \in A : d = Episode(i))
    <3>1. \A p \in d.pos : frames[p] = "absorbed"
      BY <2>4, <1>5, <1>7
    <3>2. \A p \in c.pos : frames[p] = "below_min_len"
      BY <2>4, <1>6
    <3>3. QED
      BY <3>1, <3>2
  <2>5. QED
    BY <1>4, <2>1, <2>2, <2>3, <2>4
<1>10. IsFiniteSet(CandidateSet)
  <2> DEFINE E == {c \in CandidateSet : \E i \in A : c = Episode(i)}
             D == {c \in CandidateSet : \E r \in Runs : c = Rescue(r)}
             e == [i \in A |-> Episode(i)]
             d == [r \in Runs |-> Rescue(r)]
  <2>1. IsFiniteSet(A)
    <3>1. IsFiniteSet(1 .. Len(items)) /\ A \in SUBSET (1 .. Len(items))
      BY <1>1, FS_Interval
    <3>2. QED
      BY <3>1, FS_Subset
  <2>2. IsFiniteSet(Runs)
    <3>1. IsFiniteSet(SUBSET Positions)
      BY <1>1, FS_SUBSET
    <3>2. QED
      BY <3>1, <1>2, FS_Subset
  <2> HIDE DEF A
  <2>3. IsFiniteSet(E)
    <3>1. e = [x \in A |-> e[x]] /\ \A y \in E : \E x \in A : y = e[x]
      OBVIOUS
    <3> HIDE DEF e, E
    <3>2. QED
      BY <3>1, <2>1, ImageFinite
  <2>4. IsFiniteSet(D)
    <3>1. d = [x \in Runs |-> d[x]] /\ \A y \in D : \E x \in Runs : y = d[x]
      OBVIOUS
    <3> HIDE DEF d, D
    <3>2. QED
      BY <3>1, <2>2, ImageFinite
  <2>5. CandidateSet = E \cup D
    BY <1>4
  <2> HIDE DEF E, D
  <2>6. QED
    BY <2>3, <2>4, <2>5, FS_Union
<1>11. QED
  BY <1>8, <1>9, <1>10

-------------------------------------------------------------------------------
(* Stitching begins                                                        *)

\* The candidates are judged once each.
LEMMA CandidatesListed ==
  ASSUME Typed, Valid
  PROVE  /\ Candidates \in Seq(CandidateSet)
         /\ \A k, l \in DOMAIN Candidates : k # l => Candidates[k].pos \cap Candidates[l].pos = {}
         /\ \A c \in CandidateSet : \E k \in DOMAIN Candidates : Candidates[k] = c
<1> DEFINE S == CandidateSet
           R == {p \in S \X S : Min(p[1].pos) < Min(p[2].pos)}
           s == Candidates
<1>1. /\ \A c \in S : c.pos # {} /\ c.pos \in SUBSET Positions
      /\ \A c, d \in S : c # d => c.pos \cap d.pos = {}
      /\ IsFiniteSet(S)
  BY CandidatesWait
<1>2. s = [i \in 1 .. Cardinality(S) |->
             CHOOSE x \in S : Cardinality({y \in S : Min(y.pos) < Min(x.pos)}) = i - 1]
  BY DEF Candidates, Arranged, CandidateSet
<1> HIDE DEF S, s
<1>3. \A c \in S : Min(c.pos) \in c.pos /\ Min(c.pos) \in Nat
  <2> SUFFICES ASSUME NEW c \in S PROVE Min(c.pos) \in c.pos /\ Min(c.pos) \in Nat
    OBVIOUS
  <2>1. c.pos # {} /\ c.pos \in SUBSET Positions /\ cfg \in Configs
    BY <1>1 DEF Typed
  <2>2. QED
    BY <2>1, PosExtremes
<1>4. StrictOrder(S, R)
  <2>1. \A c, d \in S : c # d => Min(c.pos) # Min(d.pos)
    BY <1>1, <1>3
  <2>2. QED
    BY <1>3, <2>1 DEF StrictOrder
<1>5. \A x \in S : Below(S, R, x) = {y \in S : Min(y.pos) < Min(x.pos)}
  BY DEF Below
<1>6. \A c, d \in S : <<c, d>> \in R => c # d
  BY <1>3
<1> HIDE DEF R
<1>7. Ranked(S, R, s)
  <2>1. \A i \in 1 .. Cardinality(S) : \E x \in S : Cardinality({y \in S : Min(y.pos) < Min(x.pos)}) = i - 1
    <3> SUFFICES ASSUME NEW i \in 1 .. Cardinality(S)
                 PROVE  \E x \in S : Cardinality({y \in S : Min(y.pos) < Min(x.pos)}) = i - 1
      OBVIOUS
    <3>1. PICK x \in S : Cardinality(Below(S, R, x)) = i - 1
      BY <1>1, <1>4, RanksTaken
    <3>2. QED
      BY <3>1, <1>5
  <2>2. /\ s \in [1 .. Cardinality(S) -> S]
        /\ \A i \in 1 .. Cardinality(S) : s[i] \in S
           /\ Cardinality({y \in S : Min(y.pos) < Min(s[i].pos)}) = i - 1
    BY <1>2, <2>1
  <2>3. QED
    BY <2>2, <1>5 DEF Ranked
<1>8. /\ s \in Seq(S) /\ Len(s) = Cardinality(S)
      /\ DOMAIN s = 1 .. Cardinality(S) /\ Cardinality(S) \in Nat
      /\ \A i, j \in 1 .. Cardinality(S) : i < j => <<s[i], s[j]>> \in R
      /\ \A x \in S : \E i \in 1 .. Cardinality(S) : s[i] = x
  BY <1>1, <1>4, <1>7, RankedLists
<1>9. \A k \in DOMAIN s : s[k] \in S
  BY <1>8, ElementOfSeq
<1>10. ASSUME NEW k \in DOMAIN s, NEW l \in DOMAIN s, k # l PROVE s[k].pos \cap s[l].pos = {}
  <2>1. k < l \/ l < k
    BY <1>8, <1>10
  <2>2. s[k] # s[l]
    BY <2>1, <1>6, <1>8, <1>9
  <2>3. QED
    BY <2>2, <1>1, <1>9
<1>11. QED
  BY <1>8, <1>10 DEF S, s

\* Putting the candidates into the queue keeps the invariant.
LEMMA BeginStitchKeeps ==
  ASSUME SessionInv, BeginStitch, netEpisodes' = netEpisodes
  PROVE  Upper' /\ phase' \in Threading \union {"serve"}
<1>1. /\ phase = "assembled" /\ UNCHANGED <<cfg, items, frames>>
      /\ threads' = threads /\ pool' = pool /\ clock' = clock
      /\ threads = <<>> /\ pool = {} /\ clock = 0
      /\ \A i \in DOMAIN items : items[i].status # "stitched"
         /\ (items[i].upper < Frames => items[i].sealed)
      /\ \A i \in DOMAIN items : items[i].seams = {}
      /\ Typed /\ Valid
  BY DEF BeginStitch, segmentVars, SessionInv, Assembled, Reading, Upstreaming
<1>2. phase' \in {"stitch", "serve"}
  BY DEF BeginStitch
<1>3. phase' \in Phases /\ phase \in Upstreaming /\ phase' \notin Reading
      /\ phase' \in Threading \union {"serve"}
  BY <1>1, <1>2 DEF Phases, Upstreaming, Reading, Threading
<1>4. Typed' /\ NamesDiffer' /\ Fresh' /\ Valid' /\ Fitting'
  BY <1>1, <1>3, SequencesStay
<1>5. WindowsCover' /\ Assembled'
  BY <1>1, <1>2, <1>3 DEF WindowsCover, Assembled
<1>6. Candidates \in Seq(CandidateSet)
      /\ (\A k, l \in DOMAIN Candidates : k # l => Candidates[k].pos \cap Candidates[l].pos = {})
      /\ (\A c \in CandidateSet : \E k \in DOMAIN Candidates : Candidates[k] = c)
  BY <1>1, CandidatesListed
<1>7. \A i \in DOMAIN items : Active(items[i]) => Episode(i) \in CandidateSet /\ Episode(i).item = i
  BY DEF CandidateSet, Active, Episode
<1>8. CASE phase' = "stitch"
  <2>1. queue' = Candidates /\ cuts' = CutsOf(items)
    BY <1>8 DEF BeginStitch
  <2>2. \A k \in DOMAIN queue' : queue'[k] \in CandidateSet
    <3>1. queue' \in Seq(CandidateSet)
      BY <1>6, <2>1
    <3>2. QED
      BY <3>1, LenProperties, ElementOfSeq
  <2>3. \A c \in CandidateSet :
           /\ c \in Candidate /\ c.pos # {} /\ c.pos \in SUBSET Positions
           /\ c.kind = "episode" => c.item \in DOMAIN items /\ Active(items[c.item])
              /\ items[c.item].pos = c.pos
           /\ c.kind = "rescue" => c.item = 0 /\ \A p \in c.pos : frames[p] = "below_min_len"
    BY <1>1, CandidatesWait
  <2>4. queue' \in Seq(Candidate)
    <3>1. CandidateSet \subseteq Candidate
      BY <2>3
    <3>2. QED
      BY <1>6, <2>1, <3>1, SeqMonotonic
  <2>5. DOMAIN threads' = {}
    BY <1>1
  <2>6. \A k \in DOMAIN queue' : (Waiting(queue[k]))'
    <3>1. Positions' = Positions
      BY <1>1 DEF Positions, Frames
    <3>2. QED
      BY <1>1, <2>2, <2>3, <2>5, <3>1 DEF Waiting, Active
  <2>7. QueueTyped'
    BY <1>6, <1>8, <2>1, <2>4, <2>6 DEF QueueTyped
  <2>8. ThreadsTyped'
    BY <1>1, <2>5 DEF ThreadsTyped
  <2>9. Owners'
    <3> SUFFICES ASSUME NEW i \in DOMAIN items, Active(items[i])
                 PROVE  \E k \in DOMAIN queue' : queue'[k].item = i
      BY <1>1, <1>8 DEF Owners, Active
    <3>1. PICK k \in DOMAIN Candidates : Candidates[k] = Episode(i)
      BY <1>6, <1>7
    <3>2. QED
      BY <3>1, <2>1, <1>7
  <2>10. CutsSealed'
    <3>1. ASSUME NEW c \in CutsOf(items)
          PROVE  /\ c[1] \in Positions /\ frames[c[1]] = "absorbed"
                 /\ \A i \in DOMAIN items : c[1] \in items[i].pos => items[i].sealed
      <4>1. PICK j \in DOMAIN items : items[j].upper < Frames /\ c[1] = Max(items[j].pos)
        BY DEF CutsOf
      <4>2. Max(items[j].pos) \in items[j].pos
        BY <1>1, Typedness, PosExtremes
      <4>3. c[1] \in items[j].pos /\ items[j].sealed
        BY <1>1, <4>1, <4>2
      <4>4. c[1] \in Positions /\ frames[c[1]] = "absorbed"
        BY <1>1, <4>3, Typedness, Claims
      <4>5. \A i \in DOMAIN items : c[1] \in items[i].pos => i = j
        BY <1>1, <4>3, Claims
      <4>6. QED
        BY <4>3, <4>4, <4>5
    <3>2. Positions' = Positions
      BY <1>1 DEF Positions, Frames
    <3>3. QED
      BY <1>1, <2>1, <3>1, <3>2 DEF CutsSealed
  <2>11. ThreadInv'
    BY <2>7, <2>8, <2>9, <2>10 DEF ThreadInv
  <2>12. SeamsMarkInterruptions'
    BY <1>8 DEF SeamsMarkInterruptions
  <2>13. QED
    BY <1>3, <1>4, <1>5, <2>11, <2>12 DEF Upper
<1>9. CASE phase' = "serve"
  <2>1. ThreadInv'
    BY <1>9 DEF ThreadInv, Threading
  <2>2. ~ (cfg.stitch /\ Candidates # <<>> /\ \E i \in DOMAIN items : items[i].status = "active")
    BY <1>9 DEF BeginStitch
  <2>3. cfg.stitch => \A i \in DOMAIN items : ~Active(items[i])
    <3> SUFFICES ASSUME cfg.stitch, NEW i \in DOMAIN items, Active(items[i]) PROVE FALSE
      OBVIOUS
    <3>1. PICK k \in DOMAIN Candidates : Candidates[k] = Episode(i)
      BY <1>6, <1>7
    <3>2. Candidates # <<>>
      BY <3>1
    <3>3. QED
      BY <2>2, <3>2 DEF Active
  <2>4. SeamsMarkInterruptions'
    BY <1>1, <2>3 DEF SeamsMarkInterruptions, Active
  <2>5. QED
    BY <1>3, <1>4, <1>5, <2>1, <2>4 DEF Upper
<1>10. QED
  BY <1>2, <1>8, <1>9

-------------------------------------------------------------------------------
(* The threads that are nearest to a candidate                             *)

\* The threads, by their index, and where each of them begins and ends.
LEMMA ThreadsIndexed ==
  ASSUME Typed, ThreadsTyped
  PROVE  /\ Len(threads) \in Nat /\ DOMAIN threads = 1 .. Len(threads) /\ IsFiniteSet(DOMAIN threads)
         /\ \A t \in DOMAIN threads :
              /\ t \in Nat /\ t # 0 /\ threads[t] \in Thread /\ threads[t].last \in Nat
              /\ threads[t].item \in DOMAIN items /\ threads[t].item \in Nat /\ threads[t].item # 0
              /\ threads[t].alive \in BOOLEAN
              /\ Pos(t) # {} /\ Pos(t) \in SUBSET Positions
              /\ HeadPos(t) \in Pos(t) /\ HeadPos(t) \in Nat /\ TailPos(t) \in Pos(t)
                 /\ TailPos(t) \in Nat
              /\ \A p \in Pos(t) : HeadPos(t) <= p /\ p <= TailPos(t) /\ p \in Nat
<1>1. threads \in Seq(Thread)
  BY DEF ThreadsTyped
<1>2. Len(threads) \in Nat /\ DOMAIN threads = 1 .. Len(threads)
      /\ \A t \in DOMAIN threads : threads[t] \in Thread
  BY <1>1, LenProperties, ElementOfSeq
<1>3. IsFiniteSet(DOMAIN threads)
  BY <1>2, FS_Interval
<1>4. cfg \in Configs /\ DOMAIN items = 1 .. Len(items) /\ Len(items) \in Nat
      /\ \A i \in DOMAIN items : items[i].pos # {} /\ items[i].pos \in SUBSET Positions
  BY Typedness
<1>5. ASSUME NEW t \in DOMAIN threads
      PROVE  /\ t \in Nat /\ t # 0 /\ threads[t] \in Thread /\ threads[t].last \in Nat
             /\ threads[t].item \in DOMAIN items /\ threads[t].item \in Nat /\ threads[t].item # 0
             /\ threads[t].alive \in BOOLEAN
             /\ Pos(t) # {} /\ Pos(t) \in SUBSET Positions
             /\ HeadPos(t) \in Pos(t) /\ HeadPos(t) \in Nat /\ TailPos(t) \in Pos(t)
                /\ TailPos(t) \in Nat
             /\ \A p \in Pos(t) : HeadPos(t) <= p /\ p <= TailPos(t) /\ p \in Nat
  <2>1. t \in Nat /\ t # 0 /\ threads[t] \in Thread /\ threads[t].last \in Nat
        /\ threads[t].alive \in BOOLEAN
    BY <1>2 DEF Thread
  <2>2. threads[t].item \in DOMAIN items /\ threads[t].item \in Nat /\ threads[t].item # 0
    BY <1>4 DEF ThreadsTyped
  <2>3. Pos(t) # {} /\ Pos(t) \in SUBSET Positions
    BY <1>4, <2>2 DEF Pos
  <2>4. /\ Min(Pos(t)) \in Pos(t) /\ Min(Pos(t)) \in Nat /\ \A x \in Pos(t) : Min(Pos(t)) <= x
        /\ Max(Pos(t)) \in Pos(t) /\ Max(Pos(t)) \in Nat /\ \A x \in Pos(t) : Max(Pos(t)) >= x
        /\ \A x \in Pos(t) : x \in Nat
    BY <1>4, <2>3, PosExtremes
  <2>5. HeadPos(t) = Min(Pos(t)) /\ TailPos(t) = Max(Pos(t))
    BY DEF HeadPos, TailPos
  <2>6. \A p \in Pos(t) : HeadPos(t) <= p /\ p <= TailPos(t) /\ p \in Nat
    BY <2>4, <2>5
  <2>7. QED
    BY <2>1, <2>2, <2>3, <2>4, <2>5, <2>6
<1>6. QED
  BY <1>2, <1>3, <1>5

\* Two live threads share no frame.
LEMMA ThreadsApart ==
  ASSUME Typed, Valid, ThreadsTyped, NEW t \in DOMAIN threads, NEW u \in DOMAIN threads, t # u,
         threads[t].alive, threads[u].alive
  PROVE  Pos(t) \cap Pos(u) = {} /\ HeadPos(t) # HeadPos(u)
<1>1. /\ threads[t].item \in DOMAIN items /\ threads[u].item \in DOMAIN items
      /\ threads[t].item # threads[u].item
      /\ items[threads[t].item].status # "stitched" /\ items[threads[u].item].status # "stitched"
  BY DEF ThreadsTyped, Active
<1>2. Pos(t) \cap Pos(u) = {}
  BY <1>1, Claims DEF Pos
<1>3. HeadPos(t) \in Pos(t) /\ HeadPos(u) \in Pos(u)
  BY ThreadsIndexed
<1>4. QED
  BY <1>2, <1>3

\* The most recent first: threads that are not sealed were judged at different times.
LEMMA RecentOnes ==
  ASSUME Typed, ThreadsTyped, NEW S \in SUBSET (DOMAIN threads), \A t \in S : ~SealedThread(t)
  PROVE  \A k \in DOMAIN Recent(S) : Recent(S)[k] \in S
<1> DEFINE R == {p \in S \X S : threads[p[1]].last > threads[p[2]].last}
           s == Recent(S)
<1>1. IsFiniteSet(S) /\ \A t \in S : threads[t].last \in Nat
  BY ThreadsIndexed, FS_Subset
<1>2. \A t, u \in S : t # u => threads[t].last # threads[u].last
  BY DEF ThreadsTyped
<1>3. StrictOrder(S, R)
  BY <1>1, <1>2 DEF StrictOrder
<1>4. \A x \in S : Below(S, R, x) = {y \in S : threads[y].last > threads[x].last}
  BY DEF Below
<1>5. s = [i \in 1 .. Cardinality(S) |->
             CHOOSE x \in S : Cardinality({y \in S : threads[y].last > threads[x].last}) = i - 1]
  BY DEF Recent, Arranged
<1> HIDE DEF R, s
<1>6. \A i \in 1 .. Cardinality(S) :
        \E x \in S : Cardinality({y \in S : threads[y].last > threads[x].last}) = i - 1
  <2> SUFFICES ASSUME NEW i \in 1 .. Cardinality(S)
               PROVE 
        \E x \in S : Cardinality({y \in S : threads[y].last > threads[x].last}) = i - 1
    OBVIOUS
  <2>1. PICK x \in S : Cardinality(Below(S, R, x)) = i - 1
    BY <1>1, <1>3, RanksTaken
  <2>2. QED
    BY <2>1, <1>4
<1>7. \A i \in DOMAIN s : s[i] \in S
  BY <1>5, <1>6
<1>8. QED
  BY <1>7 DEF s

\* The threads of a set, by their distance to t and then by their heads.
Ahead(t, a, b) ==
  LET d == SpanDistance(t, a) e == SpanDistance(t, b)
  IN d < e \/ (d = e /\ HeadPos(a) < HeadPos(b))
Nearest(t, S) ==
  [i \in 1 .. Cardinality(S) |-> CHOOSE x \in S : Cardinality({y \in S : Ahead(t, y, x)}) = i - 1]

\* Nearest lists the threads of a set, each once.
LEMMA NearestOnes ==
  ASSUME Typed, Valid, ThreadsTyped, NEW t \in DOMAIN threads, NEW S \in SUBSET (DOMAIN threads),
         \A u \in S : threads[u].alive
  PROVE  /\ Cardinality(S) \in Nat /\ Nearest(t, S) \in [1 .. Cardinality(S) -> S]
<1> DEFINE R == {p \in S \X S : Ahead(t, p[1], p[2])}
           s == Nearest(t, S)
<1>1. IsFiniteSet(S) /\ Cardinality(S) \in Nat
  <2>1. IsFiniteSet(S)
    BY ThreadsIndexed, FS_Subset
  <2>2. QED
    BY <2>1, FS_CardinalityType
<1>2. \A u \in S : HeadPos(u) \in Nat /\ TailPos(u) \in Nat
  BY ThreadsIndexed
<1>3. \A u \in S : SpanDistance(t, u) \in Int
  <2>1. HeadPos(t) \in Nat /\ TailPos(t) \in Nat
    BY ThreadsIndexed
  <2>2. QED
    BY <1>2, <2>1 DEF SpanDistance
<1>4. \A u, w \in S : u # w => HeadPos(u) # HeadPos(w)
  BY ThreadsApart
<1>5. \A u, w \in S : <<u, w>> \in R <=>
        (SpanDistance(t, u) < SpanDistance(t, w)
         \/ (SpanDistance(t, u) = SpanDistance(t, w) /\ HeadPos(u) < HeadPos(w)))
  BY DEF Ahead
<1>6. \A x \in S : Below(S, R, x) = {y \in S : Ahead(t, y, x)}
  BY DEF Below
<1> HIDE DEF R
<1>7. StrictOrder(S, R)
  <2>1. \A x \in S : <<x, x>> \notin R
    BY <1>2, <1>3, <1>5
  <2>2. \A x, y \in S : x # y => <<x, y>> \in R \/ <<y, x>> \in R
    <3> SUFFICES ASSUME NEW x \in S, NEW y \in S, x # y PROVE <<x, y>> \in R \/ <<y, x>> \in R
      OBVIOUS
    <3>1. HeadPos(x) # HeadPos(y) /\ HeadPos(x) \in Nat /\ HeadPos(y) \in Nat
          /\ SpanDistance(t, x) \in Int /\ SpanDistance(t, y) \in Int
      BY <1>2, <1>3, <1>4
    <3>2. QED
      BY <3>1, <1>5
  <2>3. \A x, y, z \in S : <<x, y>> \in R /\ <<y, z>> \in R => <<x, z>> \in R
    <3> SUFFICES ASSUME NEW x \in S, NEW y \in S, NEW z \in S, <<x, y>> \in R, <<y, z>> \in R
                 PROVE  <<x, z>> \in R
      OBVIOUS
    <3>1. /\ HeadPos(x) \in Nat /\ HeadPos(y) \in Nat /\ HeadPos(z) \in Nat
          /\ SpanDistance(t, x) \in Int /\ SpanDistance(t, y) \in Int /\ SpanDistance(t, z) \in Int
      BY <1>2, <1>3
    <3>2. QED
      BY <3>1, <1>5
  <2>4. QED
    BY <2>1, <2>2, <2>3 DEF StrictOrder
<1>8. \A i \in 1 .. Cardinality(S) : \E x \in S : Cardinality({y \in S : Ahead(t, y, x)}) = i - 1
  <2> SUFFICES ASSUME NEW i \in 1 .. Cardinality(S)
               PROVE  \E x \in S : Cardinality({y \in S : Ahead(t, y, x)}) = i - 1
    OBVIOUS
  <2>1. PICK x \in S : Cardinality(Below(S, R, x)) = i - 1
    BY <1>1, <1>7, RanksTaken
  <2>2. QED
    BY <2>1, <1>6
<1>9. s \in [1 .. Cardinality(S) -> S]
  BY <1>8 DEF Nearest
<1>10. QED
  BY <1>1, <1>9

\* The threads that may be merged with a candidate, and its cards in these names.
Others(c) == {t \in DOMAIN threads : threads[t].alive /\ t # c.thread /\ Mergeable(t, c)}
CardSet(c) ==
  IF c.thread = 0 THEN {t \in pool : Mergeable(t, c)}
  ELSE ToSet(SubSeq(Nearest(c.thread, Others(c)), 1, Min({cfg.max_open, Cardinality(Others(c))})))

\* The cards of a candidate, in the names used here.
LEMMA CardsAre == ASSUME NEW c PROVE Cards(c) = Recent(CardSet(c))
<1>1. CASE c.thread = 0
  BY <1>1 DEF Cards, CardSet
<1>2. CASE c.thread # 0
  BY <1>2 DEF Cards, CardSet, Others, Nearest, Ahead, Arranged
<1>3. QED
  BY <1>1, <1>2

\* A card shown to the judge is a live thread that could take the candidate, and not the candidate.
LEMMA CardsMergeable ==
  ASSUME Typed, Valid, ThreadsTyped, NEW c,
         c.thread = 0 => phase = "stitch",
         c.thread # 0 => c.thread \in DOMAIN threads,
         NEW o \in DOMAIN Cards(c)
  PROVE  /\ Cards(c)[o] \in DOMAIN threads /\ threads[Cards(c)[o]].alive /\ Mergeable(Cards(c)[o], c)
         /\ Cards(c)[o] # c.thread
         /\ c.thread = 0 => Cards(c)[o] \in pool
<1> DEFINE S == CardSet(c)
<1>1. \A t \in DOMAIN threads : t # 0
  BY ThreadsIndexed
<1>2. \A t \in S : /\ t \in DOMAIN threads /\ threads[t].alive /\ Mergeable(t, c) /\ t # c.thread
                   /\ c.thread = 0 => t \in pool
  <2>1. CASE c.thread = 0
    <3>1. \A t \in pool : t \in DOMAIN threads /\ threads[t].alive
      BY <2>1 DEF ThreadsTyped
    <3>2. QED
      BY <2>1, <3>1, <1>1 DEF CardSet
  <2>2. CASE c.thread # 0
    <3> DEFINE T == Others(c)
               s == Nearest(c.thread, T)
               m == Min({cfg.max_open, Cardinality(T)})
    <3>1. /\ T \in SUBSET (DOMAIN threads)
          /\ \A u \in T : threads[u].alive /\ u # c.thread /\ Mergeable(u, c)
      BY DEF Others
    <3> HIDE DEF T
    <3>2. Cardinality(T) \in Nat /\ s \in [1 .. Cardinality(T) -> T]
      BY <2>2, <3>1, NearestOnes
    <3>3. m \in Int /\ m <= Cardinality(T)
      <4>1. cfg.max_open \in Nat
        BY ConfigTyped DEF Typed
      <4> DEFINE a == cfg.max_open
                 b == Cardinality(T)
      <4>2. a \in Int /\ b \in Int
        BY <3>2, <4>1
      <4> HIDE DEF a, b
      <4>3. Min({a, b}) = IF a <= b THEN a ELSE b
        BY <4>2, OfTwo
      <4>4. Min({a, b}) \in Int /\ Min({a, b}) <= b
        BY <4>2, <4>3
      <4>5. QED
        BY <4>4 DEF a, b
    <3>4. S = ToSet(SubSeq(s, 1, m))
      BY <2>2 DEF CardSet, T
    <3> HIDE DEF s, m
    <3>5. /\ SubSeq(s, 1, m) \in Seq(T)
      <4>1. \A i \in 1 .. m : s[i] \in T
        BY <3>2, <3>3
      <4>2. QED
        BY <3>3, <4>1, SubSeqProperties
    <3>6. \A t \in ToSet(SubSeq(s, 1, m)) : t \in T
      BY <3>5, LenProperties, ElementOfSeq DEF ToSet
    <3>7. QED
      BY <2>2, <3>1, <3>4, <3>6
  <2>3. QED
    BY <2>1, <2>2
<1>3. Cards(c) = Recent(S)
  BY CardsAre
<1> HIDE DEF S
<1>4. \A t \in S : ~SealedThread(t)
  BY <1>2 DEF Mergeable, SealedThread
<1>5. \A k \in DOMAIN Recent(S) : Recent(S)[k] \in S
  <2>1. S \in SUBSET (DOMAIN threads)
    BY <1>2
  <2>2. QED
    BY <1>4, <2>1, RecentOnes
<1>6. QED
  BY <1>2, <1>3, <1>5

-------------------------------------------------------------------------------
(* Steps that leave sequences as they are, but for seals and bounds        *)

\* A sequence that got tighter bounds or a seal, and is the same otherwise.
Alike(d, e) ==
  /\ d.root = e.root /\ d.cut = e.cut /\ d.pos = e.pos /\ d.status = e.status /\ d.seams = e.seams
  /\ e.sealed => d.sealed
Reshaped ==
  /\ items' \in Seq(Sequence) /\ DOMAIN items' = DOMAIN items
  /\ \A i \in DOMAIN items :
       /\ Alike(items'[i], items[i])
       /\ items[i].status # "stitched" =>
            \A p \in items[i].pos : items'[i].lower <= p /\ p < items'[i].upper

\* Sequences that are not touched are no exception.
LEMMA UnchangedReshaped ==
  ASSUME Typed, Valid, items' = items
  PROVE  Reshaped
<1>1. items \in Seq(Sequence)
  BY DEF Typed
<1>2. \A i \in DOMAIN items : items[i].status # "stitched" =>
        \A p \in items[i].pos : items[i].lower <= p /\ p < items[i].upper
  BY Claims
<1>3. QED
  BY <1>1, <1>2 DEF Reshaped, Alike

\* While threads are made no window, no seam and no cut of a wave is spoken of.
LEMMA ThreadingQuiet ==
  ASSUME phase' \in Threading
  PROVE  /\ WindowsCover' /\ SeamsMarkInterruptions'
         /\ (\A i \in DOMAIN items' : items'[i].seams = {}) => Assembled'
<1>1. phase' \notin {"plan", "judge", "assembled", "serve", "advance", "done"}
  BY DEF Threading
<1>2. QED
  BY <1>1 DEF WindowsCover, SeamsMarkInterruptions, Assembled, Reading

\* Seals and tighter bounds keep what is promised of the sequences.
LEMMA ReshapedKeeps ==
  ASSUME SessionInv, phase \in Threading, phase' \in Threading, UNCHANGED <<cfg, frames, netEpisodes>>,
         Reshaped
  PROVE  /\ Typed' /\ NamesDiffer' /\ Fresh' /\ Valid' /\ WindowsCover' /\ Fitting' /\ Assembled'
         /\ SeamsMarkInterruptions'
<1>1. /\ Typed /\ NamesDiffer /\ Fresh /\ Valid /\ Fitting /\ Assembled
  BY DEF SessionInv
<1>2. /\ phase \in Upstreaming /\ phase' \in Upstreaming /\ phase' \in Phases
  BY DEF Upstreaming, Phases
<1>3. Positions' = Positions /\ Frames' = Frames /\ (\A m : (Preview(m))' = Preview(m))
  BY DEF Positions, Frames, Preview
<1>4. DOMAIN items' = DOMAIN items /\ \A i \in DOMAIN items : Alike(items'[i], items[i])
  BY DEF Reshaped
<1>5. Claiming' = Claiming
  BY <1>4 DEF Claiming, Alike
<1>6. Typed'
  <2>1. items' \in Seq(Sequence)
    BY DEF Reshaped
  <2>2. \A i \in DOMAIN items' : items'[i].pos # {} /\ items'[i].pos \subseteq Positions
    BY <1>1, <1>4 DEF Typed, Alike
  <2>3. QED
    BY <1>1, <1>2, <1>3, <2>1, <2>2 DEF Typed
<1>7. NamesDiffer'
  <2>1. \A i \in DOMAIN items' : items'[i].root = items[i].root /\ items'[i].cut = items[i].cut
          /\ items'[i].pos = items[i].pos /\ items'[i].status = items[i].status
    BY <1>4 DEF Alike
  <2>2. QED
    BY <1>1, <1>4, <2>1 DEF NamesDiffer, SameName
<1>8. Fresh'
  BY <1>1, <1>2, <1>4 DEF Fresh, Alike
<1>9. Fitting'
  BY <1>1, <1>3, <1>4 DEF Fitting, Alike, Active
<1>10. Valid'
  <2>1. \A i \in Claiming : items'[i].pos = items[i].pos
          /\ \A p \in items[i].pos : items'[i].lower <= p /\ p < items'[i].upper
    BY DEF Claiming, Reshaped, Alike
  <2>2. QED
    BY <1>1, <1>3, <1>5, <2>1 DEF Valid
<1>11. \A i \in DOMAIN items' : items'[i].seams = {}
  BY <1>1, <1>2, <1>4 DEF Assembled, Alike
<1>12. QED
  BY <1>6, <1>7, <1>8, <1>9, <1>10, <1>11, ThreadingQuiet

\* The threads stay, the clock may go on.
LEMMA ThreadsStay ==
  ASSUME Typed, ThreadsTyped, Reshaped, threads' = threads, pool' \subseteq pool,
         clock' \in {clock, clock + 1}, phase' = "stitch" => phase = "stitch"
  PROVE  ThreadsTyped'
<1>1. \A i \in DOMAIN items : /\ (items[i].sealed => items'[i].sealed)
                                 /\ items'[i].status = items[i].status
                              /\ i \in DOMAIN items'
  BY DEF Reshaped, Alike
<1>2. \A t \in DOMAIN threads : /\ threads[t].item \in DOMAIN items
                                   /\ (SealedThread(t) => (SealedThread(t))')
                                /\ threads[t].last \in Nat
                                /\ Active(items[threads[t].item]) => Active(items'[threads[t].item])
  BY <1>1, ThreadsIndexed DEF SealedThread, Active
<1>3. clock \in Nat /\ clock' \in Nat /\ clock <= clock'
  BY DEF ThreadsTyped
<1>4. \A t \in DOMAIN threads' :
        /\ threads'[t].item \in DOMAIN items'
        /\ threads'[t].alive => Active(items'[threads'[t].item])
        /\ threads'[t].last <= clock'
        /\ ~(SealedThread(t))' => threads'[t].last < clock'
        /\ phase' = "stitch" => threads'[t].alive
  BY <1>1, <1>2, <1>3 DEF ThreadsTyped
<1>5. \A t, u \in DOMAIN threads' : t # u =>
       /\ threads'[t].item # threads'[u].item
       /\ ~(SealedThread(t))' /\ ~(SealedThread(u))' => threads'[t].last # threads'[u].last
  BY <1>2 DEF ThreadsTyped
<1>6. QED
  BY <1>3, <1>4, <1>5 DEF ThreadsTyped

\* A candidate opens a thread of its own.
LEMMA OpenThreadKeeps ==
  ASSUME Typed, ThreadsTyped, Reshaped, phase' = phase,
         NEW c \in Candidate, c.kind = "episode", Waiting(c), NEW open \in SUBSET pool,
         OpenThread(c, open),
         clock' \in {clock, clock + 1}, items'[c.item].sealed \/ clock' = clock + 1
  PROVE  /\ ThreadsTyped'
         /\ DOMAIN threads \subseteq DOMAIN threads'
            /\ \A t \in DOMAIN threads : threads'[t] = threads[t]
         /\ \E t \in DOMAIN threads' : threads'[t].alive /\ threads'[t].item = c.item
         /\ \A t \in DOMAIN threads' : t \in DOMAIN threads \/ threads'[t].item = c.item
<1> DEFINE n == Len(threads)
           new == [item |-> c.item, last |-> clock, alive |-> TRUE,
                   frags |-> {[pos |-> c.pos, cause |-> "origin"]}]
<1>1. n \in Nat /\ DOMAIN threads = 1 .. n /\ threads \in Seq(Thread) /\ clock \in Nat
  BY ThreadsIndexed DEF ThreadsTyped
<1>2. /\ c.item \in DOMAIN items /\ c.item \in Nat /\ Active(items[c.item]) /\ c.pos \in SUBSET Nat
      /\ \A t \in DOMAIN threads : threads[t].item # c.item
  BY DEF Candidate, Waiting
<1>3. new \in Thread
  <2> DEFINE f == [pos |-> c.pos, cause |-> "origin"]
  <2>1. f \in Fragment
    <3>1. c.pos \in SUBSET Nat /\ "origin" \in {"origin", "resumed", "rescued"}
      BY <1>2
    <3>2. QED
      BY <3>1, Zenon DEF Fragment
  <2> HIDE DEF f
  <2>2. {f} \in SUBSET Fragment
    BY <2>1
  <2>3. new = [item |-> c.item, last |-> clock, alive |-> TRUE, frags |-> {f}]
    BY DEF f
  <2> HIDE DEF new
  <2>4. QED
    BY <1>1, <1>2, <2>2, <2>3 DEF Thread
<1>4. threads' = Append(threads, new) /\ pool' \subseteq open \union {n + 1}
  <2>1. pool' = (open \ (IF Cardinality(open) >= cfg.max_open /\ ~Sealed(c)
                         THEN {SelectEviction(open, Min(c.pos))} ELSE {}))
                  \union (IF Sealed(c) THEN {} ELSE {n + 1})
    BY DEF OpenThread
  <2>2. threads' = Append(threads, new)
    BY DEF OpenThread
  <2>3. QED
    BY <2>1, <2>2
<1>5. /\ new.item = c.item /\ new.alive = TRUE /\ new.last = clock
  OBVIOUS
<1> HIDE DEF new
<1>6. /\ threads' \in Seq(Thread) /\ Len(threads') = n + 1 /\ threads'[n + 1] = new
      /\ \A i \in 1 .. n : threads'[i] = threads[i]
  BY <1>1, <1>3, <1>4, AppendProperties
<1> HIDE DEF n
<1>7. DOMAIN threads' = 1 .. n + 1
  BY <1>6, LenProperties
<1>8. \A t \in DOMAIN threads' : t \in DOMAIN threads \/ t = n + 1
  BY <1>1, <1>7
<1>9. n + 1 \in DOMAIN threads' /\ n + 1 \notin DOMAIN threads
      /\ DOMAIN threads \subseteq DOMAIN threads'
  BY <1>1, <1>7
<1>10. pool' \subseteq DOMAIN threads'
  BY <1>4, <1>9 DEF ThreadsTyped
<1>11. clock' \in Nat /\ clock <= clock'
  BY <1>1
<1>12. \A i \in DOMAIN items :
        /\ (items[i].sealed => items'[i].sealed) /\ items'[i].status = items[i].status
        /\ i \in DOMAIN items'
  BY DEF Reshaped, Alike
<1>13. \A t \in DOMAIN threads :
        /\ threads'[t] = threads[t]
        /\ threads[t].item \in DOMAIN items /\ (SealedThread(t) => (SealedThread(t))')
        /\ threads[t].last \in Nat /\ threads[t].last <= clock
        /\ ~SealedThread(t) => threads[t].last < clock
        /\ threads[t].alive => Active(items'[threads[t].item])
        /\ threads[t].item # c.item
        /\ phase = "stitch" => threads[t].alive
  <2>1. \A t \in DOMAIN threads : threads'[t] = threads[t]
    BY <1>1, <1>6
  <2>2. QED
    BY <2>1, <1>2, <1>12, ThreadsIndexed DEF SealedThread, Active, ThreadsTyped
<1>14. \A t \in DOMAIN threads' :
        /\ threads'[t].item \in DOMAIN items'
        /\ threads'[t].alive => Active(items'[threads'[t].item])
        /\ threads'[t].last <= clock'
        /\ ~(SealedThread(t))' => threads'[t].last < clock'
        /\ phase' = "stitch" => threads'[t].alive
  <2> SUFFICES ASSUME NEW t \in DOMAIN threads'
               PROVE  /\ threads'[t].item \in DOMAIN items'
                      /\ threads'[t].alive => Active(items'[threads'[t].item])
                      /\ threads'[t].last <= clock'
                      /\ ~(SealedThread(t))' => threads'[t].last < clock'
                      /\ phase' = "stitch" => threads'[t].alive
    OBVIOUS
  <2>1. CASE t \in DOMAIN threads
    BY <2>1, <1>1, <1>11, <1>12, <1>13
  <2>2. CASE t = n + 1
    BY <2>2, <1>1, <1>2, <1>5, <1>6, <1>11, <1>12 DEF SealedThread, Active
  <2>3. QED
    BY <2>1, <2>2, <1>8
<1>15. \A t, u \in DOMAIN threads' : t # u =>
       /\ threads'[t].item # threads'[u].item
       /\ ~(SealedThread(t))' /\ ~(SealedThread(u))' => threads'[t].last # threads'[u].last
  <2>1. \A t, u \in DOMAIN threads : t # u =>
         /\ threads'[t].item # threads'[u].item
         /\ ~(SealedThread(t))' /\ ~(SealedThread(u))' => threads'[t].last # threads'[u].last
    BY <1>13 DEF ThreadsTyped
  <2>2. \A t \in DOMAIN threads :
         /\ threads'[t].item # threads'[n + 1].item
         /\ ~(SealedThread(t))' => threads'[t].last # threads'[n + 1].last
    BY <1>1, <1>5, <1>6, <1>13
  <2>3. QED
    BY <2>1, <2>2, <1>8
<1>16. ThreadsTyped'
  BY <1>6, <1>10, <1>11, <1>14, <1>15 DEF ThreadsTyped
<1>17. QED
  BY <1>5, <1>6, <1>8, <1>9, <1>13, <1>16

\* The candidate at the head, and those behind it.
LEMMA HeadOfQueue ==
  ASSUME QueueTyped, phase = "stitch", queue # <<>>
  PROVE  /\ Head(queue) \in Candidate /\ Waiting(Head(queue)) /\ Tail(queue) \in Seq(Candidate)
         /\ Head(queue) = queue[1]
         /\ \A k \in DOMAIN Tail(queue) :
              /\ Tail(queue)[k] \in Candidate /\ Waiting(Tail(queue)[k])
              /\ Tail(queue)[k].pos \cap Head(queue).pos = {}
         /\ \A k, l \in DOMAIN Tail(queue) : k # l => Tail(queue)[k].pos \cap Tail(queue)[l].pos = {}
         /\ \A k \in DOMAIN queue : k = 1 \/ \E l \in DOMAIN Tail(queue) : Tail(queue)[l] = queue[k]
<1> DEFINE n == Len(queue)
           t == Tail(queue)
<1>1. queue \in Seq(Candidate)
  BY DEF QueueTyped
<1>2. n \in Nat /\ n # 0 /\ DOMAIN queue = 1 .. n
  BY <1>1, LenProperties, EmptySeq
<1>3. /\ Head(queue) = queue[1] /\ t \in Seq(Candidate) /\ Len(t) = n - 1
      /\ \A i \in 1 .. Len(t) : t[i] = queue[i + 1]
  BY <1>1, HeadTailProperties
<1>4. DOMAIN t = 1 .. n - 1
  BY <1>3, LenProperties
<1>5. \A k \in DOMAIN queue : queue[k] \in Candidate
  BY <1>1, ElementOfSeq, <1>2
<1> HIDE DEF t, n
<1>6. \A k \in 1 .. n - 1 : k + 1 \in DOMAIN queue /\ k + 1 # 1 /\ t[k] = queue[k + 1]
  BY <1>2, <1>3, <1>4
<1>7. \A k \in 1 .. n : k = 1 \/ (k - 1 \in 1 .. n - 1 /\ t[k - 1] = queue[k])
  <2> SUFFICES ASSUME NEW k \in 1 .. n, k # 1 PROVE k - 1 \in 1 .. n - 1 /\ t[k - 1] = queue[k]
    OBVIOUS
  <2>1. k - 1 \in 1 .. n - 1 /\ (k - 1) + 1 = k
    BY <1>2
  <2>2. QED
    BY <2>1, <1>6
<1>8. 1 \in DOMAIN queue
  BY <1>2
<1>9. \A k, l \in 1 .. n - 1 : k # l => k + 1 # l + 1
  OBVIOUS
<1>10. /\ \A k \in DOMAIN queue : Waiting(queue[k])
       /\ \A k, l \in DOMAIN queue : k # l => queue[k].pos \cap queue[l].pos = {}
  BY DEF QueueTyped
<1>11. \A k \in 1 .. n - 1 : t[k] \in Candidate /\ Waiting(t[k]) /\ t[k].pos \cap Head(queue).pos = {}
  BY <1>3, <1>5, <1>6, <1>8, <1>10
<1>12. \A k, l \in 1 .. n - 1 : k # l => t[k].pos \cap t[l].pos = {}
  BY <1>6, <1>9, <1>10
<1>13. QED
  BY <1>2, <1>3, <1>4, <1>5, <1>7, <1>8, <1>10, <1>11, <1>12 DEF t

\* The queue moves on: whoever shares no frame with the candidate that was judged waits as before.
LEMMA QueueMoves ==
  ASSUME QueueTyped, phase = "stitch", phase' = "stitch", queue # <<>>, queue' = Tail(queue),
         \A d \in Candidate : Waiting(d) /\ d.pos \cap Head(queue).pos = {} => (Waiting(d))'
  PROVE  QueueTyped'
<1>1. /\ queue' \in Seq(Candidate)
      /\ \A k \in DOMAIN queue' : queue'[k] \in Candidate /\ Waiting(queue'[k])
         /\ queue'[k].pos \cap Head(queue).pos = {}
      /\ \A k, l \in DOMAIN queue' : k # l => queue'[k].pos \cap queue'[l].pos = {}
  BY HeadOfQueue
<1>2. \A k \in DOMAIN queue' : (Waiting(queue[k]))'
  BY <1>1
<1>3. QED
  BY <1>1, <1>2 DEF QueueTyped

\* What waits goes on waiting when its sequence and its frames are not touched and no thread takes it.
LEMMA WaitingStays ==
  ASSUME cfg' = cfg, NEW d \in Candidate, Waiting(d), DOMAIN items' = DOMAIN items,
         d.kind = "episode" => /\ items'[d.item].status = items[d.item].status
                               /\ items'[d.item].pos = items[d.item].pos
                               /\ \A t \in DOMAIN threads' : threads'[t].item # d.item,
         d.kind = "rescue" => \A p \in d.pos : frames'[p] = frames[p]
  PROVE  (Waiting(d))'
<1>1. Positions' = Positions
  BY DEF Positions, Frames
<1>2. QED
  BY <1>1 DEF Waiting, Active

-------------------------------------------------------------------------------
(* What is judged, and what it is merged into                              *)

\* What is judged: an episode that is active and not sealed, or a run of dropped frames.
JudgedWell(c) ==
  /\ c.pos # {} /\ c.pos \in SUBSET Positions /\ ~Sealed(c)
  /\ c.kind \in {"episode", "rescue"} /\ c.item \in Nat
  /\ c.kind = "episode" =>
       /\ c.item \in DOMAIN items /\ Active(items[c.item]) /\ items[c.item].pos = c.pos
       /\ ~items[c.item].sealed
  /\ c.kind = "rescue" => c.item = 0 /\ phase = "stitch" /\ \A p \in c.pos : frames[p] = "below_min_len"
  /\ phase = "stitch" => /\ c = Head(queue) /\ c.thread = 0 /\ Waiting(c) /\ c \in Candidate
                         /\ \A t \in DOMAIN threads : threads[t].item # c.item
  /\ phase = "repass" => /\ c.thread \in DOMAIN threads /\ threads[c.thread].alive /\ c.kind = "episode"
                         /\ c.thread # 0 /\ c.item = threads[c.thread].item

\* The head of the queue is fit to be judged.
LEMMA JudgedFacts ==
  ASSUME Typed, Valid, ThreadsTyped, QueueTyped, Judgeable
  PROVE  JudgedWell(Judged)
<1> DEFINE c == Judged
<1>1. phase \in {"stitch", "repass"} /\ queue # <<>> /\ ~Sealed(c)
  BY DEF Judgeable
<1>2. CASE phase = "stitch"
  <2>1. c = Head(queue)
    BY <1>2 DEF Judged
  <2>2. Head(queue) \in Candidate /\ Waiting(Head(queue))
    BY <1>1, <1>2, HeadOfQueue
  <2> HIDE DEF c
  <2>3. /\ c \in Candidate /\ Waiting(c) /\ c.thread = 0 /\ c.kind \in {"episode", "rescue"}
           /\ c.item \in Nat
    BY <2>1, <2>2 DEF Candidate
  <2>4. c.pos # {} /\ c.pos \in SUBSET Positions
    BY <2>3 DEF Waiting
  <2>5. c.kind = "episode" =>
          /\ c.item \in DOMAIN items /\ Active(items[c.item]) /\ items[c.item].pos = c.pos
          /\ ~items[c.item].sealed /\ \A t \in DOMAIN threads : threads[t].item # c.item
    <3>1. 0 \notin DOMAIN items
      BY Typedness
    <3>2. QED
      BY <3>1, <2>3, <1>1 DEF Waiting, Sealed
  <2>6. c.kind = "rescue" => /\ c.item = 0 /\ \A p \in c.pos : frames[p] = "below_min_len"
                             /\ \A t \in DOMAIN threads : threads[t].item # c.item
    BY <2>3, ThreadsIndexed DEF Waiting
  <2>7. QED
    BY <1>1, <1>2, <2>1, <2>3, <2>4, <2>5, <2>6 DEF JudgedWell, c
<1>3. CASE phase = "repass"
  <2> DEFINE u == Head(queue)
  <2>1. u \in DOMAIN threads
    <3>1. queue \in Seq(DOMAIN threads)
      BY <1>3 DEF QueueTyped
    <3>2. QED
      BY <3>1, <1>1, HeadTailProperties
  <2>2. threads[u].alive
    BY <1>3 DEF Judgeable
  <2>3. c = [kind |-> "episode", item |-> threads[u].item, pos |-> Pos(u), thread |-> u]
    BY <1>3 DEF Judged, Again
  <2> HIDE DEF c, u
  <2>4. c.kind = "episode" /\ c.item = threads[u].item /\ c.pos = Pos(u) /\ c.thread = u
    BY <2>3
  <2>5. /\ u # 0 /\ threads[u].item \in DOMAIN items /\ threads[u].item \in Nat /\ threads[u].item # 0
        /\ Pos(u) # {} /\ Pos(u) \in SUBSET Positions
    BY <2>1, ThreadsIndexed
  <2>6. Active(items[threads[u].item])
    BY <2>1, <2>2 DEF ThreadsTyped
  <2>7. items[c.item].pos = c.pos /\ ~items[c.item].sealed
    BY <1>1, <2>4, <2>5 DEF Pos, Sealed
  <2>8. QED
    BY <1>1, <1>3, <2>1, <2>2, <2>4, <2>5, <2>6, <2>7 DEF JudgedWell, c
<1>4. QED
  BY <1>1, <1>2, <1>3

\* The thread a verdict names is one of the cards: alive, another, and able to take the candidate.
Takes(t, c) ==
  /\ t \in DOMAIN threads /\ threads[t].alive /\ Mergeable(t, c) /\ t # c.thread
  /\ c.thread = 0 => t \in pool
  /\ threads[t].item # c.item

\* The thread that the judge names can take the candidate.
LEMMA TargetFacts ==
  ASSUME Typed, Valid, ThreadsTyped, NEW c, JudgedWell(c), phase \in {"stitch", "repass"},
         NEW outcome, NEW hits, Target(Cards(c), outcome, hits, c) # 0
  PROVE  Takes(Target(Cards(c), outcome, hits, c), c)
<1> DEFINE t == Target(Cards(c), outcome, hits, c)
<1>1. outcome \in DOMAIN Cards(c) /\ t = Cards(c)[outcome]
  BY DEF Target
<1>2. (c.thread = 0 => phase = "stitch") /\ (c.thread # 0 => c.thread \in DOMAIN threads)
  BY DEF JudgedWell
<1>3. /\ t \in DOMAIN threads /\ threads[t].alive /\ Mergeable(t, c) /\ t # c.thread
      /\ c.thread = 0 => t \in pool
  BY <1>1, <1>2, CardsMergeable
<1> HIDE DEF t
<1>4. threads[t].item # c.item
  <2>1. CASE phase = "stitch"
    BY <2>1, <1>3 DEF JudgedWell
  <2>2. CASE phase = "repass"
    BY <2>2, <1>3 DEF JudgedWell, ThreadsTyped
  <2>3. QED
    BY <2>1, <2>2
<1>5. QED
  BY <1>3, <1>4 DEF Takes, t

\* The sequence after a merge: it has the members of both, in bounds that both keep.
LEMMA MergedSequence ==
  ASSUME Typed, Valid, ThreadsTyped, NEW c, JudgedWell(c), NEW t, Takes(t, c)
  PROVE  LET m == Merged(t, c)
             own == items[threads[t].item]
         IN /\ m \in Sequence /\ m.pos = own.pos \union c.pos /\ m.root = own.root /\ m.cut = own.cut
            /\ m.status = own.status /\ m.seams = own.seams /\ m.sealed = own.sealed
            /\ m.pos # {} /\ m.pos \subseteq Positions
            /\ \A p \in m.pos : m.lower <= p /\ p < m.upper
            /\ ~own.sealed /\ own.status = "active"
<1> DEFINE own == items[threads[t].item]
           a == own.lower
           b == LowerOf(c)
           d == own.upper
           e == UpperOf(c)
           m == Merged(t, c)
<1>1. threads[t].item \in DOMAIN items /\ threads[t].alive
  BY ThreadsIndexed DEF Takes
<1>2. own \in Sequence /\ own.pos # {} /\ own.pos \subseteq Positions /\ own.pos \in SUBSET Nat
      /\ a \in Nat /\ d \in Nat
      /\ own.status = "active"
  BY <1>1, Typedness DEF Sequence, ThreadsTyped, Takes, Active
<1>3. b \in Nat /\ e \in Nat
  BY Typedness DEF LowerOf, UpperOf, JudgedWell
<1>4. c.pos \subseteq Positions /\ c.pos \subseteq Nat
  BY Typedness, MembersFinite DEF JudgedWell
<1>5. m = [own EXCEPT !.pos = own.pos \union c.pos, !.lower = Max({a, b}), !.upper = Min({d, e})]
  BY DEF Merged
<1>6. \A p \in m.pos : m.lower <= p /\ p < m.upper
  BY DEF Mergeable, Takes
<1>7. ~own.sealed
  BY DEF Mergeable, Takes
<1> HIDE DEF own, a, b, d, e, m
<1>8. Max({a, b}) \in Nat /\ Min({d, e}) \in Nat
  <2>1. a \in Int /\ b \in Int /\ d \in Int /\ e \in Int
    BY <1>2, <1>3
  <2>2. Max({a, b}) = IF a >= b THEN a ELSE b
    BY <2>1, OfTwo
  <2>3. Min({d, e}) = IF d <= e THEN d ELSE e
    BY <2>1, OfTwo
  <2>4. QED
    BY <2>2, <2>3, <1>2, <1>3
<1> DEFINE g == Max({a, b})
           h == Min({d, e})
<1>9. m = [own EXCEPT !.pos = own.pos \union c.pos, !.lower = g, !.upper = h] /\ g \in Nat /\ h \in Nat
  BY <1>5, <1>8
<1> HIDE DEF g, h
<1>10. /\ m \in Sequence /\ m.pos = own.pos \union c.pos /\ m.root = own.root /\ m.cut = own.cut
       /\ m.status = own.status /\ m.seams = own.seams /\ m.sealed = own.sealed
  BY <1>2, <1>4, <1>9 DEF Sequence
<1>11. m.pos # {} /\ m.pos \subseteq Positions
  BY <1>2, <1>4, <1>10
<1>12. QED
  BY <1>2, <1>6, <1>7, <1>10, <1>11 DEF own, m

-------------------------------------------------------------------------------
(* A merge, seen from the sequences                                        *)

\* The sequences after a merge.
LEMMA MergeSequences ==
  ASSUME SessionInv, phase \in {"stitch", "repass"}, phase' = phase, UNCHANGED <<cfg, netEpisodes>>,
         NEW c, JudgedWell(c), NEW t, Takes(t, c), Guarded(t, c), Merge(t, c)
  PROVE  /\ Typed' /\ NamesDiffer' /\ Fresh' /\ Valid' /\ WindowsCover' /\ Fitting' /\ Assembled'
         /\ SeamsMarkInterruptions'
<1> DEFINE own == threads[t].item
           m == Merged(t, c)
<1>1. /\ Typed /\ NamesDiffer /\ Fresh /\ Valid /\ Fitting /\ Assembled /\ ThreadsTyped
  BY DEF SessionInv, ThreadInv, Threading
<1>2. /\ phase \in Upstreaming /\ phase' \in Upstreaming /\ phase' \in Phases /\ phase' \in Threading
  BY DEF Upstreaming, Phases, Threading
<1>3. Positions' = Positions /\ Frames' = Frames /\ (\A x : (Preview(x))' = Preview(x))
  BY DEF Positions, Frames, Preview
<1>4. /\ own \in DOMAIN items /\ own # c.item /\ threads[t].alive
      /\ \A i \in DOMAIN items : items[i] \in Sequence
      /\ DOMAIN items = 1 .. Len(items) /\ Len(items) \in Nat
  BY <1>1, ThreadsIndexed, ItemsIndexed DEF Takes
<1>5. /\ m \in Sequence /\ m.pos = items[own].pos \union c.pos /\ m.root = items[own].root
         /\ m.cut = items[own].cut
      /\ m.status = items[own].status /\ m.seams = items[own].seams /\ m.sealed = items[own].sealed
      /\ m.pos # {} /\ m.pos \subseteq Positions
      /\ \A p \in m.pos : m.lower <= p /\ p < m.upper
      /\ items[own].status = "active"
  BY <1>1, MergedSequence
<1>6. Preview(m.pos) = "fits"
  <2>1. t # 0
    BY <1>1, ThreadsIndexed DEF Takes
  <2>2. QED
    BY <2>1 DEF Guarded
<1>7. items' = [i \in DOMAIN items |->
          IF i = own THEN m ELSE IF i = c.item THEN [items[i] EXCEPT !.status = "stitched"]
                                 ELSE items[i]]
  BY DEF Merge
<1>8. frames' = [p \in Positions |-> IF c.kind = "rescue" /\ p \in c.pos THEN "absorbed" ELSE frames[p]]
  BY DEF Merge
<1> HIDE DEF own, m
<1>9. DOMAIN items' = DOMAIN items /\ own \in DOMAIN items /\ items'[own] = m
  BY <1>4, <1>7
<1>10. ASSUME NEW i \in DOMAIN items, i # own
       PROVE  /\ items'[i] \in Sequence /\ items'[i].root = items[i].root
                 /\ items'[i].cut = items[i].cut
              /\ items'[i].pos = items[i].pos /\ items'[i].lower = items[i].lower
                 /\ items'[i].upper = items[i].upper
              /\ items'[i].sealed = items[i].sealed /\ items'[i].seams = items[i].seams
              /\ items'[i].status = IF i = c.item THEN "stitched" ELSE items[i].status
  <2>1. items[i] \in Sequence
    BY <1>4
  <2>2. CASE i = c.item
    <3>1. items'[i] = [items[i] EXCEPT !.status = "stitched"]
      BY <2>2, <1>7, <1>10
    <3>2. QED
      BY <2>1, <2>2, <3>1 DEF Sequence, Statuses
  <2>3. CASE i # c.item
    <3>1. items'[i] = items[i]
      BY <2>3, <1>7, <1>10
    <3>2. QED
      BY <2>1, <2>3, <3>1
  <2>4. QED
    BY <2>2, <2>3
<1>11. items' \in Seq(Sequence)
  <2>1. \A i \in 1 .. Len(items) : items'[i] \in Sequence
    BY <1>4, <1>5, <1>9, <1>10
  <2>2. items' = [i \in 1 .. Len(items) |-> items'[i]]
    BY <1>4, <1>7
  <2>3. items' \in [1 .. Len(items) -> Sequence]
    BY <2>1, <2>2
  <2>4. QED
    BY <2>3, <1>4, SeqDef
<1>12. Typed'
  <2>1. \A i \in DOMAIN items' : items'[i].pos # {} /\ items'[i].pos \subseteq Positions
    BY <1>1, <1>5, <1>9, <1>10 DEF Typed
  <2>2. frames' \in [Positions -> FrameStates]
    BY <1>1, <1>8 DEF Typed, FrameStates
  <2>3. QED
    BY <1>1, <1>2, <1>3, <1>11, <2>1, <2>2 DEF Typed
<1>13. Fresh'
  BY <1>1, <1>2, <1>5, <1>9, <1>10 DEF Fresh
<1>14. NamesDiffer'
  <2>1. \A i \in DOMAIN items' : items'[i].root = items[i].root /\ items'[i].cut = {}
        /\ items[i].cut = {}
    BY <1>1, <1>2, <1>5, <1>9, <1>10 DEF Fresh
  <2>2. \A i \in DOMAIN items' : items'[i].root # {}
    BY <1>1, <1>9, <2>1 DEF NamesDiffer
  <2>3. \A i, j \in DOMAIN items' : i # j => ~SameName(items'[i], items'[j])
    <3>1. \A i, j \in DOMAIN items : i # j => ~SameName(items[i], items[j])
      BY <1>1 DEF NamesDiffer
    <3>2. DOMAIN items' = DOMAIN items
      BY <1>1, <1>9
    <3>3. \A i \in DOMAIN items : items'[i].root = items[i].root /\ items'[i].cut = items[i].cut
      BY <2>1, <3>2
    <3>4. QED
      BY <3>1, <3>2, <3>3 DEF SameName
  <2>4. QED
    BY <2>1, <2>2, <2>3 DEF NamesDiffer, SameName
<1>15. Fitting'
  <2>1. \A i \in DOMAIN items' : Active(items'[i]) /\ Cardinality(items'[i].pos) > 1 /\ netEpisodes = 0
           => Preview(items'[i].pos) # "sequence"
    <3> SUFFICES ASSUME NEW i \in DOMAIN items', Active(items'[i]), Cardinality(items'[i].pos) > 1,
                        netEpisodes = 0
                 PROVE  Preview(items'[i].pos) # "sequence"
      OBVIOUS
    <3>1. CASE i = own
      BY <3>1, <1>6, <1>9
    <3>2. CASE i # own
      <4>1. Active(items[i]) /\ items'[i].pos = items[i].pos
        BY <3>2, <1>9, <1>10 DEF Active
      <4>2. QED
        BY <4>1, <1>1, <1>9 DEF Fitting
    <3>3. QED
      BY <3>1, <3>2
  <2>2. QED
    BY <2>1, <1>3 DEF Fitting
<1>16. \A i \in DOMAIN items' : items'[i].seams = {}
  BY <1>1, <1>2, <1>5, <1>9, <1>10 DEF Assembled
<1>17. Valid'
  <2>1. Claiming' = Claiming \ {c.item}
    BY <1>4, <1>5, <1>9, <1>10 DEF Claiming
  <2>2. own \in Claiming'
    BY <1>4, <1>5, <2>1 DEF Claiming
  <2>3. \A i \in Claiming' :
          /\ i \in DOMAIN items' /\ items'[i].pos # {}
          /\ \A p \in items'[i].pos : items'[i].lower <= p /\ p < items'[i].upper
    BY <1>1, <1>4, <1>5, <1>9, <1>10, <2>1 DEF Valid, Claiming
  <2>4. \A i \in Claiming' : i # own => items[i].pos \cap items[own].pos = {}
        /\ items[i].pos \cap c.pos = {}
    <3> SUFFICES ASSUME NEW i \in Claiming', i # own
                 PROVE  items[i].pos \cap items[own].pos = {} /\ items[i].pos \cap c.pos = {}
      OBVIOUS
    <3>1. i \in DOMAIN items /\ i # c.item /\ items[i].status # "stitched" /\ own \in Claiming
          /\ i \in Claiming
      BY <2>1, <2>2 DEF Claiming
    <3>2. items[i].pos \cap items[own].pos = {}
      BY <3>1, <1>1 DEF Valid
    <3>3. CASE c.kind = "episode"
      <4>1. c.item \in DOMAIN items /\ items[c.item].pos = c.pos /\ items[c.item].status # "stitched"
        BY <3>3 DEF JudgedWell, Active
      <4>2. c.item \in Claiming
        BY <4>1 DEF Claiming
      <4>3. items[i].pos \cap items[c.item].pos = {}
        BY <3>1, <4>2, <1>1 DEF Valid
      <4>4. QED
        BY <3>2, <4>1, <4>3
    <3>4. CASE c.kind = "rescue"
      <4>1. \A p \in c.pos : frames[p] = "below_min_len"
        BY <3>4 DEF JudgedWell
      <4>2. \A p \in items[i].pos : frames[p] = "absorbed"
        BY <3>1, <1>1, Claims
      <4>3. QED
        BY <3>2, <4>1, <4>2
    <3>5. QED
      BY <3>3, <3>4 DEF JudgedWell
  <2>5. \A i, j \in Claiming' : i # j => items'[i].pos \cap items'[j].pos = {}
    <3> SUFFICES ASSUME NEW i \in Claiming', NEW j \in Claiming', i # j
                 PROVE  items'[i].pos \cap items'[j].pos = {}
      OBVIOUS
    <3>1. i \in DOMAIN items /\ j \in DOMAIN items /\ i \in Claiming /\ j \in Claiming
      BY <2>1, <2>3, <1>9
    <3>2. CASE i = own
      BY <3>1, <3>2, <2>4, <1>5, <1>9, <1>10
    <3>3. CASE j = own
      BY <3>1, <3>3, <2>4, <1>5, <1>9, <1>10
    <3>4. CASE i # own /\ j # own
      <4>1. items'[i].pos = items[i].pos /\ items'[j].pos = items[j].pos
        BY <3>1, <3>4, <1>10
      <4>2. QED
        BY <3>1, <4>1, <1>1 DEF Valid
    <3>5. QED
      BY <3>2, <3>3, <3>4
  <2>6. {p \in Positions : frames'[p] = "absorbed"} = UNION {items'[i].pos : i \in Claiming'}
    <3>1. ASSUME NEW p \in Positions, frames'[p] = "absorbed"
          PROVE  \E i \in Claiming' : p \in items'[i].pos
      <4>1. CASE p \in c.pos
        BY <4>1, <2>2, <1>5, <1>9
      <4>2. CASE p \notin c.pos
        <5>1. frames[p] = "absorbed"
          BY <4>2, <1>8, <3>1
        <5>2. PICK i \in DOMAIN items : items[i].status # "stitched" /\ p \in items[i].pos
          BY <5>1, <1>1, Claims
        <5>3. i # c.item
          <6>1. c.kind = "episode" => items[c.item].pos = c.pos
            BY DEF JudgedWell
          <6>2. c.kind = "rescue" => c.item = 0
            BY DEF JudgedWell
          <6>3. QED
            BY <4>2, <5>2, <6>1, <6>2, <1>4 DEF JudgedWell
        <5>4. i \in Claiming'
          BY <5>2, <5>3, <2>1 DEF Claiming
        <5>5. p \in items'[i].pos
          BY <5>2, <1>5, <1>9, <1>10
        <5>6. QED
          BY <5>4, <5>5
      <4>3. QED
        BY <4>1, <4>2
    <3>2. ASSUME NEW i \in Claiming', NEW p \in items'[i].pos
          PROVE  p \in Positions /\ frames'[p] = "absorbed"
      <4>1. i \in DOMAIN items /\ i \in Claiming /\ i # c.item
        BY <2>1, <2>3, <1>9
      <4>2. p \in items[i].pos \/ (i = own /\ p \in c.pos)
        BY <4>1, <3>2, <1>5, <1>9, <1>10
      <4>3. p \in Positions
        BY <4>1, <3>2, <1>9, <1>12, <1>3 DEF Typed
      <4>4. CASE p \in items[i].pos
        <5>1. frames[p] = "absorbed"
          BY <4>1, <4>4, <1>1, Claims DEF Claiming
        <5>2. QED
          BY <4>3, <5>1, <1>8
      <4>5. CASE p \in c.pos
        <5>1. CASE c.kind = "rescue"
          BY <5>1, <4>3, <4>5, <1>8
        <5>2. CASE c.kind = "episode"
          <6>1. c.item \in DOMAIN items /\ items[c.item].pos = c.pos
                /\ items[c.item].status # "stitched"
            BY <5>2 DEF JudgedWell, Active
          <6>2. frames[p] = "absorbed"
            BY <4>5, <6>1, <1>1, Claims
          <6>3. QED
            BY <4>3, <6>2, <1>8
        <5>3. QED
          BY <5>1, <5>2 DEF JudgedWell
      <4>6. QED
        BY <4>2, <4>3, <4>4, <4>5
    <3>3. QED
      BY <3>1, <3>2
  <2>7. QED
    BY <2>3, <2>5, <2>6, <1>3 DEF Valid
<1>18. QED
  BY <1>2, <1>12, <1>13, <1>14, <1>15, <1>16, <1>17, ThreadingQuiet

-------------------------------------------------------------------------------
(* A merge, seen from the threads                                          *)

\* What a merge leaves of the sequences, of the threads and of the frames.
LEMMA MergeEffect ==
  ASSUME Typed, Valid, ThreadsTyped, NEW c, JudgedWell(c), NEW t, Takes(t, c), Merge(t, c)
  PROVE  /\ DOMAIN items' = DOMAIN items /\ DOMAIN threads' = DOMAIN threads
         /\ \A i \in DOMAIN items :
              /\ items'[i].sealed = items[i].sealed
              /\ items'[i].status = IF i = c.item THEN "stitched" ELSE items[i].status
              /\ items'[i].pos = IF i = threads[t].item THEN items[i].pos \union c.pos ELSE items[i].pos
         /\ \A u \in DOMAIN threads :
              /\ threads'[u].item = threads[u].item
              /\ threads'[u].last = IF u = t THEN clock ELSE threads[u].last
              /\ threads'[u].alive = (threads[u].alive /\ (u # c.thread))
         /\ \A p \in Positions : frames'[p] = IF c.kind = "rescue" /\ p \in c.pos THEN "absorbed"
                                              ELSE frames[p]
<1> DEFINE own == threads[t].item
           m == Merged(t, c)
           fr == threads[t].frags \union Fragments(c)
<1>1. /\ own \in DOMAIN items /\ own # c.item /\ t \in DOMAIN threads /\ t # c.thread
         /\ threads[t].alive
      /\ \A i \in DOMAIN items : items[i] \in Sequence
      /\ \A u \in DOMAIN threads : threads[u] \in Thread
  BY ThreadsIndexed, ItemsIndexed DEF Takes
<1>2. /\ m.pos = items[own].pos \union c.pos /\ m.status = items[own].status
         /\ m.sealed = items[own].sealed
  BY MergedSequence
<1>3. items' = [i \in DOMAIN items |->
          IF i = own THEN m ELSE IF i = c.item THEN [items[i] EXCEPT !.status = "stitched"]
                                 ELSE items[i]]
  BY DEF Merge
<1>4. threads' = [u \in DOMAIN threads |->
          IF u = t THEN [threads[t] EXCEPT !.last = clock, !.frags = fr]
          ELSE IF u = c.thread THEN [threads[u] EXCEPT !.alive = FALSE] ELSE threads[u]]
  BY DEF Merge
<1>5. frames' = [p \in Positions |-> IF c.kind = "rescue" /\ p \in c.pos THEN "absorbed" ELSE frames[p]]
  BY DEF Merge
<1> HIDE DEF own, m, fr
<1>6. ASSUME NEW i \in DOMAIN items
      PROVE  /\ items'[i].sealed = items[i].sealed
             /\ items'[i].status = IF i = c.item THEN "stitched" ELSE items[i].status
             /\ items'[i].pos = IF i = own THEN items[i].pos \union c.pos ELSE items[i].pos
  <2>1. CASE i = own
    <3>1. items'[i] = m
      BY <2>1, <1>3
    <3>2. QED
      BY <2>1, <3>1, <1>1, <1>2
  <2>2. CASE i # own /\ i = c.item
    <3>1. items'[i] = [items[i] EXCEPT !.status = "stitched"] /\ items[i] \in Sequence
      BY <2>2, <1>1, <1>3
    <3>2. QED
      BY <2>2, <3>1 DEF Sequence
  <2>3. CASE i # own /\ i # c.item
    <3>1. items'[i] = items[i]
      BY <2>3, <1>3
    <3>2. QED
      BY <2>3, <3>1
  <2>4. QED
    BY <2>1, <2>2, <2>3
<1>7. ASSUME NEW u \in DOMAIN threads
      PROVE  /\ threads'[u].item = threads[u].item
             /\ threads'[u].last = IF u = t THEN clock ELSE threads[u].last
             /\ threads'[u].alive = (threads[u].alive /\ (u # c.thread))
  <2>1. threads[u] \in Thread
    BY <1>1
  <2>2. CASE u = t
    <3>1. threads'[u] = [threads[u] EXCEPT !.last = clock, !.frags = fr]
      BY <2>2, <1>4
    <3>2. threads'[u].item = threads[u].item /\ threads'[u].last = clock
          /\ threads'[u].alive = threads[u].alive
      BY <2>1, <3>1 DEF Thread
    <3>3. QED
      BY <2>2, <3>2, <1>1
  <2>3. CASE u # t /\ u = c.thread
    <3>1. threads'[u] = [threads[u] EXCEPT !.alive = FALSE]
      BY <2>3, <1>4
    <3>2. threads'[u].item = threads[u].item /\ threads'[u].last = threads[u].last
          /\ threads'[u].alive = FALSE
      BY <2>1, <3>1 DEF Thread
    <3>3. QED
      BY <2>3, <3>2
  <2>4. CASE u # t /\ u # c.thread
    <3>1. threads'[u] = threads[u]
      BY <2>4, <1>4
    <3>2. threads[u].alive \in BOOLEAN
      BY <2>1 DEF Thread
    <3>3. QED
      BY <2>4, <3>1, <3>2
  <2>5. QED
    BY <2>2, <2>3, <2>4
<1>8. DOMAIN items' = DOMAIN items /\ DOMAIN threads' = DOMAIN threads
  BY <1>3, <1>4
<1>9. QED
  BY <1>5, <1>6, <1>7, <1>8 DEF own

\* The fragments of a thread after a merge are fragments.
LEMMA MergeThreadsTyped ==
  ASSUME Typed, Valid, ThreadsTyped, NEW c, JudgedWell(c), phase \in {"stitch", "repass"}, NEW t,
         Takes(t, c), Merge(t, c)
  PROVE  threads' \in Seq(Thread)
<1> DEFINE F == Fragments(c)
           g == threads[t].frags \union F
           n == Len(threads)
<1>1. /\ n \in Nat /\ DOMAIN threads = 1 .. n /\ t \in DOMAIN threads /\ clock \in Nat
      /\ \A u \in DOMAIN threads : threads[u] \in Thread
  BY ThreadsIndexed DEF Takes, ThreadsTyped
<1>2. F \in SUBSET Fragment
  <2>1. c.pos \in SUBSET Nat
    BY MembersFinite DEF JudgedWell, Typed
  <2>2. CASE c.thread = 0
    <3> DEFINE cause == IF c.kind = "rescue" THEN "rescued" ELSE "resumed"
               f == [pos |-> c.pos, cause |-> cause]
    <3>1. F = {f}
      BY <2>2 DEF Fragments
    <3>2. cause \in {"origin", "resumed", "rescued"}
      OBVIOUS
    <3> HIDE DEF cause
    <3>3. f \in Fragment
      BY <2>1, <3>2, Zenon DEF Fragment
    <3> HIDE DEF f, F
    <3>4. QED
      BY <3>1, <3>3
  <2>3. CASE c.thread # 0
    <3>1. c.thread \in DOMAIN threads
      BY <2>3 DEF JudgedWell
    <3>2. threads[c.thread].frags \in SUBSET Fragment
      BY <3>1, <1>1 DEF Thread
    <3>3. F = {[f EXCEPT !.cause = IF @ = "origin" THEN "resumed" ELSE @] : f \in threads[c.thread].frags}
      BY <2>3 DEF Fragments
    <3>4. \A f \in Fragment : [f EXCEPT !.cause = IF @ = "origin" THEN "resumed" ELSE @] \in Fragment
      BY DEF Fragment
    <3> HIDE DEF F
    <3>5. QED
      BY <3>2, <3>3, <3>4
  <2>4. QED
    BY <2>2, <2>3
<1> HIDE DEF F
<1>3. g \in SUBSET Fragment
  <2>1. threads[t].frags \in SUBSET Fragment
    BY <1>1 DEF Thread
  <2>2. QED
    BY <2>1, <1>2
<1>4. threads' = [u \in 1 .. n |->
          IF u = t THEN [threads[t] EXCEPT !.last = clock, !.frags = g]
          ELSE IF u = c.thread THEN [threads[u] EXCEPT !.alive = FALSE] ELSE threads[u]]
  BY <1>1 DEF Merge, F
<1> HIDE DEF g, n
<1>5. [threads[t] EXCEPT !.last = clock, !.frags = g] \in Thread
  <2>1. threads[t] \in Thread
    BY <1>1
  <2>2. QED
    BY <2>1, <1>1, <1>3 DEF Thread
<1>6. \A u \in 1 .. n : [threads[u] EXCEPT !.alive = FALSE] \in Thread
  BY <1>1 DEF Thread
<1>7. \A u \in 1 .. n : threads[u] \in Thread
  BY <1>1
<1>8. threads' \in [1 .. n -> Thread]
  BY <1>4, <1>5, <1>6, <1>7
<1>9. QED
  BY <1>1, <1>8, SeqDef

\* The threads after a merge.
LEMMA MergeThreads ==
  ASSUME Typed, Valid, ThreadsTyped, Owners, CutsSealed, QueueTyped, NEW c, JudgedWell(c),
         phase \in {"stitch", "repass"}, phase' = phase, cfg' = cfg, queue # <<>>, queue' = Tail(queue),
         NEW t, Takes(t, c), Merge(t, c),
         UNCHANGED <<pool, cuts>>, clock' = clock + 1
  PROVE  ThreadsTyped' /\ QueueTyped' /\ Owners' /\ CutsSealed'
<1> DEFINE own == threads[t].item
<1>1. /\ DOMAIN items' = DOMAIN items /\ DOMAIN threads' = DOMAIN threads
      /\ \A i \in DOMAIN items :
           /\ items'[i].sealed = items[i].sealed
           /\ items'[i].status = IF i = c.item THEN "stitched" ELSE items[i].status
           /\ items'[i].pos = IF i = own THEN items[i].pos \union c.pos ELSE items[i].pos
      /\ \A u \in DOMAIN threads :
           /\ threads'[u].item = threads[u].item
           /\ threads'[u].last = IF u = t THEN clock ELSE threads[u].last
           /\ threads'[u].alive = (threads[u].alive /\ (u # c.thread))
      /\ \A p \in Positions : frames'[p] = IF c.kind = "rescue" /\ p \in c.pos THEN "absorbed"
                                           ELSE frames[p]
  BY MergeEffect
<1>2. /\ t \in DOMAIN threads /\ threads[t].alive /\ t # c.thread /\ own # c.item /\ clock \in Nat
      /\ \A u \in DOMAIN threads : threads[u].last \in Nat /\ threads[u].item \in DOMAIN items
  BY ThreadsIndexed DEF Takes, ThreadsTyped
<1> HIDE DEF own
<1>3. \A u \in DOMAIN threads : (SealedThread(u))' <=> SealedThread(u)
  <2> SUFFICES ASSUME NEW u \in DOMAIN threads PROVE (SealedThread(u))' <=> SealedThread(u)
    OBVIOUS
  <2>1. threads'[u].item = threads[u].item /\ threads[u].item \in DOMAIN items
    BY <1>1, <1>2
  <2>2. items'[threads[u].item].sealed = items[threads[u].item].sealed
    BY <2>1, <1>1
  <2>3. QED
    BY <2>1, <2>2 DEF SealedThread
<1>4. ASSUME NEW u \in DOMAIN threads, threads[u].alive, u # c.thread PROVE threads[u].item # c.item
  <2>1. CASE phase = "stitch"
    BY <2>1 DEF JudgedWell
  <2>2. CASE phase = "repass"
    <3>1. c.thread \in DOMAIN threads /\ c.item = threads[c.thread].item
      BY <2>2 DEF JudgedWell
    <3>2. QED
      BY <3>1, <1>4 DEF ThreadsTyped
  <2>3. QED
    BY <2>1, <2>2
<1>5. ThreadsTyped'
  <2>1. \A u \in DOMAIN threads' :
          /\ threads'[u].item \in DOMAIN items'
          /\ threads'[u].last <= clock'
          /\ ~(SealedThread(u))' => threads'[u].last < clock'
    BY <1>1, <1>2, <1>3 DEF ThreadsTyped
  <2>2. \A u \in DOMAIN threads' : threads'[u].alive => Active(items'[threads'[u].item])
    <3> SUFFICES ASSUME NEW u \in DOMAIN threads, threads[u].alive, u # c.thread
                 PROVE  Active(items'[threads[u].item])
      BY <1>1
    <3>1. Active(items[threads[u].item]) /\ threads[u].item \in DOMAIN items
      BY <1>2 DEF ThreadsTyped
    <3>2. QED
      BY <3>1, <1>1, <1>4 DEF Active
  <2>3. phase' = "stitch" => \A u \in DOMAIN threads' : threads'[u].alive
    <3> SUFFICES ASSUME phase = "stitch", NEW u \in DOMAIN threads PROVE threads'[u].alive
      BY <1>1
    <3>1. c.thread = 0 /\ u # 0 /\ threads[u].alive
      BY ThreadsIndexed DEF JudgedWell, ThreadsTyped
    <3>2. QED
      BY <3>1, <1>1
  <2>4. \A u, w \in DOMAIN threads' : u # w => threads'[u].item # threads'[w].item
    BY <1>1 DEF ThreadsTyped
  <2>5. \A u, w \in DOMAIN threads' : u # w /\ ~(SealedThread(u))' /\ ~(SealedThread(w))'
          => threads'[u].last # threads'[w].last
    <3> SUFFICES ASSUME NEW u \in DOMAIN threads, NEW w \in DOMAIN threads, u # w, ~SealedThread(u),
                        ~SealedThread(w)
                 PROVE  threads'[u].last # threads'[w].last
      BY <1>1, <1>3
    <3>1. threads[u].last < clock /\ threads[w].last < clock /\ threads[u].last # threads[w].last
      BY DEF ThreadsTyped
    <3>2. QED
      BY <3>1, <1>1, <1>2
  <2>6. threads' \in Seq(Thread)
    BY MergeThreadsTyped
  <2>7. pool' \subseteq DOMAIN threads' /\ clock' \in Nat
    BY <1>1, <1>2 DEF ThreadsTyped
  <2>8. QED
    BY <2>1, <2>2, <2>3, <2>4, <2>5, <2>6, <2>7 DEF ThreadsTyped
<1>6. QueueTyped'
  <2>1. CASE phase = "stitch"
    <3>1. c = Head(queue)
      BY <2>1 DEF JudgedWell
    <3>2. ASSUME NEW d \in Candidate, Waiting(d), d.pos \cap c.pos = {} PROVE (Waiting(d))'
      <4>1. d.pos # {} /\ d.pos \subseteq Positions
        BY <3>2 DEF Waiting
      <4>2. ASSUME d.kind = "episode"
            PROVE  /\ items'[d.item].status = items[d.item].status
                      /\ items'[d.item].pos = items[d.item].pos
                   /\ \A u \in DOMAIN threads' : threads'[u].item # d.item
        <5>1. d.item \in DOMAIN items /\ items[d.item].pos = d.pos
              /\ \A u \in DOMAIN threads : threads[u].item # d.item
          BY <3>2, <4>2 DEF Waiting
        <5>2. d.item # own
          BY <5>1, <1>2 DEF own
        <5>3. d.item # c.item
          <6>1. CASE c.kind = "episode"
            <7>1. items[c.item].pos = c.pos
              BY <6>1 DEF JudgedWell
            <7>2. QED
              BY <7>1, <5>1, <4>1, <3>2
          <6>2. CASE c.kind = "rescue"
            <7>1. c.item = 0
              BY <6>2 DEF JudgedWell
            <7>2. QED
              BY <7>1, <5>1, Typedness
          <6>3. QED
            BY <6>1, <6>2 DEF JudgedWell
        <5>4. QED
          BY <5>1, <5>2, <5>3, <1>1
      <4>3. d.kind = "rescue" => \A p \in d.pos : frames'[p] = frames[p]
        <5> SUFFICES ASSUME NEW p \in d.pos PROVE frames'[p] = frames[p]
          OBVIOUS
        <5>1. p \in Positions /\ p \notin c.pos
          BY <4>1, <3>2
        <5>2. QED
          BY <5>1, <1>1
      <4>4. QED
        BY <1>1, <3>2, <4>2, <4>3, WaitingStays
    <3>3. QED
      BY <2>1, <3>1, <3>2, QueueMoves
  <2>2. CASE phase = "repass"
    <3>1. queue \in Seq(DOMAIN threads)
      BY <2>2 DEF QueueTyped
    <3>2. queue' \in Seq(DOMAIN threads)
      BY <3>1, HeadTailProperties
    <3>3. QED
      BY <2>2, <3>2, <1>1 DEF QueueTyped
  <2>3. QED
    BY <2>1, <2>2
<1>7. Owners'
  <2> SUFFICES ASSUME NEW i \in DOMAIN items, Active(items'[i])
               PROVE  \/ \E u \in DOMAIN threads' : threads'[u].alive /\ threads'[u].item = i
                      \/ phase = "stitch" /\ \E k \in DOMAIN queue' : queue'[k].item = i
    BY <1>1 DEF Owners, Active
  <2>1. i # c.item /\ Active(items[i])
    BY <1>1 DEF Active
  <2>2. CASE \E u \in DOMAIN threads : threads[u].alive /\ threads[u].item = i
    <3>1. PICK u \in DOMAIN threads : threads[u].alive /\ threads[u].item = i
      BY <2>2
    <3>2. u # c.thread
      <4>1. CASE phase = "stitch"
        BY <4>1, ThreadsIndexed DEF JudgedWell
      <4>2. CASE phase = "repass"
        BY <4>2, <2>1, <3>1 DEF JudgedWell
      <4>3. QED
        BY <4>1, <4>2
    <3>3. QED
      BY <3>1, <3>2, <1>1
  <2>3. CASE phase = "stitch" /\ \E k \in DOMAIN queue : queue[k].item = i
    <3>1. PICK k \in DOMAIN queue : queue[k].item = i
      BY <2>3
    <3>2. c = Head(queue) /\ Head(queue) = queue[1]
      BY <2>3, HeadOfQueue DEF JudgedWell
    <3>3. k # 1
      BY <3>1, <3>2, <2>1
    <3>4. \E l \in DOMAIN Tail(queue) : Tail(queue)[l] = queue[k]
      BY <2>3, <3>1, <3>3, HeadOfQueue
    <3>5. QED
      BY <2>3, <3>1, <3>4
  <2>4. QED
    BY <2>1, <2>2, <2>3 DEF Owners
<1>8. CutsSealed'
  <2>1. Positions' = Positions
    BY DEF Positions, Frames
  <2>2. \A k \in cuts : k[1] \in Positions /\ frames'[k[1]] = "absorbed" /\ frames[k[1]] = "absorbed"
    BY <1>1 DEF CutsSealed
  <2>3. ASSUME NEW k \in cuts, NEW i \in DOMAIN items, k[1] \in items'[i].pos
        PROVE  items'[i].sealed \/ items'[i].status = "stitched"
    <3>1. CASE k[1] \in items[i].pos
      <4>1. items[i].sealed \/ items[i].status = "stitched"
        BY <3>1, <2>3 DEF CutsSealed
      <4>2. items'[i].sealed = items[i].sealed
            /\ (items'[i].status = "stitched" \/ items'[i].status = items[i].status)
        BY <2>3, <1>1
      <4>3. QED
        BY <4>1, <4>2
    <3>2. CASE k[1] \notin items[i].pos
      <4>1. k[1] \in c.pos
        BY <2>3, <3>2, <1>1
      <4>2. CASE c.kind = "rescue"
        BY <4>1, <4>2, <2>2 DEF JudgedWell
      <4>3. CASE c.kind = "episode"
        <5>1. /\ c.item \in DOMAIN items /\ Active(items[c.item]) /\ items[c.item].pos = c.pos
                 /\ ~items[c.item].sealed
          BY <4>3 DEF JudgedWell
        <5>2. QED
          BY <4>1, <5>1 DEF CutsSealed, Active
      <4>4. QED
        BY <4>2, <4>3 DEF JudgedWell
    <3>3. QED
      BY <3>1, <3>2
  <2>4. QED
    BY <1>1, <2>1, <2>2, <2>3 DEF CutsSealed
<1>9. QED
  BY <1>5, <1>6, <1>7, <1>8

-------------------------------------------------------------------------------
(* A pair that is too large is cut                                         *)

\* Who is cut from whom when a merge would be too large.
LEMMA SealSides ==
  ASSUME Typed, Valid, ThreadsTyped, NEW c, JudgedWell(c), phase \in {"stitch", "repass"}, NEW t,
         Takes(t, c)
  PROVE  LET older == Older(t, c)
             newer == IF Swapped(t, c) THEN Again(t) ELSE c
         IN /\ older \in DOMAIN threads /\ threads[older].alive
            /\ newer.pos # {} /\ newer.pos \in SUBSET Positions /\ newer.item # threads[older].item
            /\ newer.item \in DOMAIN items => items[newer.item].pos = newer.pos
<1> DEFINE older == Older(t, c)
           newer == IF Swapped(t, c) THEN Again(t) ELSE c
<1>1. /\ t \in DOMAIN threads /\ threads[t].alive /\ threads[t].item # c.item
      /\ Pos(t) # {} /\ Pos(t) \in SUBSET Positions
  BY ThreadsIndexed DEF Takes
<1>2. CASE Swapped(t, c)
  <2>1. older = c.thread /\ newer = Again(t)
    BY <1>2 DEF Older
  <2>2. newer.pos = Pos(t) /\ newer.item = threads[t].item
    BY <2>1 DEF Again
  <2>3. phase = "repass"
    BY <1>2 DEF Swapped, JudgedWell
  <2>4. older \in DOMAIN threads /\ threads[older].alive /\ threads[older].item = c.item
    BY <2>1, <2>3 DEF JudgedWell
  <2> HIDE DEF older, newer
  <2>5. QED
    BY <1>1, <2>2, <2>4 DEF Pos, older, newer
<1>3. CASE ~Swapped(t, c)
  <2>1. older = t /\ newer = c
    BY <1>3 DEF Older
  <2>2. c.item \in DOMAIN items => items[c.item].pos = c.pos
    <3>1. 0 \notin DOMAIN items
      BY Typedness
    <3>2. QED
      BY <3>1 DEF JudgedWell
  <2>3. c.pos # {} /\ c.pos \in SUBSET Positions
    BY DEF JudgedWell
  <2> HIDE DEF older, newer
  <2>4. QED
    BY <1>1, <2>1, <2>2, <2>3 DEF older, newer
<1>4. QED
  BY <1>2, <1>3

\* A seal tightens bounds that the members keep; the cut it makes is behind a sealed sequence.
LEMMA SealKeeps ==
  ASSUME Typed, Valid, ThreadsTyped, CutsSealed, NEW c, JudgedWell(c), phase \in {"stitch", "repass"},
         NEW t, Takes(t, c), Seal(t, c), UNCHANGED <<cfg, frames>>
  PROVE  Reshaped /\ CutsSealed'
<1> DEFINE older == Older(t, c)
           newer == IF Swapped(t, c) THEN Again(t) ELSE c
           right == Min(newer.pos)
           apart == TailPos(older) < right
           a == threads[older].item
           b == newer.item
           tail == TailPos(older)
<1>1. /\ older \in DOMAIN threads /\ threads[older].alive
      /\ newer.pos # {} /\ newer.pos \in SUBSET Positions /\ b # a
      /\ b \in DOMAIN items => items[b].pos = newer.pos
  BY SealSides
<1>2. /\ items' = [i \in DOMAIN items |->
          IF i = a THEN [items[i] EXCEPT !.sealed = TRUE, !.upper = IF apart THEN Min({@, right})
                                                                    ELSE @]
          ELSE IF i = b /\ apart THEN [items[i] EXCEPT !.lower = Max({@, right})]
          ELSE items[i]]
      /\ cuts' = cuts \union (IF apart THEN {<<tail, right>>} ELSE {})
  BY DEF Seal
<1> HIDE DEF older, newer
<1>3. right \in Nat /\ \A p \in newer.pos : right <= p
  BY <1>1, Typedness, PosExtremes
<1>4. /\ a \in DOMAIN items /\ items[a].pos = Pos(older) /\ tail \in Pos(older) /\ tail \in Nat
      /\ \A p \in Pos(older) : p <= tail /\ p \in Nat
  BY <1>1, ThreadsIndexed DEF Pos
<1>5. Active(items[a])
  BY <1>1 DEF ThreadsTyped
<1> HIDE DEF right, a, b, tail
<1> DEFINE ap == tail < right
<1>6. /\ items' = [i \in DOMAIN items |->
          IF i = a THEN [items[i] EXCEPT !.sealed = TRUE, !.upper = IF ap THEN Min({@, right}) ELSE @]
          ELSE IF i = b /\ ap THEN [items[i] EXCEPT !.lower = Max({@, right})]
          ELSE items[i]]
      /\ cuts' = cuts \union (IF ap THEN {<<tail, right>>} ELSE {})
  BY <1>2 DEF tail
<1>7. ap \in BOOLEAN
  OBVIOUS
<1>8. ap => tail < right
  OBVIOUS
<1> HIDE DEF ap
<1>9. \A i \in DOMAIN items :
         /\ items[i] \in Sequence /\ items[i].lower \in Nat /\ items[i].upper \in Nat
         /\ items[i].pos \in SUBSET Positions /\ \A p \in items[i].pos : p \in Nat
         /\ items[i].status # "stitched" =>
              \A p \in items[i].pos : items[i].lower <= p /\ p < items[i].upper
         /\ Max({items[i].lower, right}) = (IF items[i].lower >= right THEN items[i].lower ELSE right)
         /\ Min({items[i].upper, right}) = (IF items[i].upper <= right THEN items[i].upper ELSE right)
  <2> SUFFICES ASSUME NEW i \in DOMAIN items
               PROVE  /\ items[i] \in Sequence /\ items[i].lower \in Nat /\ items[i].upper \in Nat
                      /\ items[i].pos \in SUBSET Positions /\ \A p \in items[i].pos : p \in Nat
                      /\ items[i].status # "stitched"
                         => \A p \in items[i].pos : items[i].lower <= p /\ p < items[i].upper
                      /\ Max({items[i].lower, right}) = (IF items[i].lower >= right THEN items[i].lower
                                                         ELSE right)
                      /\ Min({items[i].upper, right}) = (IF items[i].upper <= right THEN items[i].upper
                                                         ELSE right)
    OBVIOUS
  <2> DEFINE x == items[i].lower
             y == items[i].upper
  <2>1. /\ items[i] \in Sequence /\ x \in Nat /\ y \in Nat /\ items[i].pos \in SUBSET Positions
    BY Typedness
  <2>2. \A p \in items[i].pos : p \in Nat
    BY <2>1, MembersFinite, Typedness
  <2>3. items[i].status # "stitched" => \A p \in items[i].pos : x <= p /\ p < y
    BY Claims
  <2>4. x \in Int /\ y \in Int /\ right \in Int
    BY <2>1, <1>3
  <2> HIDE DEF x, y
  <2>5. Max({x, right}) = IF x >= right THEN x ELSE right
    BY <2>4, OfTwo
  <2>6. Min({y, right}) = IF y <= right THEN y ELSE right
    BY <2>4, OfTwo
  <2>7. QED
    BY <2>1, <2>2, <2>3, <2>5, <2>6 DEF x, y
<1>10. ASSUME NEW i \in DOMAIN items
       PROVE  /\ items'[i] \in Sequence /\ Alike(items'[i], items[i])
              /\ items[i].status # "stitched"
                 => \A p \in items[i].pos : items'[i].lower <= p /\ p < items'[i].upper
              /\ i = a => items'[i].sealed
  <2> DEFINE e == items[i]
             x == Max({e.lower, right})
             y == Min({e.upper, right})
  <2>1. /\ e \in Sequence /\ e.lower \in Nat /\ e.upper \in Nat /\ (\A p \in e.pos : p \in Nat)
        /\ e.status # "stitched" => \A p \in e.pos : e.lower <= p /\ p < e.upper
        /\ x = (IF e.lower >= right THEN e.lower ELSE right)
        /\ y = (IF e.upper <= right THEN e.upper ELSE right)
    BY <1>9
  <2>2. x \in Nat /\ y \in Nat
    BY <2>1, <1>3
  <2>3. CASE i = a
    <3> DEFINE u == IF ap THEN y ELSE e.upper
    <3>1. items'[i] = [e EXCEPT !.sealed = TRUE, !.upper = u]
      BY <2>3, <1>6
    <3>2. u \in Nat
      BY <2>1, <2>2
    <3>3. \A p \in e.pos : e.status # "stitched" => p < u
      <4>1. \A p \in e.pos : p <= tail
        BY <2>3, <1>4
      <4>2. QED
        BY <4>1, <2>1, <1>3, <1>4, <1>8
    <3> HIDE DEF e, u, x, y
    <3>4. /\ items'[i] \in Sequence /\ items'[i].sealed = TRUE /\ items'[i].upper = u
             /\ items'[i].lower = e.lower
          /\ items'[i].root = e.root /\ items'[i].cut = e.cut /\ items'[i].pos = e.pos
          /\ items'[i].status = e.status /\ items'[i].seams = e.seams
      BY <2>1, <3>1, <3>2 DEF Sequence
    <3>5. QED
      BY <2>1, <3>3, <3>4 DEF Alike, e
  <2>4. CASE i # a /\ i = b /\ ap
    <3>1. items'[i] = [e EXCEPT !.lower = x]
      BY <2>4, <1>6
    <3>2. \A p \in e.pos : e.status # "stitched" => x <= p
      <4>1. \A p \in e.pos : right <= p
        BY <2>4, <1>1, <1>3 DEF b
      <4>2. QED
        BY <4>1, <2>1, <1>3
    <3> HIDE DEF e, x, y
    <3>3. /\ items'[i] \in Sequence /\ items'[i].sealed = e.sealed /\ items'[i].upper = e.upper
             /\ items'[i].lower = x
          /\ items'[i].root = e.root /\ items'[i].cut = e.cut /\ items'[i].pos = e.pos
          /\ items'[i].status = e.status /\ items'[i].seams = e.seams
      BY <2>1, <2>2, <3>1 DEF Sequence
    <3>4. QED
      BY <2>1, <2>4, <3>2, <3>3 DEF Alike, e
  <2>5. CASE i # a /\ ~(i = b /\ ap)
    <3>1. items'[i] = e
      BY <2>5, <1>6
    <3> HIDE DEF e, x, y
    <3>2. QED
      BY <2>1, <2>5, <3>1 DEF Alike, e
  <2>6. QED
    BY <2>3, <2>4, <2>5
<1>11. DOMAIN items' = DOMAIN items
  BY <1>6
<1>12. items' \in Seq(Sequence)
  <2>1. DOMAIN items = 1 .. Len(items) /\ Len(items) \in Nat
    BY ItemsIndexed
  <2>2. items' = [i \in 1 .. Len(items) |-> items'[i]]
    BY <2>1, <1>6
  <2>3. items' \in [1 .. Len(items) -> Sequence]
    BY <2>1, <2>2, <1>10
  <2>4. QED
    BY <2>1, <2>3, SeqDef
<1>13. Reshaped
  BY <1>10, <1>11, <1>12 DEF Reshaped
<1>14. CutsSealed'
  <2>1. Positions' = Positions
    BY DEF Positions, Frames
  <2>2. \A k \in cuts' : k \in cuts \/ k = <<tail, right>>
    BY <1>6
  <2>3. tail \in Positions /\ frames[tail] = "absorbed"
    BY <1>4, <1>5, <1>9, Claims DEF Active
  <2>4. \A k \in cuts' : k[1] \in Positions /\ frames'[k[1]] = "absorbed"
    BY <2>2, <2>3 DEF CutsSealed
  <2>5. ASSUME NEW k \in cuts', NEW i \in DOMAIN items, k[1] \in items'[i].pos
        PROVE  items'[i].sealed \/ items'[i].status = "stitched"
    <3>1. k[1] \in items[i].pos /\ items'[i].status = items[i].status
          /\ (items[i].sealed => items'[i].sealed)
      BY <2>5, <1>10 DEF Alike
    <3>2. CASE k \in cuts
      BY <3>1, <3>2 DEF CutsSealed
    <3>3. CASE k = <<tail, right>>
      <4>1. tail \in items[i].pos /\ tail \in items[a].pos
        BY <3>1, <3>3, <1>4
      <4>2. i = a \/ items[i].status = "stitched"
        BY <4>1, <1>4, <1>5, Claims DEF Active
      <4>3. QED
        BY <4>2, <3>1, <1>10
    <3>4. QED
      BY <2>2, <3>2, <3>3
  <2>6. QED
    BY <1>11, <2>1, <2>4, <2>5 DEF CutsSealed
<1>15. QED
  BY <1>13, <1>14

-------------------------------------------------------------------------------
(* A judgment that opens a thread, merges or cuts                          *)

\* What a step of threading is given.
LEMMA ThreadingGiven ==
  ASSUME SessionInv, phase \in Threading
  PROVE  /\ Typed /\ NamesDiffer /\ Fresh /\ Valid /\ Fitting /\ Assembled /\ ThreadsTyped /\ QueueTyped
            /\ Owners
         /\ CutsSealed /\ cfg \in Configs /\ phase \notin Reading /\ phase \in Upstreaming
         /\ \A i \in DOMAIN items : items[i].seams = {}
BY DEF SessionInv, ThreadInv, Typed, Threading, Reading, Upstreaming, Assembled

\* An episode opens a thread of its own and the next candidate is up.
LEMMA AloneKeeps ==
  ASSUME SessionInv, phase = "stitch", phase' = "stitch", UNCHANGED <<cfg, frames, netEpisodes>>,
         queue # <<>>, queue' = Tail(queue), NEW c, c = Head(queue), c.kind = "episode",
         Reshaped, CutsSealed', NEW open \in SUBSET pool, OpenThread(c, open),
         clock' \in {clock, clock + 1}, items'[c.item].sealed \/ clock' = clock + 1
  PROVE  Upper' /\ phase' \in Threading
<1>1. /\ Typed /\ ThreadsTyped /\ QueueTyped /\ Owners /\ phase \in Threading /\ phase' \in Threading
  BY ThreadingGiven DEF Threading
<1>2. /\ Typed' /\ NamesDiffer' /\ Fresh' /\ Valid' /\ WindowsCover' /\ Fitting' /\ Assembled'
         /\ SeamsMarkInterruptions'
  BY <1>1, ReshapedKeeps
<1>3. c \in Candidate /\ Waiting(c)
  BY <1>1, HeadOfQueue
<1>4. /\ ThreadsTyped'
      /\ DOMAIN threads \subseteq DOMAIN threads'
         /\ (\A t \in DOMAIN threads : threads'[t] = threads[t])
      /\ \E t \in DOMAIN threads' : threads'[t].alive /\ threads'[t].item = c.item
      /\ \A t \in DOMAIN threads' : t \in DOMAIN threads \/ threads'[t].item = c.item
  BY <1>1, <1>3, OpenThreadKeeps
<1>5. DOMAIN items' = DOMAIN items /\ \A i \in DOMAIN items : items'[i].status = items[i].status
      /\ items'[i].pos = items[i].pos
  BY DEF Reshaped, Alike
<1>6. QueueTyped'
  <2>1. ASSUME NEW d \in Candidate, Waiting(d), d.pos \cap c.pos = {} PROVE (Waiting(d))'
    <3>1. ASSUME d.kind = "episode"
          PROVE  /\ items'[d.item].status = items[d.item].status
                    /\ items'[d.item].pos = items[d.item].pos
                 /\ \A u \in DOMAIN threads' : threads'[u].item # d.item
      <4>1. /\ d.item \in DOMAIN items /\ items[d.item].pos = d.pos /\ d.pos # {}
            /\ \A u \in DOMAIN threads : threads[u].item # d.item
        BY <2>1, <3>1 DEF Waiting
      <4>2. d.item # c.item
        BY <4>1, <2>1, <1>3 DEF Waiting
      <4>3. QED
        BY <4>1, <4>2, <1>4, <1>5
    <3>2. QED
      BY <2>1, <3>1, <1>5, WaitingStays
  <2>2. QED
    BY <1>1, <2>1, QueueMoves
<1>7. Owners'
  <2> SUFFICES ASSUME NEW i \in DOMAIN items, Active(items[i])
               PROVE  \/ \E u \in DOMAIN threads' : threads'[u].alive /\ threads'[u].item = i
                      \/ \E k \in DOMAIN queue' : queue'[k].item = i
    BY <1>5 DEF Owners, Active
  <2>1. CASE \E u \in DOMAIN threads : threads[u].alive /\ threads[u].item = i
    BY <2>1, <1>4
  <2>2. CASE \E k \in DOMAIN queue : queue[k].item = i
    <3>1. PICK k \in DOMAIN queue : queue[k].item = i
      BY <2>2
    <3>2. k = 1 \/ \E l \in DOMAIN Tail(queue) : Tail(queue)[l] = queue[k]
      BY <1>1, HeadOfQueue
    <3>3. k = 1 => i = c.item
      BY <1>1, <3>1, HeadOfQueue
    <3>4. QED
      BY <3>1, <3>2, <3>3, <1>4
  <2>3. QED
    BY <1>1, <2>1, <2>2 DEF Owners
<1>8. QED
  BY <1>1, <1>2, <1>4, <1>6, <1>7 DEF Upper, ThreadInv

\* A candidate that is no episode, or is looked at a second time, leaves the threads alone.
LEMMA AwayKeeps ==
  ASSUME SessionInv, phase \in {"stitch", "repass"}, phase' = phase,
         UNCHANGED <<cfg, frames, netEpisodes>>,
         queue # <<>>, queue' = Tail(queue), phase = "stitch" => Head(queue).kind = "rescue",
         Reshaped, CutsSealed', threads' = threads, pool' \subseteq pool, clock' \in {clock, clock + 1}
  PROVE  Upper' /\ phase' \in Threading
<1>1. /\ Typed /\ ThreadsTyped /\ QueueTyped /\ Owners /\ phase \in Threading /\ phase' \in Threading
  BY ThreadingGiven DEF Threading
<1>2. /\ Typed' /\ NamesDiffer' /\ Fresh' /\ Valid' /\ WindowsCover' /\ Fitting' /\ Assembled'
         /\ SeamsMarkInterruptions'
  BY <1>1, ReshapedKeeps
<1>3. ThreadsTyped'
  BY <1>1, ThreadsStay
<1>4. DOMAIN items' = DOMAIN items /\ \A i \in DOMAIN items : items'[i].status = items[i].status
      /\ items'[i].pos = items[i].pos
  BY DEF Reshaped, Alike
<1>5. QueueTyped'
  <2>1. CASE phase = "stitch"
    <3>1. ASSUME NEW d \in Candidate, Waiting(d) PROVE (Waiting(d))'
      <4>1. ASSUME d.kind = "episode"
            PROVE  /\ items'[d.item].status = items[d.item].status
                      /\ items'[d.item].pos = items[d.item].pos
                   /\ \A u \in DOMAIN threads' : threads'[u].item # d.item
        BY <3>1, <4>1, <1>4 DEF Waiting
      <4>2. QED
        BY <3>1, <4>1, <1>4, WaitingStays
    <3>2. QED
      BY <1>1, <2>1, <3>1, QueueMoves
  <2>2. CASE phase = "repass"
    <3>1. queue \in Seq(DOMAIN threads)
      BY <1>1, <2>2 DEF QueueTyped
    <3>2. queue' \in Seq(DOMAIN threads)
      BY <3>1, HeadTailProperties
    <3>3. QED
      BY <2>2, <3>2 DEF QueueTyped
  <2>3. QED
    BY <2>1, <2>2
<1>6. Owners'
  <2> SUFFICES ASSUME NEW i \in DOMAIN items, Active(items[i])
               PROVE  \/ \E u \in DOMAIN threads : threads[u].alive /\ threads[u].item = i
                      \/ phase = "stitch" /\ \E k \in DOMAIN queue' : queue'[k].item = i
    BY <1>4 DEF Owners, Active
  <2>1. CASE phase = "stitch" /\ \E k \in DOMAIN queue : queue[k].item = i
    <3>1. PICK k \in DOMAIN queue : queue[k].item = i
      BY <2>1
    <3>2. k = 1 \/ \E l \in DOMAIN Tail(queue) : Tail(queue)[l] = queue[k]
      BY <1>1, <2>1, HeadOfQueue
    <3>3. k # 1
      <4>1. Head(queue) = queue[1] /\ Waiting(Head(queue)) /\ Head(queue).kind = "rescue"
        BY <1>1, <2>1, HeadOfQueue
      <4>2. Head(queue).item = 0
        BY <4>1 DEF Waiting
      <4>3. i # 0
        BY <1>1, Typedness
      <4>4. QED
        BY <3>1, <4>1, <4>2, <4>3
    <3>4. QED
      BY <2>1, <3>1, <3>2, <3>3
  <2>2. QED
    BY <1>1, <2>1 DEF Owners
<1>7. QED
  BY <1>1, <1>2, <1>3, <1>5, <1>6 DEF Upper, ThreadInv

\* The cuts stay behind sealed sequences when nothing of the sequences changes.
LEMMA CutsStay ==
  ASSUME CutsSealed, UNCHANGED <<cfg, items, frames, cuts>>
  PROVE  CutsSealed'
BY DEF CutsSealed, Positions, Frames

\* Passing over a candidate that is sealed keeps the invariant.
LEMMA SkipCandidateKeeps ==
  ASSUME SessionInv, SkipCandidate, netEpisodes' = netEpisodes
  PROVE  Upper' /\ phase' \in Threading
<1> DEFINE c == Head(queue)
<1>1. /\ phase = "stitch" /\ phase' = "stitch" /\ queue # <<>> /\ queue' = Tail(queue)
      /\ UNCHANGED <<cfg, frames, items, clock, cuts>>
      /\ \/ Sealed(c) /\ OpenThread(c, pool)
         \/ c.kind = "rescue" /\ UNCHANGED <<threads, pool>>
  BY DEF SkipCandidate, segmentVars
<1>2. Typed /\ Valid /\ ThreadsTyped /\ QueueTyped /\ CutsSealed
  BY <1>1, ThreadingGiven DEF Threading
<1>3. Reshaped /\ CutsSealed'
  BY <1>1, <1>2, UnchangedReshaped, CutsStay
<1>4. CASE Sealed(c) /\ OpenThread(c, pool)
  <2>1. c \in Candidate /\ Waiting(c)
    BY <1>1, <1>2, HeadOfQueue
  <2>2. c.kind = "episode" /\ items[c.item].sealed
    BY <2>1, <1>4 DEF Candidate, Waiting, Sealed
  <2>3. QED
    BY <1>1, <1>3, <1>4, <2>2, AloneKeeps
<1>5. CASE c.kind = "rescue" /\ UNCHANGED <<threads, pool>>
  BY <1>1, <1>3, <1>5, AwayKeeps
<1>6. QED
  BY <1>1, <1>4, <1>5

\* Passing over a thread that is sealed or gone keeps it.
LEMMA SkipThreadKeeps ==
  ASSUME SessionInv, SkipThread, netEpisodes' = netEpisodes
  PROVE  Upper' /\ phase' \in Threading
<1>1. /\ phase = "repass" /\ phase' = "repass" /\ queue # <<>> /\ queue' = Tail(queue)
      /\ UNCHANGED <<cfg, frames, items, clock, cuts, threads, pool>>
  BY DEF SkipThread, segmentVars
<1>2. Typed /\ Valid /\ ThreadsTyped /\ QueueTyped /\ CutsSealed
  BY <1>1, ThreadingGiven DEF Threading
<1>3. Reshaped /\ CutsSealed'
  BY <1>1, <1>2, UnchangedReshaped, CutsStay
<1>4. QED
  BY <1>1, <1>3, AwayKeeps

\* A judgment keeps it, whichever thread it names.
LEMMA SettleJudgmentKeeps ==
  ASSUME SessionInv, SettleJudgment, netEpisodes' = netEpisodes
  PROVE  Upper' /\ phase' \in Threading
<1> DEFINE c == Judged
           alone == c.kind = "episode" /\ phase = "stitch"
<1>1. /\ Judgeable /\ clock' = clock + 1 /\ queue' = Tail(queue) /\ phase' = phase /\ cfg' = cfg
      /\ phase \in {"stitch", "repass"} /\ queue # <<>>
  BY DEF SettleJudgment, Judgeable
<1>2. Typed /\ Valid /\ ThreadsTyped /\ QueueTyped /\ CutsSealed /\ Owners /\ phase' \in Threading
  BY <1>1, ThreadingGiven DEF Threading
<1>3. JudgedWell(c)
  BY <1>1, <1>2, JudgedFacts
<1>4. PICK outcome, hits :
        LET t == Target(Cards(c), outcome, hits, c)
            open == IF t = 0 THEN pool ELSE pool \ {Older(t, c)}
        IN \/ t # 0 /\ Guarded(t, c) /\ Merge(t, c) /\ UNCHANGED <<pool, cuts>>
           \/ /\ t = 0 \/ ~Guarded(t, c)
              /\ IF t = 0 THEN UNCHANGED <<items, cuts>> ELSE Seal(t, c)
              /\ IF alone THEN OpenThread(c, open) ELSE pool' = open /\ UNCHANGED threads
              /\ UNCHANGED frames
  BY DEF SettleJudgment
<1> DEFINE t == Target(Cards(c), outcome, hits, c)
           open == IF t = 0 THEN pool ELSE pool \ {Older(t, c)}
<1>5. t # 0 => Takes(t, c)
  BY <1>1, <1>2, <1>3, TargetFacts
<1>6. phase = "stitch" => c = Head(queue) /\ (c.kind # "episode" => c.kind = "rescue")
  BY <1>3 DEF JudgedWell
<1> HIDE DEF c, t
<1>7. \/ t # 0 /\ Guarded(t, c) /\ Merge(t, c) /\ UNCHANGED <<pool, cuts>>
      \/ /\ IF t = 0 THEN UNCHANGED <<items, cuts>> ELSE Seal(t, c)
         /\ IF alone THEN OpenThread(c, open) ELSE pool' = open /\ UNCHANGED threads
         /\ UNCHANGED frames
  BY <1>4 DEF c, t
<1>8. CASE t # 0 /\ Guarded(t, c) /\ Merge(t, c) /\ UNCHANGED <<pool, cuts>>
  <2>1. Takes(t, c)
    BY <1>5, <1>8
  <2>2. /\ Typed' /\ NamesDiffer' /\ Fresh' /\ Valid' /\ WindowsCover' /\ Fitting' /\ Assembled'
           /\ SeamsMarkInterruptions'
    BY <1>1, <1>3, <1>8, <2>1, MergeSequences
  <2>3. ThreadsTyped' /\ QueueTyped' /\ Owners' /\ CutsSealed'
    BY <1>1, <1>2, <1>3, <1>8, <2>1, MergeThreads
  <2>4. QED
    BY <1>2, <2>2, <2>3 DEF Upper, ThreadInv
<1>9. CASE /\ IF t = 0 THEN UNCHANGED <<items, cuts>> ELSE Seal(t, c)
           /\ IF alone THEN OpenThread(c, open) ELSE pool' = open /\ UNCHANGED threads
           /\ UNCHANGED frames
  <2>1. Reshaped /\ CutsSealed'
    <3>1. CASE t = 0
      BY <1>1, <1>2, <1>9, <3>1, UnchangedReshaped, CutsStay
    <3>2. CASE t # 0
      BY <1>1, <1>2, <1>3, <1>5, <1>9, <3>2, SealKeeps
    <3>3. QED
      BY <3>1, <3>2
  <2>2. open \in SUBSET pool
    OBVIOUS
  <2> HIDE DEF open
  <2>3. CASE alone
    <3>1. OpenThread(c, open)
      BY <1>9, <2>3
    <3>2. QED
      BY <1>1, <1>6, <1>9, <2>1, <2>2, <2>3, <3>1, AloneKeeps
  <2>4. CASE ~alone
    <3>1. pool' = open /\ UNCHANGED threads
      BY <1>9, <2>4
    <3>2. phase = "stitch" => Head(queue).kind = "rescue"
      BY <1>6, <2>4
    <3>3. QED
      BY <1>1, <1>9, <2>1, <2>2, <3>1, <3>2, AwayKeeps
  <2>5. QED
    BY <2>3, <2>4
<1>10. QED
  BY <1>7, <1>8, <1>9

-------------------------------------------------------------------------------
(* A judgment that fails, and the second pass                              *)

\* The judgment of an episode fails for good.
LEMMA FailedEpisodeKeeps ==
  ASSUME SessionInv, phase = "stitch", phase' = "stitch",
         UNCHANGED <<cfg, frames, netEpisodes, threads, pool, cuts>>,
         queue # <<>>, queue' = Tail(queue), clock' = clock + 1,
         NEW c, c = Head(queue), JudgedWell(c), c.kind = "episode",
         items' = [items EXCEPT ![c.item].status = "failed"]
  PROVE  Upper' /\ phase' \in Threading
<1>1. /\ Typed /\ NamesDiffer /\ Fresh /\ Valid /\ Fitting /\ Assembled /\ ThreadsTyped /\ QueueTyped
         /\ Owners
      /\ CutsSealed /\ phase \in Upstreaming /\ phase' \in Upstreaming /\ phase' \in Phases
         /\ phase' \in Threading
      /\ \A i \in DOMAIN items : items[i].seams = {}
  BY ThreadingGiven DEF Threading, Phases, Upstreaming
<1>2. Positions' = Positions /\ Frames' = Frames /\ (\A m : (Preview(m))' = Preview(m))
  BY DEF Positions, Frames, Preview
<1>3. /\ c.item \in DOMAIN items /\ Active(items[c.item]) /\ items[c.item].pos = c.pos
      /\ \A t \in DOMAIN threads : threads[t].item # c.item
  BY DEF JudgedWell
<1>4. /\ \A i \in DOMAIN items : items[i] \in Sequence
      /\ DOMAIN items = 1 .. Len(items) /\ Len(items) \in Nat
  BY <1>1, ItemsIndexed
<1>5. DOMAIN items' = DOMAIN items
  OBVIOUS
<1>6. ASSUME NEW i \in DOMAIN items
      PROVE  /\ items'[i] \in Sequence /\ items'[i].root = items[i].root /\ items'[i].cut = items[i].cut
             /\ items'[i].pos = items[i].pos /\ items'[i].lower = items[i].lower
                /\ items'[i].upper = items[i].upper
             /\ items'[i].sealed = items[i].sealed /\ items'[i].seams = items[i].seams
             /\ items'[i].status = IF i = c.item THEN "failed" ELSE items[i].status
  <2>1. items[i] \in Sequence
    BY <1>4
  <2>2. CASE i = c.item
    <3>1. items'[i] = [items[i] EXCEPT !.status = "failed"]
      BY <2>2
    <3>2. QED
      BY <2>1, <2>2, <3>1 DEF Sequence, Statuses
  <2>3. CASE i # c.item
    <3>1. items'[i] = items[i]
      BY <2>3
    <3>2. QED
      BY <2>1, <2>3, <3>1
  <2>4. QED
    BY <2>2, <2>3
<1>7. items' \in Seq(Sequence)
  <2>1. \A i \in 1 .. Len(items) : items'[i] \in Sequence
    BY <1>4, <1>6
  <2>2. items' = [i \in 1 .. Len(items) |-> items'[i]]
    BY <1>4
  <2>3. items' \in [1 .. Len(items) -> Sequence]
    BY <2>1, <2>2
  <2>4. QED
    BY <2>3, <1>4, SeqDef
<1>8. \A i \in DOMAIN items' :
        /\ i \in DOMAIN items /\ items'[i].root = items[i].root /\ items'[i].cut = items[i].cut
        /\ items'[i].pos = items[i].pos /\ items'[i].lower = items[i].lower
        /\ items'[i].upper = items[i].upper /\ items'[i].seams = {}
        /\ items'[i].sealed = items[i].sealed
        /\ (items'[i].status = "stitched" <=> items[i].status = "stitched")
        /\ (Active(items'[i]) => Active(items[i]) /\ i # c.item)
        /\ (Active(items[i]) /\ i # c.item => Active(items'[i]))
  BY <1>1, <1>3, <1>5, <1>6 DEF Active
<1>9. Typed'
  <2>1. \A i \in DOMAIN items' : items'[i].pos # {} /\ items'[i].pos \subseteq Positions
    BY <1>1, <1>8 DEF Typed
  <2>2. QED
    BY <1>1, <1>2, <1>7, <2>1 DEF Typed
<1>10. NamesDiffer' /\ Fresh'
  <2>1. Fresh'
    BY <1>1, <1>8 DEF Fresh
  <2>2. \A i \in DOMAIN items' : items'[i].root # {} /\ items'[i].cut = {}
    BY <1>1, <1>8 DEF Fresh, NamesDiffer
  <2>3. \A i, j \in DOMAIN items' : i # j => ~SameName(items'[i], items'[j])
    BY <1>1, <1>8 DEF NamesDiffer, SameName
  <2>4. NamesDiffer'
    BY <2>2, <2>3 DEF NamesDiffer, SameName
  <2>5. QED
    BY <2>1, <2>4
<1>11. Fitting'
  BY <1>1, <1>2, <1>8 DEF Fitting
<1>12. Valid'
  <2>1. Claiming' = Claiming
    BY <1>5, <1>8 DEF Claiming
  <2>2. \A i \in Claiming : items'[i].pos = items[i].pos /\ items'[i].lower = items[i].lower
        /\ items'[i].upper = items[i].upper
    BY <1>5, <1>8 DEF Claiming
  <2>3. QED
    BY <1>1, <1>2, <2>1, <2>2 DEF Valid
<1>13. ThreadsTyped'
  <2>1. \A t \in DOMAIN threads' :
          /\ threads'[t] = threads[t] /\ threads[t].item \in DOMAIN items /\ threads[t].item # c.item
          /\ ((SealedThread(t))' <=> SealedThread(t))
          /\ threads[t].last \in Nat /\ threads[t].last <= clock
          /\ ~SealedThread(t) => threads[t].last < clock
          /\ threads[t].alive => Active(items'[threads[t].item])
    BY <1>1, <1>3, <1>5, <1>8, ThreadsIndexed DEF ThreadsTyped, SealedThread
  <2>2. clock \in Nat /\ clock' \in Nat /\ clock < clock'
    BY <1>1 DEF ThreadsTyped
  <2>3. \A t \in DOMAIN threads' :
          /\ threads'[t].item \in DOMAIN items'
          /\ threads'[t].alive => Active(items'[threads'[t].item])
          /\ threads'[t].last <= clock'
          /\ ~(SealedThread(t))' => threads'[t].last < clock'
          /\ phase' = "stitch" => threads'[t].alive
    BY <1>1, <1>5, <2>1, <2>2 DEF ThreadsTyped
  <2>4. \A t, u \in DOMAIN threads' : t # u =>
         /\ threads'[t].item # threads'[u].item
         /\ ~(SealedThread(t))' /\ ~(SealedThread(u))' => threads'[t].last # threads'[u].last
    BY <1>1, <2>1 DEF ThreadsTyped
  <2>5. threads' \in Seq(Thread) /\ pool' \subseteq DOMAIN threads'
    BY <1>1 DEF ThreadsTyped
  <2>6. QED
    BY <2>2, <2>3, <2>4, <2>5 DEF ThreadsTyped
<1>14. QueueTyped'
  <2>1. ASSUME NEW d \in Candidate, Waiting(d), d.pos \cap c.pos = {} PROVE (Waiting(d))'
    <3>1. ASSUME d.kind = "episode"
          PROVE  /\ items'[d.item].status = items[d.item].status
                    /\ items'[d.item].pos = items[d.item].pos
                 /\ \A u \in DOMAIN threads' : threads'[u].item # d.item
      <4>1. /\ d.item \in DOMAIN items /\ items[d.item].pos = d.pos /\ d.pos # {}
            /\ \A u \in DOMAIN threads : threads[u].item # d.item
        BY <2>1, <3>1 DEF Waiting
      <4>2. d.item # c.item
        BY <4>1, <2>1, <1>3
      <4>3. QED
        BY <4>1, <4>2, <1>6
    <3>2. QED
      BY <2>1, <3>1, <1>5, WaitingStays
  <2>2. QED
    BY <1>1, <2>1, QueueMoves
<1>15. Owners'
  <2> SUFFICES ASSUME NEW i \in DOMAIN items, Active(items[i]), i # c.item
               PROVE  \/ \E u \in DOMAIN threads : threads[u].alive /\ threads[u].item = i
                      \/ \E k \in DOMAIN queue' : queue'[k].item = i
    BY <1>5, <1>8 DEF Owners
  <2>1. CASE \E k \in DOMAIN queue : queue[k].item = i
    <3>1. PICK k \in DOMAIN queue : queue[k].item = i
      BY <2>1
    <3>2. k = 1 \/ \E l \in DOMAIN Tail(queue) : Tail(queue)[l] = queue[k]
      BY <1>1, HeadOfQueue
    <3>3. k = 1 => i = c.item
      BY <1>1, <3>1, HeadOfQueue
    <3>4. QED
      BY <3>1, <3>2, <3>3
  <2>2. QED
    BY <1>1, <2>1 DEF Owners
<1>16. CutsSealed'
  BY <1>1, <1>2, <1>5, <1>8 DEF CutsSealed
<1>17. WindowsCover' /\ SeamsMarkInterruptions' /\ Assembled'
  BY <1>1, <1>8, ThreadingQuiet
<1>18. QED
  BY <1>1, <1>9, <1>10, <1>11, <1>12, <1>13, <1>14, <1>15, <1>16, <1>17 DEF Upper, ThreadInv

\* A judgment that fails for good keeps it.
LEMMA FailJudgmentKeeps ==
  ASSUME SessionInv, FailJudgment, netEpisodes' = netEpisodes
  PROVE  Upper' /\ phase' \in Threading
<1> DEFINE c == Judged
<1>1. /\ Judgeable /\ clock' = clock + 1 /\ queue' = Tail(queue) /\ phase' = phase /\ cfg' = cfg
         /\ cuts' = cuts
      /\ frames' = frames /\ phase \in {"stitch", "repass"} /\ queue # <<>>
  BY DEF FailJudgment, Judgeable, segmentVars
<1>2. Typed /\ Valid /\ ThreadsTyped /\ QueueTyped /\ CutsSealed /\ Owners /\ phase' \in Threading
  BY <1>1, ThreadingGiven DEF Threading
<1>3. JudgedWell(c)
  BY <1>1, <1>2, JudgedFacts
<1>4. IF c.kind = "rescue" \/ phase = "repass" THEN UNCHANGED <<items, threads, pool>>
      ELSE \/ /\ items' = [items EXCEPT ![c.item].status = "failed"]
              /\ UNCHANGED <<threads, pool>>
           \/ OpenThread(c, pool) /\ UNCHANGED items
  BY DEF FailJudgment
<1> HIDE DEF c
<1>5. phase = "stitch" => c = Head(queue) /\ (c.kind # "rescue" => c.kind = "episode")
  BY <1>3 DEF JudgedWell
<1>6. CASE c.kind = "rescue" \/ phase = "repass"
  <2>1. UNCHANGED <<items, threads, pool>>
    BY <1>4, <1>6
  <2>2. Reshaped /\ CutsSealed'
    BY <1>1, <1>2, <2>1, UnchangedReshaped, CutsStay
  <2>3. phase = "stitch" => Head(queue).kind = "rescue"
    BY <1>5, <1>6
  <2>4. QED
    BY <1>1, <2>1, <2>2, <2>3, AwayKeeps
<1>7. CASE ~(c.kind = "rescue" \/ phase = "repass")
  <2>1. phase = "stitch" /\ c = Head(queue) /\ c.kind = "episode"
    BY <1>1, <1>5, <1>7
  <2>2. CASE items' = [items EXCEPT ![c.item].status = "failed"] /\ UNCHANGED <<threads, pool>>
    BY <1>1, <1>3, <2>1, <2>2, FailedEpisodeKeeps
  <2>3. CASE OpenThread(c, pool) /\ UNCHANGED items
    <3>1. Reshaped /\ CutsSealed'
      BY <1>1, <1>2, <2>3, UnchangedReshaped, CutsStay
    <3>2. QED
      BY <1>1, <2>1, <2>3, <3>1, AloneKeeps
  <2>4. QED
    BY <1>4, <1>7, <2>2, <2>3
<1>8. QED
  BY <1>6, <1>7

\* The threads of one fragment that are not sealed, and a list of threads by their heads.
Again1 == {t \in DOMAIN threads : threads[t].alive /\ Cardinality(threads[t].frags) = 1
                                 /\ ~Sealed(Again(t))}
ByHead(S) == [i \in 1 .. Cardinality(S) |->
                CHOOSE x \in S : Cardinality({y \in S : HeadPos(y) < HeadPos(x)}) = i - 1]

\* The threads of the second pass, by position.
LEMMA RepassQueue ==
  ASSUME Typed, Valid, ThreadsTyped, NEW S \in SUBSET (DOMAIN threads), \A t \in S : threads[t].alive
  PROVE  ByHead(S) \in Seq(DOMAIN threads)
<1> DEFINE R == {p \in S \X S : HeadPos(p[1]) < HeadPos(p[2])}
           s == ByHead(S)
<1>1. IsFiniteSet(S)
  BY ThreadsIndexed, FS_Subset
<1>2. Cardinality(S) \in Nat
  BY <1>1, FS_CardinalityType
<1>3. \A t \in S : HeadPos(t) \in Nat
  BY ThreadsIndexed
<1>4. \A t, u \in S : t # u => HeadPos(t) # HeadPos(u)
  BY ThreadsApart
<1>5. StrictOrder(S, R)
  BY <1>3, <1>4 DEF StrictOrder
<1>6. \A x \in S : Below(S, R, x) = {y \in S : HeadPos(y) < HeadPos(x)}
  BY DEF Below
<1> HIDE DEF R
<1>7. \A i \in 1 .. Cardinality(S) : \E x \in S : Cardinality({y \in S : HeadPos(y) < HeadPos(x)}) = i - 1
  <2> SUFFICES ASSUME NEW i \in 1 .. Cardinality(S)
               PROVE  \E x \in S : Cardinality({y \in S : HeadPos(y) < HeadPos(x)}) = i - 1
    OBVIOUS
  <2>1. PICK x \in S : Cardinality(Below(S, R, x)) = i - 1
    BY <1>1, <1>5, RanksTaken
  <2>2. QED
    BY <2>1, <1>6
<1>8. s \in [1 .. Cardinality(S) -> S]
  BY <1>7 DEF ByHead
<1> HIDE DEF s
<1>9. s \in [1 .. Cardinality(S) -> DOMAIN threads]
  BY <1>8
<1>10. s \in Seq(DOMAIN threads)
  BY <1>2, <1>9, SeqDef
<1>11. QED
  BY <1>10 DEF s

\* The second pass over the threads of one fragment begins with them in the queue.
LEMMA PrepareRepassKeeps ==
  ASSUME SessionInv, PrepareRepass, netEpisodes' = netEpisodes
  PROVE  Upper' /\ phase' \in Threading
<1>1. /\ phase = "stitch" /\ queue = <<>> /\ phase' \in {"repass", "finalize"} /\ phase' \in Threading
      /\ UNCHANGED <<cfg, frames, items, threads, pool, clock, cuts>>
  BY DEF PrepareRepass, segmentVars, Threading
<1>2. Typed /\ Valid /\ ThreadsTyped /\ QueueTyped /\ CutsSealed /\ Owners /\ phase \in Threading
  BY <1>1, ThreadingGiven DEF Threading
<1>3. Reshaped /\ CutsSealed'
  BY <1>1, <1>2, UnchangedReshaped, CutsStay
<1>4. /\ Typed' /\ NamesDiffer' /\ Fresh' /\ Valid' /\ WindowsCover' /\ Fitting' /\ Assembled'
         /\ SeamsMarkInterruptions'
  BY <1>1, <1>2, <1>3, ReshapedKeeps
<1>5. ThreadsTyped'
  BY <1>1, <1>2, <1>3, ThreadsStay
<1>6. QueueTyped'
  <2>1. phase' = "repass" => queue' = ByHead(Again1)
    BY <1>1, Zenon DEF PrepareRepass, Arranged, ByHead, Again1
  <2>2. ByHead(Again1) \in Seq(DOMAIN threads)
    <3>1. Again1 \in SUBSET (DOMAIN threads) /\ \A t \in Again1 : threads[t].alive
      BY DEF Again1
    <3>2. QED
      BY <1>2, <3>1, RepassQueue
  <2>3. QED
    BY <1>1, <2>1, <2>2 DEF QueueTyped
<1>7. Owners'
  <2>1. \A k \in DOMAIN queue : FALSE
    BY <1>1
  <2>2. QED
    BY <1>1, <1>2, <2>1 DEF Owners, Active
<1>8. QED
  BY <1>1, <1>3, <1>4, <1>5, <1>6, <1>7 DEF Upper, ThreadInv

\* The end of the second pass keeps the invariant.
LEMMA EndRepassKeeps ==
  ASSUME SessionInv, EndRepass, netEpisodes' = netEpisodes
  PROVE  Upper' /\ phase' \in Threading
<1>1. /\ phase = "repass" /\ queue = <<>> /\ phase' = "finalize" /\ phase' \in Threading
      /\ UNCHANGED <<cfg, frames, items, threads, pool, clock, cuts>>
  BY DEF EndRepass, segmentVars, Threading
<1>2. Typed /\ Valid /\ ThreadsTyped /\ QueueTyped /\ CutsSealed /\ Owners /\ phase \in Threading
  BY <1>1, ThreadingGiven DEF Threading
<1>3. Reshaped /\ CutsSealed'
  BY <1>1, <1>2, UnchangedReshaped, CutsStay
<1>4. /\ Typed' /\ NamesDiffer' /\ Fresh' /\ Valid' /\ WindowsCover' /\ Fitting' /\ Assembled'
         /\ SeamsMarkInterruptions'
  BY <1>1, <1>2, <1>3, ReshapedKeeps
<1>5. ThreadsTyped'
  BY <1>1, <1>2, <1>3, ThreadsStay
<1>6. QueueTyped'
  BY <1>1 DEF QueueTyped
<1>7. Owners'
  BY <1>1, <1>2 DEF Owners, Active
<1>8. QED
  BY <1>1, <1>3, <1>4, <1>5, <1>6, <1>7 DEF Upper, ThreadInv

-------------------------------------------------------------------------------
(* The threads become episodes                                             *)

\* A seam is a place between two members.
LEMMA ForeignTyped ==
  ASSUME cfg \in Configs, NEW S \in SUBSET Positions, NEW T
  PROVE  Foreign(S, T) \in SUBSET Int
<1>1. Len(InOrder(S)) \in Nat
  BY MembersOrdered
<1>2. Foreign(S, T) \subseteq 0 .. Len(InOrder(S)) - 2
  BY DEF Foreign
<1>3. QED
  BY <1>1, <1>2

\* The frames that some active sequence claims.
ActiveFrames == UNION {items[j].pos : j \in {k \in DOMAIN items : Active(items[k])}}

\* Marking the seams of every episode keeps it, and makes them true.
LEMMA FinalizeKeeps ==
  ASSUME SessionInv, Finalize, netEpisodes' = netEpisodes
  PROVE  Upper' /\ phase' = "serve"
<1>1. /\ phase = "finalize" /\ phase' = "serve" /\ UNCHANGED <<cfg, frames>>
      /\ items' = [i \in DOMAIN items |->
           IF \E t \in Live : threads[t].item = i
           THEN [items[i] EXCEPT !.seams = Foreign(items[i].pos, Owned)] ELSE items[i]]
  BY DEF Finalize, segmentVars
<1>2. /\ Typed /\ NamesDiffer /\ Fresh /\ Valid /\ Fitting /\ Assembled /\ ThreadsTyped /\ Owners
      /\ cfg \in Configs /\ phase' \in Phases /\ phase' \notin Upstreaming /\ phase \in Upstreaming
  BY <1>1, ThreadingGiven DEF Threading, Phases, Upstreaming, Reading
<1>3. Positions' = Positions /\ Frames' = Frames /\ (\A m : (Preview(m))' = Preview(m))
  BY <1>1 DEF Positions, Frames, Preview
<1>4. /\ \A i \in DOMAIN items : items[i] \in Sequence /\ items[i].pos \in SUBSET Positions
      /\ DOMAIN items = 1 .. Len(items) /\ Len(items) \in Nat
  BY <1>2, Typedness
<1>5. \A i \in DOMAIN items : Active(items[i]) <=> \E t \in Live : threads[t].item = i
  <2>1. \A i \in DOMAIN items : Active(items[i]) => \E t \in Live : threads[t].item = i
    BY <1>1, <1>2 DEF Owners, Live
  <2>2. \A t \in Live : Active(items[threads[t].item])
    BY <1>2 DEF ThreadsTyped, Live
  <2>3. QED
    BY <2>1, <2>2
<1>6. Owned = ActiveFrames
  <2>1. \A t \in Live : threads[t].item \in DOMAIN items /\ Active(items[threads[t].item])
    BY <1>2 DEF ThreadsTyped, Live
  <2>2. \A p : p \in Owned <=> \E t \in Live : p \in items[threads[t].item].pos
    BY DEF Owned, Pos
  <2>3. \A p : p \in ActiveFrames <=> \E i \in DOMAIN items : Active(items[i]) /\ p \in items[i].pos
    BY DEF ActiveFrames
  <2>4. \A p : p \in Owned <=> p \in ActiveFrames
    BY <2>1, <2>2, <2>3, <1>5
  <2>5. QED
    BY <2>4
<1>7. items' = [i \in DOMAIN items |->
           IF Active(items[i]) THEN [items[i] EXCEPT !.seams = Foreign(items[i].pos, ActiveFrames)]
           ELSE items[i]]
  BY <1>1, <1>5, <1>6
<1> DEFINE A == ActiveFrames
<1>8. \A i \in DOMAIN items : Foreign(items[i].pos, A) \in SUBSET Int
  <2> HIDE DEF A
  <2>1. QED
    BY <1>2, <1>4, ForeignTyped
<1> HIDE DEF A
<1>9. DOMAIN items' = DOMAIN items
  BY <1>7
<1>10. ASSUME NEW i \in DOMAIN items
       PROVE  /\ items'[i] \in Sequence /\ items'[i].root = items[i].root
                 /\ items'[i].cut = items[i].cut
              /\ items'[i].pos = items[i].pos /\ items'[i].lower = items[i].lower
                 /\ items'[i].upper = items[i].upper
              /\ items'[i].sealed = items[i].sealed /\ items'[i].status = items[i].status
              /\ Active(items[i]) => items'[i].seams = Foreign(items[i].pos, A)
  <2> DEFINE F == Foreign(items[i].pos, A)
  <2>1. items[i] \in Sequence /\ F \in SUBSET Int
    BY <1>4, <1>8
  <2>2. CASE Active(items[i])
    <3>1. items'[i] = [items[i] EXCEPT !.seams = F]
      BY <2>2, <1>7 DEF A
    <3> HIDE DEF F
    <3>2. /\ items'[i] \in Sequence /\ items'[i].root = items[i].root /\ items'[i].cut = items[i].cut
          /\ items'[i].pos = items[i].pos /\ items'[i].lower = items[i].lower
             /\ items'[i].upper = items[i].upper
          /\ items'[i].sealed = items[i].sealed /\ items'[i].status = items[i].status
          /\ items'[i].seams = F
      BY <2>1, <3>1 DEF Sequence
    <3>3. QED
      BY <3>2 DEF F
  <2>3. CASE ~Active(items[i])
    <3>1. items'[i] = items[i]
      BY <2>3, <1>7
    <3>2. QED
      BY <2>1, <2>3, <3>1
  <2>4. QED
    BY <2>2, <2>3
<1>11. items' \in Seq(Sequence)
  <2>1. \A i \in 1 .. Len(items) : items'[i] \in Sequence
    BY <1>4, <1>10
  <2>2. items' = [i \in 1 .. Len(items) |-> items'[i]]
    BY <1>4, <1>7
  <2>3. items' \in [1 .. Len(items) -> Sequence]
    BY <2>1, <2>2
  <2>4. QED
    BY <2>3, <1>4, SeqDef
<1>12. Typed'
  <2>1. \A i \in DOMAIN items' : items'[i].pos # {} /\ items'[i].pos \subseteq Positions
    BY <1>2, <1>9, <1>10 DEF Typed
  <2>2. QED
    BY <1>1, <1>2, <1>3, <1>11, <2>1 DEF Typed
<1>13. NamesDiffer'
  <2>1. \A i \in DOMAIN items' : i \in DOMAIN items /\ items'[i].root = items[i].root
        /\ items'[i].cut = items[i].cut
          /\ items'[i].pos = items[i].pos /\ items'[i].status = items[i].status
    BY <1>9, <1>10
  <2>2. QED
    BY <1>2, <2>1 DEF NamesDiffer, SameName
<1>14. Fresh' /\ WindowsCover' /\ Assembled' /\ ThreadInv'
  BY <1>1 DEF Fresh, WindowsCover, Assembled, ThreadInv, Upstreaming, Reading, Threading
<1>15. Fitting'
  <2>1. \A i \in DOMAIN items' : i \in DOMAIN items /\ items'[i].pos = items[i].pos
        /\ (Active(items'[i]) => Active(items[i]))
    BY <1>9, <1>10 DEF Active
  <2>2. QED
    BY <1>2, <1>3, <2>1 DEF Fitting
<1>16. Valid'
  <2>1. Claiming' = Claiming
    BY <1>9, <1>10 DEF Claiming
  <2>2. \A i \in Claiming : items'[i].pos = items[i].pos /\ items'[i].lower = items[i].lower
        /\ items'[i].upper = items[i].upper
    BY <1>10 DEF Claiming
  <2>3. frames' = frames /\ Valid
    BY <1>1, <1>2
  <2>4. QED
    BY <1>3, <2>1, <2>2, <2>3 DEF Valid
<1>17. SeamsMarkInterruptions'
  <2>1. \A i \in DOMAIN items' : /\ i \in DOMAIN items /\ (Active(items'[i]) <=> Active(items[i]))
                                 /\ items'[i].pos = items[i].pos
    BY <1>9, <1>10 DEF Active
  <2>2. \A p : p \in ActiveFrames' <=> \E i \in DOMAIN items' : Active(items'[i]) /\ p \in items'[i].pos
    BY DEF ActiveFrames
  <2>3. \A p : p \in ActiveFrames <=> \E i \in DOMAIN items : Active(items[i]) /\ p \in items[i].pos
    BY DEF ActiveFrames
  <2>4. \A p : p \in ActiveFrames' <=> p \in ActiveFrames
    BY <2>1, <2>2, <2>3, <1>9
  <2>5. ActiveFrames' = A
    BY <2>4 DEF A
  <2>6. \A i \in DOMAIN items' : Active(items'[i])
          => items'[i].seams = Foreign(items'[i].pos, ActiveFrames')
    BY <2>1, <2>5, <1>10
  <2>7. QED
    BY <2>6 DEF SeamsMarkInterruptions, ActiveFrames
<1>18. QED
  BY <1>1, <1>12, <1>13, <1>14, <1>15, <1>16, <1>17 DEF Upper

\* Every step of segmentation and stitching keeps the invariant.
LEMMA UpstreamKeeps ==
  ASSUME SessionInv, RunUpstream
  PROVE  SessionInv'
<1>1. Upstream /\ netEpisodes' = netEpisodes
  BY DEF RunUpstream
<1>2. phase \in Upstreaming /\ Upper' /\ phase' \in Upstreaming \union {"serve"}
  <2>1. CASE SegmentNext /\ UNCHANGED stitchVars
    <3>1. phase \in Reading
      BY <2>1 DEF SegmentNext, Plan, JudgeWindow, OverflowWindow, FailWindow, Settle, Reading
    <3>2. Upper' /\ phase' \in Reading
      BY <2>1, <1>1, PlanKeeps, JudgeWindowKeeps, OverflowWindowKeeps, FailWindowKeeps, SettleKeeps
         DEF SegmentNext
    <3>3. QED
      BY <3>1, <3>2 DEF Upstreaming
  <2>2. CASE StitchNext
    <3>1. phase \in Upstreaming
      BY <2>2 DEF StitchNext, BeginStitch, SkipCandidate, SkipThread, SettleJudgment, FailJudgment,
         PrepareRepass,
                  EndRepass, Finalize, Judgeable, Upstreaming, Reading, Threading
    <3>2. Upper' /\ phase' \in Threading \union {"serve"}
      BY <2>2, <1>1, BeginStitchKeeps, SkipCandidateKeeps, SkipThreadKeeps, SettleJudgmentKeeps,
         FailJudgmentKeeps,
         PrepareRepassKeeps, EndRepassKeeps, FinalizeKeeps DEF StitchNext
    <3>3. QED
      BY <3>1, <3>2 DEF Upstreaming
  <2>3. QED
    BY <1>1, <2>1, <2>2 DEF Upstream
<1>3. Wave' /\ Totals' /\ MinimaFail' /\ CountsOnce'
  BY <1>2, UpstreamQuiet DEF Upper
<1>4. QED
  BY <1>2, <1>3 DEF Upper, SessionInv

\* It holds when the session starts.
LEMMA InitHolds == Init => SessionInv
<1> SUFFICES ASSUME Init PROVE SessionInv
  OBVIOUS
<1>1. /\ cfg \in Configs /\ phase = "plan" /\ spans = <<>> /\ broken = {} /\ paired = {} /\ items = <<>>
      /\ frames = [p \in Positions |-> "active"]
      /\ threads = <<>> /\ pool = {} /\ queue = <<>> /\ clock = 0 /\ cuts = {}
      /\ at = 0 /\ failed = {} /\ terminals = {} /\ pending = <<>> /\ progress = FALSE
      /\ reservation = FALSE /\ captured = <<>> /\ merged = <<>> /\ netEpisodes = 0
      /\ episodes = 0 /\ delta = 0
  BY DEF Init, InitSegment, InitStitch
<1>2. DOMAIN items = {} /\ DOMAIN spans = {}
  BY <1>1
<1>3. phase \in Phases /\ phase \in Upstreaming /\ phase \in Reading /\ phase \notin Threading
  BY <1>1 DEF Phases, Upstreaming, Reading, Threading
<1>4. Typed
  <2>1. items \in Seq(Sequence)
    BY <1>1
  <2>2. frames \in [Positions -> FrameStates]
    BY <1>1 DEF FrameStates
  <2>3. QED
    BY <1>1, <1>2, <1>3, <2>1, <2>2 DEF Typed
<1>5. NamesDiffer /\ Fresh /\ Fitting
  BY <1>2 DEF NamesDiffer, Fresh, Fitting
<1>6. Valid
  <2>1. Claiming = {}
    BY <1>2 DEF Claiming
  <2>2. {p \in Positions : frames[p] = "absorbed"} = {}
    BY <1>1
  <2>3. QED
    BY <2>1, <2>2 DEF Valid
<1>7. WindowsCover
  BY <1>1 DEF WindowsCover
<1>8. Assembled /\ ThreadInv
  BY <1>1, <1>2, <1>3 DEF Assembled, ThreadInv
<1>9. Wave
  BY <1>1 DEF Wave
<1>10. Totals
  <2>1. SubSeq(Stages, 1, 0) = <<>>
    BY SubSeqEmpty
  <2>2. Stages \in Seq(STRING) /\ Len(Stages) \in Nat
    BY SessionAssumption, LenProperties
  <2>3. Len(items) = 0
    BY <1>1
  <2>4. QED
    BY <1>1, <2>1, <2>2, <2>3 DEF Totals
<1>11. MinimaFail /\ CountsOnce /\ SeamsMarkInterruptions
  BY <1>1 DEF MinimaFail, CountsOnce, SeamsMarkInterruptions
<1>12. QED
  BY <1>4, <1>5, <1>6, <1>7, <1>8, <1>9, <1>10, <1>11 DEF SessionInv

-------------------------------------------------------------------------------
(* Stages of the downstream chain                                          *)

\* A session that is served keeps its sequences as long as nothing is cut.
LEMMA ServedStays ==
  ASSUME SessionInv, UNCHANGED <<cfg, items, frames, netEpisodes>>,
         \/ phase \in {"serve", "advance"} /\ phase' \in {"serve", "advance", "done"}
         \/ phase' = "raised"
  PROVE  Upper'
<1>1. phase' \in Phases /\ phase' \notin Upstreaming /\ phase' \notin Reading /\ phase' \notin Threading
      /\ phase' \notin {"plan", "judge"}
  BY DEF Phases, Upstreaming, Reading, Threading
<1>2. Typed' /\ NamesDiffer' /\ Fresh' /\ Valid' /\ Fitting'
  BY <1>1, SequencesStay
<1>3. WindowsCover' /\ Assembled' /\ ThreadInv'
  BY <1>1 DEF WindowsCover, Assembled, ThreadInv
<1>4. SeamsMarkInterruptions'
  BY DEF SessionInv, SeamsMarkInterruptions, Active
<1>5. QED
  BY <1>2, <1>3, <1>4 DEF Upper

\* What is final stays as it is while the sequences do.
LEMMA MinimaStay ==
  ASSUME SessionInv, UNCHANGED <<items, terminals>>, phase' # "internal"
  PROVE  MinimaFail'
BY DEF SessionInv, MinimaFail, Current, Active, Names

\* The stages of the downstream chain, by their number.
LEMMA StagesTyped ==
  /\ Stages \in Seq(STRING) /\ Len(Stages) \in Nat /\ SubSeq(Stages, 1, 0) = <<>>
  /\ SubSeq(Stages, 1, Len(Stages)) = Stages
  /\ \A k \in 0 .. Len(Stages) - 1 :
       /\ SubSeq(Stages, 1, k + 1) = Append(SubSeq(Stages, 1, k), Stages[k + 1])
                                     /\ Stages[k + 1] \in STRING /\ Stages[k + 1] \in ToSet(Stages)
<1>1. Stages \in Seq(STRING) /\ Len(Stages) \in Nat /\ SubSeq(Stages, 1, 0) = <<>>
      /\ DOMAIN Stages = 1 .. Len(Stages)
  BY SessionAssumption, LenProperties, SubSeqEmpty
<1> DEFINE s == Stages
           n == Len(Stages)
<1>2. SubSeq(s, 1, n) = s
  BY <1>1, SubSeqFull
<1>3. ASSUME NEW k \in 0 .. n - 1
      PROVE  /\ SubSeq(s, 1, k + 1) = Append(SubSeq(s, 1, k), s[k + 1])
             /\ s[k + 1] \in STRING /\ s[k + 1] \in ToSet(s)
  <2>1. k + 1 \in 1 .. n /\ k \in Nat
    BY <1>1
  <2>2. s[k + 1] \in STRING /\ s[k + 1] \in ToSet(s)
    BY <1>1, <2>1, ElementOfSeq DEF ToSet
  <2>3. SubSeq(s, 1, k + 1) = Append(SubSeq(s, 1, k), s[k + 1])
    BY <1>1, <2>1, SubSeqRecursiveSecond
  <2>4. QED
    BY <2>2, <2>3
<1>4. QED
  BY <1>1, <1>2, <1>3

\* The end of a stage keeps the invariant: the next stage was captured after it.
LEMMA StageEndsKeeps == ASSUME SessionInv, StageEnds PROVE SessionInv'
<1>1. /\ phase = "serve" /\ phase' = "serve" /\ at < Len(Stages)
      /\ captured' = Append(captured, Stages[at + 1]) /\ at' = at + 1
      /\ UNCHANGED <<cfg, frames, items, terminals, pending, progress, merged, episodes,
                     netEpisodes, delta>>
  BY DEF StageEnds, segmentVars, Stage
<1>2. Upper'
  BY <1>1, ServedStays
<1>3. Wave'
  BY <1>1 DEF SessionInv, Wave
<1>4. Totals'
  <2>1. /\ at \in 0 .. Len(Stages) /\ captured = SubSeq(Stages, 1, at)
           /\ Len(items) = episodes + netEpisodes
        /\ episodes \in Nat /\ netEpisodes \in Nat
    BY <1>1 DEF SessionInv, Totals
  <2>2. at \in 0 .. Len(Stages) - 1 /\ at + 1 \in 0 .. Len(Stages)
    BY <1>1, <2>1, StagesTyped
  <2>3. captured' = SubSeq(Stages, 1, at')
    BY <1>1, <2>1, <2>2, StagesTyped
  <2>4. phase' \notin Upstreaming
    BY <1>1 DEF Upstreaming, Reading, Threading
  <2>5. QED
    BY <1>1, <2>1, <2>2, <2>3, <2>4 DEF Totals
<1>5. MinimaFail'
  BY <1>1, MinimaStay
<1>6. CountsOnce'
  BY <1>1 DEF SessionInv, CountsOnce
<1>7. QED
  BY <1>2, <1>3, <1>4, <1>5, <1>6 DEF Upper, SessionInv

\* The requests of a stage: its sequences, and the targets of a unit over them.
Serving(stage) == {items[i] : i \in {j \in DOMAIN items :
                                       Active(items[j]) /\ j \notin failed \union Doomed(stage)}}
SomeOf(S, n) == {s \in SUBSET S : s # {} /\ Cardinality(s) <= n}
TargetsOf(u, S) ==
  CASE u = "sequence"   -> {{Whole(e)} : e \in S}
    [] u = "pairwise"   -> {{Whole(e) : e \in s} : s \in SomeOf(S, 2) \ SomeOf(S, 1)}
    [] u = "fixed"      -> {{Whole(e) : e \in s} : s \in SomeOf(S, 2)}
    [] u = "frame"      -> UNION {{{At(e, {p})} : p \in e.pos} : e \in S}
    [] u = "transition" -> UNION {{{At(e, m)} : m \in Adjacent(e.pos)} : e \in S}

\* Requests, in these names.
LEMMA RequestsAre ==
  ASSUME NEW stage
  PROVE  Requests(stage) =
           UNION {{Failure(stage, u, x) : x \in TargetsOf(u, Serving(stage))} : u \in cfg.units[stage]}
BY Zenon DEF Requests, TargetsOf, Serving, SomeOf

\* A request names sequences that are served, at least one.
LEMMA TargetsNamed ==
  ASSUME NEW S, \A e \in S : e.root \in SUBSET Nat /\ e.cut \in SUBSET Nat /\ e.pos \in SUBSET Nat,
         NEW u \in Units, NEW x \in TargetsOf(u, S)
  PROVE  x # {} /\ \A y \in x : y \in Piece /\ \E e \in S : Names(y, e)
<1>1. \A e \in S : \A m \in SUBSET Nat : At(e, m) \in Piece /\ Names(At(e, m), e)
  BY DEF At, Piece, Names
<1>2. \A e \in S : Whole(e) = At(e, e.pos)
  BY DEF Whole, At
<1>3. \A e \in S : Whole(e) \in Piece /\ Names(Whole(e), e)
  BY <1>1, <1>2
<1>4. CASE u = "sequence"
  <2>1. PICK e \in S : x = {Whole(e)}
    BY <1>4 DEF TargetsOf
  <2>2. QED
    BY <2>1, <1>3
<1>5. CASE u = "pairwise" \/ u = "fixed"
  <2>1. PICK s \in SomeOf(S, 2) : x = {Whole(e) : e \in s}
    BY <1>5 DEF TargetsOf
  <2>2. s # {} /\ s \subseteq S
    BY DEF SomeOf
  <2>3. QED
    BY <2>1, <2>2, <1>3
<1>6. CASE u = "frame"
  <2>1. PICK e \in S : \E p \in e.pos : x = {At(e, {p})}
    BY <1>6 DEF TargetsOf
  <2>2. PICK p \in e.pos : x = {At(e, {p})}
    BY <2>1
  <2>3. {p} \in SUBSET Nat
    OBVIOUS
  <2>4. QED
    BY <2>2, <2>3, <1>1
<1>7. CASE u = "transition"
  <2>1. PICK e \in S : \E m \in Adjacent(e.pos) : x = {At(e, m)}
    BY <1>7 DEF TargetsOf
  <2>2. PICK m \in Adjacent(e.pos) : x = {At(e, m)}
    BY <2>1
  <2>3. m \in SUBSET Nat
    BY DEF Adjacent, Next2
  <2>4. QED
    BY <2>2, <2>3, <1>1
<1>8. QED
  BY <1>4, <1>5, <1>6, <1>7 DEF Units

\* A request that overflows is a failure of sequences that are there, and is not final yet.
LEMMA OverflowsFresh ==
  ASSUME SessionInv, phase = "serve", at < Len(Stages), NEW f \in Overflows(Stage)
  PROVE  f \in Failures /\ Current(f) /\ f \notin terminals
<1> DEFINE S == Serving(Stage)
<1>1. Typed /\ cfg \in Configs /\ at \in 0 .. Len(Stages)
  BY DEF SessionInv, Typed, Totals
<1>2. Stage \in STRING /\ Stage \in ToSet(Stages)
  <2>1. at \in 0 .. Len(Stages) - 1
    BY <1>1, StagesTyped
  <2>2. QED
    BY <2>1, StagesTyped DEF Stage
<1>3. cfg.units[Stage] \in SUBSET Units
  BY <1>1, <1>2, SessionAssumption
<1>4. \A e \in S :
        /\ e.root \in SUBSET Nat /\ e.cut \in SUBSET Nat /\ e.pos \in SUBSET Nat
        /\ \E i \in DOMAIN items : items[i] = e /\ Active(e)
  BY <1>1, ItemsIndexed DEF Serving, Sequence
<1> HIDE DEF S
<1>5. PICK u \in cfg.units[Stage] : \E x \in TargetsOf(u, S) : f = Failure(Stage, u, x)
  <2>1. f \in Requests(Stage)
    BY DEF Overflows
  <2>2. QED
    BY <2>1, RequestsAre DEF S
<1>6. PICK x \in TargetsOf(u, S) : f = Failure(Stage, u, x)
  BY <1>5
<1>7. u \in Units
  BY <1>3
<1>8. x # {} /\ \A y \in x : y \in Piece /\ \E e \in S : Names(y, e)
  BY <1>4, <1>7, TargetsNamed
<1>9. f = [stage |-> Stage, unit |-> u, targets |-> x]
  BY <1>6 DEF Failure
<1>10. f \in Failures
  BY <1>2, <1>7, <1>8, <1>9 DEF Failures
<1>11. Current(f)
  <2>1. \A y \in x : \E i \in DOMAIN items : Active(items[i]) /\ Names(y, items[i])
    BY <1>4, <1>8
  <2>2. QED
    BY <2>1, <1>8, <1>9 DEF Current
<1>12. f \notin terminals
  <2> SUFFICES ASSUME f \in terminals PROVE FALSE
    OBVIOUS
  <2>1. PICK y \in f.targets : ~Known(f, y)
    BY DEF Overflows
  <2>2. SameTarget(y, y, f.unit)
    BY DEF SameTarget, Names
  <2>3. QED
    BY <2>1, <2>2 DEF Known
<1>13. QED
  BY <1>10, <1>11, <1>12

\* The requests that overflow make a wave of failures of sequences that are there.
LEMMA StageOverflowsKeeps == ASSUME SessionInv, StageOverflows PROVE SessionInv'
<1>1. /\ phase = "serve" /\ phase' = "advance" /\ at < Len(Stages) /\ reservation' = FALSE
      /\ captured' = <<>> /\ at' = 0 /\ progress' = FALSE
      /\ UNCHANGED <<cfg, frames, items, terminals, merged, episodes, netEpisodes, delta>>
  BY DEF StageOverflows, Discard, segmentVars
<1>2. PICK n \in 1 .. MaxWave : pending' \in [1 .. n -> Overflows(Stage)]
  BY DEF StageOverflows
<1>3. Upper'
  BY <1>1, ServedStays
<1>4. Wave'
  <2>1. n \in Nat /\ n # 0
    BY <1>2
  <2>2. \A f \in Overflows(Stage) : f \in Failures /\ Current(f) /\ f \notin terminals
    BY <1>1, OverflowsFresh
  <2>3. pending' \in [1 .. n -> Failures]
    BY <1>2, <2>2
  <2>4. pending' \in Seq(Failures) /\ Len(pending') = n
    BY <2>1, <2>3, SeqDef, LenProperties
  <2>5. pending' # <<>> /\ Head(pending') = pending'[1] /\ pending'[1] \in Overflows(Stage)
    <3>1. pending' # <<>>
      BY <2>1, <2>4, EmptySeq
    <3>2. QED
      BY <3>1, <2>1, <2>4, <1>2, HeadTailProperties
  <2>6. terminals' \subseteq Failures
    BY <1>1 DEF SessionInv, Wave
  <2>7. Head(pending') \notin terminals' /\ Current(Head(pending'))
    BY <1>1, <2>2, <2>5
  <2>8. ~(Handled(Head(pending)))'
    BY <1>1, <2>7 DEF Handled, Current, Active, Names
  <2>9. QED
    BY <2>4, <2>5, <2>6, <2>8 DEF Wave
<1>5. Totals'
  <2>1. phase' \notin Upstreaming
    BY <1>1 DEF Upstreaming, Reading, Threading
  <2>2. QED
    BY <1>1, <2>1, StagesTyped DEF SessionInv, Totals
<1>6. MinimaFail'
  BY <1>1, MinimaStay
<1>7. CountsOnce'
  BY <1>1 DEF SessionInv, CountsOnce
<1>8. QED
  BY <1>3, <1>4, <1>5, <1>6, <1>7 DEF Upper, SessionInv

-------------------------------------------------------------------------------
(* A wave of overflows                                                     *)

\* The wave at its next failure.
LEMMA HeadOfWave ==
  ASSUME SessionInv, pending # <<>>
  PROVE  Head(pending) \in Failures /\ Tail(pending) \in Seq(Failures)
<1>1. pending \in Seq(Failures)
  BY DEF SessionInv, Wave
<1>2. QED
  BY <1>1, HeadTailProperties

\* A failure of the wave that is settled already is passed over.
LEMMA PassOverKeeps == ASSUME SessionInv, PassOver PROVE SessionInv'
<1>1. /\ phase = "advance" /\ phase' = "advance" /\ pending # <<>> /\ Handled(Head(pending))
         /\ pending' = Tail(pending)
      /\ UNCHANGED <<cfg, frames, items, at, failed, terminals, progress, reservation, captured,
                     merged, episodes, netEpisodes, delta>>
  BY DEF PassOver, segmentVars
<1>2. Upper'
  BY <1>1, ServedStays
<1>3. Wave'
  <2>1. progress /\ terminals \subseteq Failures
    BY <1>1 DEF SessionInv, Wave
  <2>2. QED
    BY <1>1, <2>1, HeadOfWave DEF Wave
<1>4. Totals'
  BY <1>1 DEF SessionInv, Totals
<1>5. MinimaFail'
  BY <1>1, MinimaStay
<1>6. CountsOnce'
  BY <1>1 DEF SessionInv, CountsOnce
<1>7. QED
  BY <1>2, <1>3, <1>4, <1>5, <1>6 DEF Upper, SessionInv

\* A failure that no cut can help is final: all its targets have one frame.
LEMMA EstablishKeeps == ASSUME SessionInv, Establish PROVE SessionInv'
<1> DEFINE f == Head(pending)
<1>1. /\ phase = "advance" /\ phase' = "advance" /\ pending # <<>> /\ pending' = Tail(pending)
      /\ ~Handled(f) /\ Splittable(f) = {} /\ terminals' = terminals \union {f} /\ progress' = TRUE
      /\ UNCHANGED <<cfg, frames, items, at, failed, reservation, captured, merged, episodes,
                     netEpisodes, delta>>
  BY DEF Establish, segmentVars
<1>2. f \in Failures /\ Tail(pending) \in Seq(Failures)
  BY <1>1, HeadOfWave
<1> HIDE DEF f
<1>3. Upper'
  BY <1>1, ServedStays
<1>4. Wave'
  BY <1>1, <1>2 DEF SessionInv, Wave
<1>5. Totals'
  <2>1. phase' \notin Upstreaming
    BY <1>1 DEF Upstreaming, Reading, Threading
  <2>2. QED
    BY <1>1, <2>1 DEF SessionInv, Totals
<1>6. MinimaFail'
  <2>1. Current(f)
    BY <1>1 DEF Handled
  <2>2. f.unit \in {"sequence", "pairwise"} =>
          \A i \in DOMAIN items : (\E x \in f.targets : Names(x, items[i]))
            => Cardinality(items[i].pos) = 1
    <3> SUFFICES ASSUME f.unit \in {"sequence", "pairwise"}, NEW i \in DOMAIN items,
                        NEW x \in f.targets, Names(x, items[i])
                 PROVE  Cardinality(items[i].pos) = 1
      OBVIOUS
    <3>1. PICK j \in DOMAIN items : Active(items[j]) /\ Names(x, items[j])
      BY <2>1 DEF Current
    <3>2. i = j
      BY <3>1 DEF SessionInv, NamesDiffer, SameName, Names
    <3>3. ~ (Cardinality(items[i].pos) > 1)
      BY <1>1, <3>1, <3>2 DEF Splittable
    <3>4. Cardinality(items[i].pos) \in Nat /\ Cardinality(items[i].pos) # 0
      BY Typedness, MembersFinite DEF SessionInv
    <3>5. QED
      BY <3>3, <3>4
  <2>3. \A g \in terminals :
          /\ Current(g)
          /\ g.unit \in {"sequence", "pairwise"} =>
               \A i \in DOMAIN items : (\E x \in g.targets : Names(x, items[i]))
                 => Cardinality(items[i].pos) = 1
    BY DEF SessionInv, MinimaFail
  <2>4. \A g \in terminals' :
          /\ Current(g)
          /\ g.unit \in {"sequence", "pairwise"} =>
               \A i \in DOMAIN items : (\E x \in g.targets : Names(x, items[i]))
                 => Cardinality(items[i].pos) = 1
    BY <1>1, <2>1, <2>2, <2>3
  <2>5. QED
    BY <1>1, <2>4 DEF MinimaFail, Current, Active, Names
<1>7. CountsOnce'
  BY <1>1 DEF SessionInv, CountsOnce
<1>8. QED
  BY <1>3, <1>4, <1>5, <1>6, <1>7 DEF Upper, SessionInv

\* Starting the stages again after a wave keeps the invariant.
LEMMA RecomputeKeeps == ASSUME SessionInv, Recompute PROVE SessionInv'
<1>1. /\ phase = "advance" /\ pending = <<>> /\ phase' = (IF progress THEN "serve" ELSE "internal")
      /\ UNCHANGED <<cfg, frames, items, at, failed, terminals, pending, progress, reservation,
                     captured, merged,
                     episodes, netEpisodes, delta>>
  BY DEF Recompute, segmentVars, sessionVars
<1>2. phase' = "serve"
  BY <1>1 DEF SessionInv, Wave
<1>3. Upper'
  BY <1>1, <1>2, ServedStays
<1>4. Wave'
  BY <1>1, <1>2 DEF SessionInv, Wave
<1>5. Totals'
  <2>1. phase' \notin Upstreaming
    BY <1>2 DEF Upstreaming, Reading, Threading
  <2>2. QED
    BY <1>1, <1>2, <2>1 DEF SessionInv, Totals
<1>6. MinimaFail'
  BY <1>1, <1>2, MinimaStay
<1>7. CountsOnce'
  BY <1>1, <1>2 DEF SessionInv, CountsOnce
<1>8. QED
  BY <1>3, <1>4, <1>5, <1>6, <1>7 DEF Upper, SessionInv

\* Handing the session on keeps it: its cuts are counted once.
LEMMA CommitKeeps == ASSUME SessionInv, Commit PROVE SessionInv'
<1>1. /\ phase = "serve" /\ at = Len(Stages) /\ phase' = "done" /\ merged' = <<"upstream">> \o captured
      /\ delta' = episodes + netEpisodes /\ reservation' = FALSE /\ captured' = <<>>
      /\ UNCHANGED <<cfg, frames, items, at, failed, terminals, pending, progress, episodes,
                     netEpisodes>>
  BY DEF Commit, segmentVars, SessionInv
<1>2. Upper'
  BY <1>1, ServedStays
<1>3. Wave'
  BY <1>1 DEF SessionInv, Wave
<1>4. captured = Stages /\ Len(items) = episodes + netEpisodes
  <2>1. captured = SubSeq(Stages, 1, at) /\ Len(items) = episodes + netEpisodes
    BY <1>1 DEF SessionInv, Totals
  <2>2. QED
    BY <1>1, <2>1, StagesTyped
<1>5. Totals'
  <2>1. phase' \notin Upstreaming
    BY <1>1 DEF Upstreaming, Reading, Threading
  <2>2. QED
    BY <1>1, <2>1 DEF SessionInv, Totals
<1>6. MinimaFail'
  BY <1>1, MinimaStay
<1>7. CountsOnce'
  BY <1>1, <1>4 DEF CountsOnce
<1>8. QED
  BY <1>2, <1>3, <1>5, <1>6, <1>7 DEF Upper, SessionInv

\* A session that is given up keeps it.
LEMMA InterruptedKeeps == ASSUME SessionInv, Interrupted PROVE SessionInv'
<1>1. /\ phase \notin {"advance", "done", "raised", "internal"} /\ phase' = "raised"
      /\ reservation' = FALSE /\ captured' = <<>> /\ at' = 0
      /\ UNCHANGED <<cfg, frames, items, terminals, pending, progress, merged, episodes,
                     netEpisodes, delta>>
  BY DEF Interrupted, Discard, segmentVars
<1>2. Upper'
  BY <1>1, ServedStays
<1>3. Wave'
  BY <1>1 DEF SessionInv, Wave
<1>4. Totals'
  <2>1. phase' \notin Upstreaming
    BY <1>1 DEF Upstreaming, Reading, Threading
  <2>2. QED
    BY <1>1, <2>1, StagesTyped DEF SessionInv, Totals
<1>5. MinimaFail'
  BY <1>1, MinimaStay
<1>6. CountsOnce'
  BY <1>1 DEF SessionInv, CountsOnce
<1>7. QED
  BY <1>2, <1>3, <1>4, <1>5, <1>6 DEF Upper, SessionInv

\* A step that changes nothing keeps it.
LEMMA StutterKeeps == ASSUME SessionInv, UNCHANGED vars PROVE SessionInv'
<1>1. UNCHANGED <<cfg, spans, broken, rel, paired, frames, phase, items, threads, pool, queue, clock,
                  cuts, at, failed, terminals, pending, progress, reservation, captured, merged,
                  episodes, netEpisodes, delta>>
  BY DEF vars, segmentVars, stitchVars, sessionVars
<1>2. Typed /\ NamesDiffer /\ Fresh /\ Valid /\ Fitting
  BY DEF SessionInv
<1>3. Typed' /\ NamesDiffer' /\ Fresh' /\ Valid' /\ Fitting'
  <2>1. phase' \in Phases /\ (phase' \in Upstreaming => phase \in Upstreaming)
    BY <1>1, <1>2 DEF Typed
  <2>2. QED
    BY <1>1, <2>1, SequencesStay
<1>4. WindowsCover'
  BY <1>1 DEF SessionInv, WindowsCover, Covered, Frames
<1>5. Assembled'
  BY <1>1 DEF SessionInv, Assembled, Frames
<1>6. ThreadInv'
  <2> SUFFICES ASSUME phase \in Threading PROVE (ThreadsTyped /\ QueueTyped /\ Owners /\ CutsSealed)'
    BY <1>1 DEF ThreadInv
  <2>1. ThreadsTyped /\ QueueTyped /\ Owners /\ CutsSealed
    BY DEF SessionInv, ThreadInv
  <2>2. ThreadsTyped'
    BY <1>1, <2>1 DEF ThreadsTyped, SealedThread, Active
  <2>3. QueueTyped'
    BY <1>1, <2>1 DEF QueueTyped, Waiting, Active, Positions, Frames
  <2>4. Owners'
    BY <1>1, <2>1 DEF Owners, Active
  <2>5. CutsSealed'
    BY <1>1, <2>1, CutsStay
  <2>6. QED
    BY <2>2, <2>3, <2>4, <2>5
<1>7. Wave'
  BY <1>1 DEF SessionInv, Wave, Handled, Current, Active, Names
<1>8. Totals' /\ CountsOnce'
  BY <1>1 DEF SessionInv, Totals, CountsOnce
<1>9. MinimaFail'
  <2>1. phase # "internal"
    BY <1>2 DEF Typed, Phases, Upstreaming, Reading, Threading
  <2>2. QED
    BY <1>1, <2>1, MinimaStay
<1>10. SeamsMarkInterruptions'
  BY <1>1 DEF SessionInv, SeamsMarkInterruptions, Active
<1>11. QED
  BY <1>3, <1>4, <1>5, <1>6, <1>7, <1>8, <1>9, <1>10 DEF SessionInv

-------------------------------------------------------------------------------
(* The halves of a sequence                                                *)

\* The sequence to be cut is one of those that can be: the longest, the first of equals.
LEMMA ParentChosen ==
  ASSUME Typed, NEW f, Splittable(f) # {}
  PROVE  /\ Parent(f) \in Splittable(f) /\ Parent(f) \in DOMAIN items /\ Active(items[Parent(f)])
         /\ Cardinality(items[Parent(f)].pos) > 1
<1> DEFINE S == Splittable(f)
           M == {Cardinality(items[i].pos) : i \in S}
           m == Max(M)
           T == {i \in S : Cardinality(items[i].pos) = m}
           L == {Min(items[i].pos) : i \in T}
           l == Min(L)
<1>1. /\ \A i \in S : /\ i \in DOMAIN items /\ Active(items[i]) /\ Cardinality(items[i].pos) > 1
                      /\ Cardinality(items[i].pos) \in Nat /\ Min(items[i].pos) \in Nat
      /\ IsFiniteSet(S)
  <2>1. S \in SUBSET (DOMAIN items) /\ IsFiniteSet(DOMAIN items)
    BY Typedness, FS_Interval DEF Splittable
  <2>2. IsFiniteSet(S)
    BY <2>1, FS_Subset
  <2>3. \A i \in DOMAIN items : Cardinality(items[i].pos) \in Nat /\ Min(items[i].pos) \in Nat
    <3> SUFFICES ASSUME NEW i \in DOMAIN items
                 PROVE  Cardinality(items[i].pos) \in Nat /\ Min(items[i].pos) \in Nat
      OBVIOUS
    <3>1. cfg \in Configs /\ items[i].pos \in SUBSET Positions /\ items[i].pos # {}
      BY Typedness
    <3>2. QED
      BY <3>1, MembersFinite, PosExtremes
  <2>4. \A i \in S : i \in DOMAIN items /\ Active(items[i]) /\ Cardinality(items[i].pos) > 1
    BY DEF Splittable
  <2>5. QED
    BY <2>2, <2>3, <2>4
<1> HIDE DEF S
<1>2. m \in M /\ \A x \in M : m >= x
  <2> DEFINE g == [i \in S |-> Cardinality(items[i].pos)]
  <2>1. g = [x \in S |-> g[x]] /\ \A y \in M : \E x \in S : y = g[x]
    OBVIOUS
  <2>2. M # {} /\ M \in SUBSET Int
    BY <1>1 DEF S
  <2> HIDE DEF g, M
  <2>3. IsFiniteSet(M)
    BY <2>1, <1>1, ImageFinite
  <2>4. QED
    BY <2>2, <2>3, Extremes
<1> HIDE DEF m
<1>3. T # {} /\ T \in SUBSET S
  BY <1>2
<1>4. l \in L /\ \A x \in L : l <= x
  <2> DEFINE g == [i \in T |-> Min(items[i].pos)]
  <2>1. g = [x \in T |-> g[x]] /\ \A y \in L : \E x \in T : y = g[x]
    OBVIOUS
  <2>2. L # {} /\ L \in SUBSET Int
    BY <1>1, <1>3
  <2>3. IsFiniteSet(T)
    BY <1>1, <1>3, FS_Subset
  <2> HIDE DEF g, L, T
  <2>4. IsFiniteSet(L)
    BY <2>1, <2>3, ImageFinite
  <2>5. QED
    BY <2>2, <2>4, Extremes
<1> HIDE DEF l
<1>5. PICK i \in T : Min(items[i].pos) = l
  BY <1>4
<1>6. /\ i \in S /\ Cardinality(items[i].pos) = m
      /\ \A j \in S : Cardinality(items[j].pos) <= m
      /\ \A j \in S : Cardinality(items[j].pos) = m => Min(items[i].pos) <= Min(items[j].pos)
  BY <1>1, <1>2, <1>4, <1>5
<1>7. \A j \in S : \/ Cardinality(items[i].pos) > Cardinality(items[j].pos)
                   \/ Cardinality(items[i].pos) = Cardinality(items[j].pos)
                      /\ Min(items[i].pos) <= Min(items[j].pos)
  <2> SUFFICES ASSUME NEW j \in S
               PROVE  \/ Cardinality(items[i].pos) > Cardinality(items[j].pos)
                      \/ Cardinality(items[i].pos) = Cardinality(items[j].pos)
                         /\ Min(items[i].pos) <= Min(items[j].pos)
    OBVIOUS
  <2>1. Cardinality(items[j].pos) \in Nat /\ Cardinality(items[i].pos) \in Nat
        /\ Cardinality(items[j].pos) <= m
    BY <1>1, <1>6
  <2>2. QED
    BY <2>1, <1>6
<1>8. Parent(f) = CHOOSE k \in S : \A j \in S :
         \/ Cardinality(items[k].pos) > Cardinality(items[j].pos)
         \/ Cardinality(items[k].pos) = Cardinality(items[j].pos)
            /\ Min(items[k].pos) <= Min(items[j].pos)
  BY Zenon DEF Parent, S
<1>9. Parent(f) \in S
  BY <1>6, <1>7, <1>8, Zenon
<1>10. QED
  BY <1>1, <1>9 DEF S

\* A sequence in two halves: both keep its name, its bounds and its status.
HalfOf(c, e) ==
  /\ c \in Sequence /\ c.root = e.root /\ c.cut = c.pos /\ c.status = e.status
  /\ c.pos # {} /\ c.pos \subseteq e.pos
  /\ \A p \in c.pos : c.lower <= p /\ p < c.upper

\* A child of a cut is a half of its parent.
LEMMA ChildTyped ==
  ASSUME NEW e \in Sequence, NEW members \in SUBSET Nat, members # {}, members \subseteq e.pos,
         NEW first \in Nat, NEW right \in Nat, Cardinality(members) \in Nat,
         \A p \in e.pos : e.lower <= p /\ p < e.upper,
         IF Min(members) >= right THEN \A p \in members : right <= p ELSE \A p \in members : p < right
  PROVE  /\ HalfOf(Child(e, members, first, right), e)
         /\ Child(e, members, first, right).pos = members
         /\ Child(e, members, first, right).seams = SeamsWithin(e, first, Cardinality(members))
<1> DEFINE c == Child(e, members, first, right)
           w == SeamsWithin(e, first, Cardinality(members))
           lo == IF Min(members) >= right THEN right ELSE e.lower
           hi == IF Min(members) >= right THEN e.upper ELSE right
<1>1. w \in SUBSET Int
  BY DEF SeamsWithin, Sequence
<1>2. lo \in Nat /\ hi \in Nat
  BY DEF Sequence
<1>3. \A p \in members : lo <= p /\ p < hi
  OBVIOUS
<1>4. c = [e EXCEPT !.cut = members, !.pos = members, !.sealed = TRUE, !.lower = lo, !.upper = hi,
             !.seams = w]
  BY DEF Child
<1> HIDE DEF w, lo, hi, c
<1>5. /\ c \in Sequence /\ c.root = e.root /\ c.cut = members /\ c.pos = members /\ c.status = e.status
      /\ c.lower = lo /\ c.upper = hi /\ c.seams = w
  BY <1>1, <1>2, <1>4 DEF Sequence
<1>6. HalfOf(c, e)
  BY <1>3, <1>5 DEF HalfOf
<1>7. QED
  BY <1>5, <1>6 DEF c, w

\* The halves of a sequence of several members, listed by s.
CutAt(e, s, n, m) ==
  /\ Children(e) = <<Children(e)[1], Children(e)[2]>>
  /\ n \in Nat /\ m \in Nat /\ 0 < m /\ m < n
  /\ HalfOf(Children(e)[1], e) /\ HalfOf(Children(e)[2], e)
  /\ Children(e)[1].pos = {s[x] : x \in 1 .. m} /\ Children(e)[2].pos = {s[x] : x \in m + 1 .. n}
  /\ Cardinality(Children(e)[1].pos) = m /\ Cardinality(Children(e)[2].pos) = n - m
  /\ InOrder(Children(e)[1].pos) = [k \in 1 .. m |-> s[k]]
  /\ InOrder(Children(e)[2].pos) = [k \in 1 .. n - m |-> s[m + k]]
  /\ Children(e)[1].pos \union Children(e)[2].pos = e.pos
  /\ Children(e)[1].pos \cap Children(e)[2].pos = {}
  /\ Children(e)[1].seams = SeamsWithin(e, 0, m) /\ Children(e)[2].seams = SeamsWithin(e, m, n - m)

\* The members of a set in source order, as one fact.
Listing(S, s, n) ==
  /\ s \in Seq(S) /\ n = Cardinality(S) /\ DOMAIN s = 1 .. n /\ n \in Nat
  /\ \A i \in 1 .. n : s[i] \in S /\ s[i] \in Nat
  /\ \A i, j \in 1 .. n : i < j => s[i] < s[j]
  /\ \A x \in S : \E i \in 1 .. n : s[i] = x

\* The members of a sequence are listed in source order.
LEMMA MembersListed ==
  ASSUME cfg \in Configs, NEW S \in SUBSET Positions
  PROVE  Listing(S, InOrder(S), Len(InOrder(S)))
<1> DEFINE s == InOrder(S)
           n == Len(s)
<1>1. s = InOrder(S) /\ n = Len(s)
  OBVIOUS
<1> HIDE DEF s, n
<1>2. Listing(S, s, n)
  BY <1>1, MembersOrdered DEF Listing
<1>3. QED
  BY <1>1, <1>2

\* A cut makes two halves, the first members and the others.
LEMMA ChildrenHalve ==
  ASSUME cfg \in Configs, NEW e \in Sequence, e.pos \in SUBSET Positions, Cardinality(e.pos) > 1,
         \A p \in e.pos : e.lower <= p /\ p < e.upper,
         NEW s, s = InOrder(e.pos), NEW n, n = Len(s), NEW m, m = n \div 2
  PROVE  CutAt(e, s, n, m)
<1>0. e.pos \in SUBSET Nat
  BY MembersFinite
<1>1. /\ s \in Seq(e.pos) /\ n = Cardinality(e.pos) /\ DOMAIN s = 1 .. n /\ n \in Nat
      /\ \A i \in 1 .. n : s[i] \in e.pos /\ s[i] \in Nat
      /\ \A i, j \in 1 .. n : i < j => s[i] < s[j]
      /\ \A x \in e.pos : \E i \in 1 .. n : s[i] = x
  <2>1. Listing(e.pos, InOrder(e.pos), Len(InOrder(e.pos)))
    BY MembersListed
  <2>2. Listing(e.pos, s, n)
    BY Zenon, <2>1
  <2>3. QED
    BY <2>2 DEF Listing
<1>2. m \in Nat /\ 0 < m /\ m < n /\ n > 1 /\ n - m \in Nat /\ m + 1 \in 1 .. n
  <2>1. n > 1 /\ n \in Nat
    BY <1>1
  <2>2. m \in Nat /\ 0 < m /\ m < n
    BY <2>1
  <2>3. QED
    BY <2>1, <2>2
<1> DEFINE A == {s[x] : x \in 1 .. m}
           B == {s[x] : x \in m + 1 .. n}
           t == [k \in 1 .. m |-> s[k]]
           u == [k \in 1 .. n - m |-> s[m + k]]
           right == s[m + 1]
<1>3. Children(e) = <<Child(e, A, 0, right), Child(e, B, m, right)>>
  BY Zenon DEF Children
<1>4. A \in SUBSET e.pos /\ B \in SUBSET e.pos /\ A # {} /\ B # {} /\ A \cup B = e.pos
  <2>1. \A x \in 1 .. m : x \in 1 .. n
    BY <1>2
  <2>2. \A x \in m + 1 .. n : x \in 1 .. n
    BY <1>2
  <2>3. \A x \in 1 .. n : x \in 1 .. m \/ x \in m + 1 .. n
    BY <1>2
  <2>4. 1 \in 1 .. m /\ n \in m + 1 .. n
    BY <1>2
  <2>5. s[1] \in A /\ s[n] \in B
    BY <2>4
  <2>6. A \in SUBSET e.pos /\ B \in SUBSET e.pos
    <3>1. \A i \in 1 .. n : s[i] \in e.pos
      BY <1>1
    <3>2. \A x \in A : x \in e.pos
      BY <3>1, <2>1
    <3>3. \A x \in B : x \in e.pos
      BY <3>1, <2>2
    <3>4. QED
      BY <3>2, <3>3
  <2>7. \A x \in e.pos : x \in A \cup B
    BY <2>3, <1>1
  <2>8. QED
    BY <2>5, <2>6, <2>7
<1>5. right \in Nat /\ (\A p \in A : p < right) /\ (\A p \in B : right <= p)
  <2>1. \A x \in 1 .. m : x \in 1 .. n /\ x < m + 1
    BY <1>2
  <2>2. \A x \in m + 1 .. n : x \in 1 .. n /\ (x = m + 1 \/ m + 1 < x)
    BY <1>2
  <2>3. \A p \in A : p < right
    <3> SUFFICES ASSUME NEW x \in 1 .. m PROVE s[x] < right
      OBVIOUS
    <3>1. x \in 1 .. n /\ x < m + 1 /\ m + 1 \in 1 .. n
      BY <2>1, <1>2
    <3>2. QED
      BY <3>1, <1>1
  <2>4. \A p \in B : right <= p
    <3> SUFFICES ASSUME NEW x \in m + 1 .. n PROVE right <= s[x]
      OBVIOUS
    <3>1. CASE x = m + 1
      <4>1. s[m + 1] \in Nat
        BY <1>1, <1>2
      <4>2. QED
        BY <3>1, <4>1
    <3>2. CASE m + 1 < x
      <4>1. s[m + 1] < s[x] /\ s[m + 1] \in Nat /\ s[x] \in Nat
        BY <3>2, <2>2, <1>1, <1>2
      <4>2. QED
        BY <4>1
    <3>3. QED
      BY <2>2, <3>1, <3>2
  <2>5. QED
    BY <2>3, <2>4, <1>1, <1>2
<1>6. A \cap B = {}
  <2>1. A \in SUBSET Nat /\ B \in SUBSET Nat
    <3> HIDE DEF A, B
    <3>1. QED
      BY <1>4, <1>0
  <2> HIDE DEF A, B, right
  <2>2. QED
    BY <2>1, <1>5
<1>7. Cardinality(A) = m /\ InOrder(A) = t
  <2>1. t \in [1 .. m -> A]
    OBVIOUS
  <2>2. \A i, j \in 1 .. m : i < j => t[i] < t[j]
    <3>1. \A i \in 1 .. m : i \in 1 .. n /\ t[i] = s[i]
      BY <1>2
    <3>2. QED
      BY <3>1, <1>1
  <2>3. \A x \in A : \E i \in 1 .. m : t[i] = x
    OBVIOUS
  <2>4. A \in SUBSET Int
    <3> HIDE DEF A
    <3>1. QED
      BY <1>4, <1>0
  <2>5. m \in Nat
    BY <1>2
  <2> DEFINE d == m
  <2> HIDE DEF A, t, d
  <2>6. d \in Nat /\ t \in [1 .. d -> A] /\ (\A i, j \in 1 .. d : i < j => t[i] < t[j])
        /\ \A x \in A : \E i \in 1 .. d : t[i] = x
    BY <2>1, <2>2, <2>3, <2>5 DEF d
  <2>7. Cardinality(A) = d /\ InOrder(A) = t
    BY <2>4, <2>6, OneOrder
  <2>8. QED
    BY <2>7 DEF d
<1>8. Cardinality(B) = n - m /\ InOrder(B) = u
  <2>1. u \in [1 .. n - m -> B]
    <3>1. \A k \in 1 .. n - m : m + k \in m + 1 .. n
      BY <1>2
    <3>2. QED
      BY <3>1
  <2>2. \A i, j \in 1 .. n - m : i < j => u[i] < u[j]
    <3>1. \A i \in 1 .. n - m : m + i \in 1 .. n /\ u[i] = s[m + i]
      BY <1>2
    <3>2. \A i, j \in 1 .. n - m : i < j => m + i < m + j
      BY <1>2
    <3>3. QED
      BY <3>1, <3>2, <1>1
  <2>3. \A x \in B : \E i \in 1 .. n - m : u[i] = x
    <3>1. \A k \in m + 1 .. n : k - m \in 1 .. n - m /\ m + (k - m) = k
      BY <1>2
    <3>2. QED
      BY <3>1
  <2>4. B \in SUBSET Int
    <3> HIDE DEF B
    <3>1. QED
      BY <1>4, <1>0
  <2>5. n - m \in Nat
    BY <1>2
  <2> DEFINE d == n - m
  <2> HIDE DEF B, u, d
  <2>6. d \in Nat /\ u \in [1 .. d -> B] /\ (\A i, j \in 1 .. d : i < j => u[i] < u[j])
        /\ \A x \in B : \E i \in 1 .. d : u[i] = x
    BY <2>1, <2>2, <2>3, <2>5 DEF d
  <2>7. Cardinality(B) = d /\ InOrder(B) = u
    BY <2>4, <2>6, OneOrder
  <2>8. QED
    BY <2>7 DEF d
<1> HIDE DEF A, B, t, u, right
<1>10. /\ HalfOf(Child(e, A, 0, right), e) /\ Child(e, A, 0, right).pos = A
       /\ Child(e, A, 0, right).seams = SeamsWithin(e, 0, m)
  <2>1. ~ (Min(A) >= right)
    <3>1. Min(A) \in A
      <4>1. A \in SUBSET Positions /\ A # {}
        BY <1>4
      <4>2. QED
        BY <4>1, PosExtremes
    <3>2. Min(A) < right /\ Min(A) \in Nat
      BY <3>1, <1>4, <1>5, <1>0
    <3>3. QED
      BY <3>2, <1>5
  <2>2. A \in SUBSET Nat /\ Cardinality(A) \in Nat
    BY <1>2, <1>4, <1>7, <1>0
  <2>3. QED
    BY <2>1, <2>2, <1>4, <1>5, <1>7, ChildTyped
<1>11. /\ HalfOf(Child(e, B, m, right), e) /\ Child(e, B, m, right).pos = B
       /\ Child(e, B, m, right).seams = SeamsWithin(e, m, n - m)
  <2>1. Min(B) >= right
    <3>1. Min(B) \in B
      <4>1. B \in SUBSET Positions /\ B # {}
        BY <1>4
      <4>2. QED
        BY <4>1, PosExtremes
    <3>2. right <= Min(B) /\ Min(B) \in Nat
      BY <3>1, <1>4, <1>5, <1>0
    <3>3. QED
      BY <3>2, <1>5
  <2>2. B \in SUBSET Nat /\ Cardinality(B) \in Nat
    BY <1>2, <1>4, <1>8, <1>0
  <2>3. QED
    BY <2>1, <2>2, <1>2, <1>4, <1>5, <1>8, ChildTyped
<1> DEFINE c == Child(e, A, 0, right)
           d == Child(e, B, m, right)
<1> HIDE DEF c, d
<1>12. Children(e) = <<c, d>>
  BY <1>3 DEF c, d
<1>13. Children(e)[1] = c /\ Children(e)[2] = d
  BY <1>12
<1>14. QED
  <2>1. /\ Children(e) = <<Children(e)[1], Children(e)[2]>>
        /\ n \in Nat /\ m \in Nat /\ 0 < m /\ m < n
        /\ HalfOf(Children(e)[1], e) /\ HalfOf(Children(e)[2], e)
        /\ Children(e)[1].pos = A /\ Children(e)[2].pos = B
        /\ Children(e)[1].seams = SeamsWithin(e, 0, m)
           /\ Children(e)[2].seams = SeamsWithin(e, m, n - m)
    BY <1>1, <1>2, <1>10, <1>11, <1>12, <1>13 DEF c, d
  <2>2. Children(e)[1].pos \cup Children(e)[2].pos = e.pos
        /\ Children(e)[1].pos \cap Children(e)[2].pos = {}
    BY <2>1, <1>4, <1>6
  <2>3. Cardinality(Children(e)[1].pos) = m /\ Cardinality(Children(e)[2].pos) = n - m
        /\ InOrder(Children(e)[1].pos) = t /\ InOrder(Children(e)[2].pos) = u
    BY <2>1, <1>7, <1>8
  <2>4. QED
    BY <2>1, <2>2, <2>3 DEF A, B, t, u, CutAt

-------------------------------------------------------------------------------
(* The seams of the halves                                                 *)

\* Between two members next to each other lies a frame of somebody.
Gap(q, j, owned) == \E p \in q[j + 1] + 1 .. q[j + 2] - 1 : p \in owned

\* The members of a sequence, in source order, without their number.
LEMMA Ascending ==
  ASSUME cfg \in Configs, NEW S \in SUBSET Positions, NEW s, s = InOrder(S), NEW n, n = Len(s)
  PROVE  /\ DOMAIN s = 1 .. n /\ n \in Nat
         /\ \A i \in 1 .. n : s[i] \in S /\ s[i] \in Nat
         /\ \A i, j \in 1 .. n : i < j => s[i] < s[j]
         /\ \A x \in S : \E i \in 1 .. n : s[i] = x
<1>1. Listing(S, InOrder(S), Len(InOrder(S)))
  BY MembersListed
<1>2. Listing(S, s, n)
  BY Zenon, <1>1
<1>3. QED
  BY <1>2 DEF Listing

\* Between two neighbours of an ascending list there is no third of its elements.
LEMMA NoneBetween ==
  ASSUME NEW n \in Nat, NEW s, \A i \in 1 .. n : s[i] \in Nat,
         \A i, j \in 1 .. n : i < j => s[i] < s[j],
         NEW k \in Nat, k >= 1, k + 1 <= n, NEW p \in s[k] + 1 .. s[k + 1] - 1
  PROVE  \A i \in 1 .. n : s[i] # p
<1> SUFFICES ASSUME NEW i \in 1 .. n, s[i] = p PROVE FALSE
  OBVIOUS
<1>1. k \in 1 .. n /\ k + 1 \in 1 .. n /\ i \in Nat
  OBVIOUS
<1> DEFINE x == s[k]
           y == s[k + 1]
<1>2. x \in Nat /\ y \in Nat /\ p \in x + 1 .. y - 1
  BY <1>1
<1>3. p \in Int /\ x < p /\ p < y
  <2> HIDE DEF x, y
  <2>1. QED
    BY <1>2
<1>4. CASE i < k
  <2>1. p < x
    BY <1>1, <1>4
  <2>2. QED
    BY <2>1, <1>2, <1>3
<1>5. CASE k + 1 < i
  <2>1. y < p
    BY <1>1, <1>5
  <2>2. QED
    BY <2>1, <1>2, <1>3
<1>6. CASE i = k \/ i = k + 1
  <2>1. p = x \/ p = y
    BY <1>6
  <2>2. QED
    BY <2>1, <1>2, <1>3
<1>7. i < k \/ i = k \/ i = k + 1 \/ k + 1 < i
  BY <1>1
<1>8. QED
  BY <1>4, <1>5, <1>6, <1>7

\* Between two neighbours of a sequence there is no third of its members.
LEMMA NoneOther ==
  ASSUME cfg \in Configs, NEW S \in SUBSET Positions, NEW s, s = InOrder(S), NEW n, n = Len(s),
         NEW j \in 0 .. n - 2, NEW p \in s[j + 1] + 1 .. s[j + 2] - 1
  PROVE  p \notin S
<1>1. /\ n \in Nat
      /\ \A i \in 1 .. n : s[i] \in S /\ s[i] \in Nat
      /\ \A i, l \in 1 .. n : i < l => s[i] < s[l]
      /\ \A x \in S : \E i \in 1 .. n : s[i] = x
  <2>1. Listing(S, InOrder(S), Len(InOrder(S)))
    BY MembersListed
  <2>2. Listing(S, s, n)
    BY Zenon, <2>1
  <2>3. QED
    BY <2>2 DEF Listing
<1> DEFINE k == j + 1
<1>2. k \in Nat /\ k >= 1 /\ k + 1 <= n /\ k + 1 = j + 2
  BY <1>1
<1>3. p \in s[k] + 1 .. s[k + 1] - 1
  <2>1. k + 1 = j + 2
    BY <1>2
  <2>2. QED
    BY Zenon, <2>1
<1> HIDE DEF k
<1>4. \A i \in 1 .. n : s[i] # p
  <2>1. n \in Nat /\ \A i \in 1 .. n : s[i] \in Nat
    BY <1>1
  <2>2. \A i, l \in 1 .. n : i < l => s[i] < s[l]
    BY <1>1
  <2>3. k \in Nat /\ k >= 1 /\ k + 1 <= n
    BY <1>2
  <2>4. QED
    BY <2>1, <2>2, <2>3, <1>3, NoneBetween
<1>5. QED
  BY <1>1, <1>4

\* The seams of a half, taken from those of the parent, are the seams it would have on its own.
LEMMA HalfSeams ==
  ASSUME cfg \in Configs, NEW e \in Sequence, e.pos \in SUBSET Positions, NEW owned,
         e.seams = Foreign(e.pos, owned),
         NEW s, s = InOrder(e.pos), NEW n, n = Len(s), NEW first \in Nat, NEW len \in Nat,
         first + len <= n,
         NEW members, members \subseteq e.pos, NEW t, t = InOrder(members),
         t = [k \in 1 .. len |-> s[first + k]]
  PROVE  SeamsWithin(e, first, len) = Foreign(members, owned)
<1> DEFINE S == e.pos
<1>1. /\ DOMAIN s = 1 .. n /\ n \in Nat
      /\ \A i \in 1 .. n : s[i] \in S /\ s[i] \in Nat
      /\ \A i, j \in 1 .. n : i < j => s[i] < s[j]
      /\ \A x \in S : \E i \in 1 .. n : s[i] = x
  BY Ascending
<1>2. S \in SUBSET Nat
  BY MembersFinite
<1>3. Len(t) = len /\ \A k \in 1 .. len : t[k] = s[first + k]
  <2>1. t = [k \in 1 .. len |-> s[first + k]]
    OBVIOUS
  <2>2. QED
    BY <2>1
<1>4. ASSUME NEW j \in 0 .. n - 2, NEW p \in s[j + 1] + 1 .. s[j + 2] - 1 PROVE p \notin S
  BY NoneOther
<1>5. \A j : j \in Foreign(S, owned) <=> j \in 0 .. n - 2 /\ Gap(s, j, owned)
  <2>1. Foreign(S, owned) = {i \in 0 .. n - 2 : \E p \in s[i + 1] + 1 .. s[i + 2] - 1 : p \in owned \ S}
    BY DEF Foreign
  <2>2. \A j \in 0 .. n - 2 : (\E p \in s[j + 1] + 1 .. s[j + 2] - 1 : p \in owned \ S)
          <=> Gap(s, j, owned)
    BY <1>4 DEF Gap
  <2>3. QED
    BY <2>1, <2>2
<1>6. ASSUME NEW x \in 0 .. len - 2
      PROVE  first + x \in 0 .. n - 2 /\ t[x + 1] = s[first + x + 1] /\ t[x + 2] = s[first + x + 2]
  <2>1. x + 1 \in 1 .. len /\ x + 2 \in 1 .. len
    OBVIOUS
  <2>2. t[x + 1] = s[first + (x + 1)] /\ t[x + 2] = s[first + (x + 2)]
    BY <2>1, <1>3
  <2>3. first + (x + 1) = first + x + 1 /\ first + (x + 2) = first + x + 2
    OBVIOUS
  <2>4. first + x \in 0 .. n - 2
    BY <1>1
  <2>5. QED
    BY <2>2, <2>3, <2>4
<1>7. \A x : x \in Foreign(members, owned) <=> x \in 0 .. len - 2 /\ Gap(s, first + x, owned)
  <2>1. Foreign(members, owned) = {i \in 0 .. len - 2 :
                                     \E p \in t[i + 1] + 1 .. t[i + 2] - 1 : p \in owned \ members}
    BY <1>3 DEF Foreign
  <2>2. ASSUME NEW x \in 0 .. len - 2
        PROVE  (\E p \in t[x + 1] + 1 .. t[x + 2] - 1 : p \in owned \ members)
                 <=> Gap(s, first + x, owned)
    <3> DEFINE a == s[first + x + 1]
               b == s[first + x + 2]
    <3>1. t[x + 1] = a /\ t[x + 2] = b
      BY <2>2, <1>6
    <3>2. \A p \in a + 1 .. b - 1 : p \notin members
      BY <2>2, <1>4, <1>6
    <3>3. Gap(s, first + x, owned) <=> \E p \in a + 1 .. b - 1 : p \in owned
      BY DEF Gap
    <3> HIDE DEF a, b
    <3>4. QED
      BY <3>1, <3>2, <3>3
  <2>3. QED
    BY <2>1, <2>2
<1> DEFINE W == SeamsWithin(e, first, len)
<1>8. W = {i - first : i \in {j \in e.seams : first <= j /\ j < first + len - 1}}
  BY DEF SeamsWithin
<1>9. \A j \in e.seams : j \in 0 .. n - 2 /\ Gap(s, j, owned)
  BY <1>5
<1> HIDE DEF W
<1>10. ASSUME NEW x \in W PROVE x \in Foreign(members, owned)
  <2>1. PICK j \in e.seams : first <= j /\ j < first + len - 1 /\ x = j - first
    BY <1>8, <1>10
  <2>2. j \in 0 .. n - 2 /\ Gap(s, j, owned)
    BY <1>9
  <2>3. x \in 0 .. len - 2 /\ first + x = j
    BY <2>1, <2>2
  <2>4. QED
    BY <2>2, <2>3, <1>7
<1>11. ASSUME NEW x \in Foreign(members, owned) PROVE x \in W
  <2>1. x \in 0 .. len - 2 /\ Gap(s, first + x, owned)
    BY <1>7, <1>11
  <2>2. first + x \in 0 .. n - 2
    BY <2>1, <1>6
  <2>3. first + x \in e.seams
    BY <2>1, <2>2, <1>5
  <2>4. first <= first + x /\ first + x < first + len - 1 /\ x = (first + x) - first
    BY <2>1
  <2>5. QED
    BY <2>3, <2>4, <1>8
<1>12. QED
  BY <1>10, <1>11 DEF W

\* One element of a sequence is replaced by two.
TwoForOne(S, q, n, i, c, d, r) ==
  /\ n \in Nat /\ r \in Seq(S) /\ Len(r) = n + 1 /\ DOMAIN r = 1 .. n + 1
  /\ \A k \in 1 .. n + 1 : r[k] = IF k < i THEN q[k] ELSE IF k = i THEN c 
                               ELSE IF k = i + 1 THEN d ELSE q[k - 1]

\* A list with one element replaced by two.
LEMMA Replaced ==
  ASSUME NEW S, NEW q \in Seq(S), NEW n, n = Len(q), NEW i \in 1 .. n, NEW c \in S, NEW d \in S,
         NEW r, r = SubSeq(q, 1, i - 1) \o <<c, d>> \o SubSeq(q, i + 1, n)
  PROVE  TwoForOne(S, q, n, i, c, d, r)
<1> DEFINE a == SubSeq(q, 1, i - 1)
           h == <<c, d>>
           b == SubSeq(q, i + 1, n)
<1>1. n \in Nat /\ DOMAIN q = 1 .. n /\ i \in Nat /\ i >= 1 /\ i <= n
  BY LenProperties
<1>2. \A k \in 1 .. n : q[k] \in S
  BY ElementOfSeq
<1>3. a \in Seq(S) /\ Len(a) = i - 1 /\ \A k \in 1 .. i - 1 : a[k] = q[k]
  <2> DEFINE l == i - 1
  <2>1. l \in Int /\ l <= n /\ l >= 0
    BY <1>1
  <2>2. \A k \in 1 .. l : q[k] \in S
    BY <1>1, <1>2
  <2> HIDE DEF l
  <2>3. SubSeq(q, 1, l) \in Seq(S) /\ Len(SubSeq(q, 1, l)) = (IF 1 <= l THEN l - 1 + 1 ELSE 0)
        /\ \A k \in 1 .. l - 1 + 1 : SubSeq(q, 1, l)[k] = q[1 + k - 1]
    BY <2>1, <2>2, SubSeqProperties
  <2>4. Len(SubSeq(q, 1, l)) = l /\ \A k \in 1 .. l : SubSeq(q, 1, l)[k] = q[k]
    BY <2>1, <2>3
  <2>5. QED
    BY <2>3, <2>4 DEF l
<1>4. b \in Seq(S) /\ Len(b) = n - i /\ \A k \in 1 .. n - i : b[k] = q[i + k]
  <2> DEFINE l == i + 1
  <2>1. l \in Int /\ l >= 1 /\ l <= n + 1
    BY <1>1
  <2>2. \A k \in l .. n : q[k] \in S
    BY <1>1, <1>2
  <2>3. n - l + 1 = n - i /\ \A k \in 1 .. n - i : l + k - 1 = i + k
    BY <1>1
  <2> HIDE DEF l
  <2>4. SubSeq(q, l, n) \in Seq(S) /\ Len(SubSeq(q, l, n)) = (IF l <= n THEN n - l + 1 ELSE 0)
        /\ \A k \in 1 .. n - l + 1 : SubSeq(q, l, n)[k] = q[l + k - 1]
    BY <2>1, <2>2, <1>1, SubSeqProperties
  <2>5. Len(SubSeq(q, l, n)) = n - i /\ \A k \in 1 .. n - i : SubSeq(q, l, n)[k] = q[i + k]
    BY <2>1, <2>3, <2>4, <1>1 DEF l
  <2>6. QED
    BY <2>4, <2>5 DEF l
<1>5. h \in Seq(S) /\ Len(h) = 2 /\ h[1] = c /\ h[2] = d
  OBVIOUS
<1>6. r = (a \o h) \o b
  OBVIOUS
<1> HIDE DEF a, h, b
<1> DEFINE g == a \o h
<1>7. g \in Seq(S) /\ Len(g) = i + 1
      /\ \A k \in 1 .. i + 1 : g[k] = IF k <= i - 1 THEN a[k] ELSE h[k - (i - 1)]
  <2>1. g \in Seq(S) /\ Len(g) = Len(a) + Len(h)
        /\ \A k \in 1 .. Len(a) + Len(h) : g[k] = IF k <= Len(a) THEN a[k] ELSE h[k - Len(a)]
    BY <1>3, <1>5, ConcatProperties
  <2>2. Len(a) + Len(h) = i + 1
    BY <1>1, <1>3, <1>5
  <2>3. QED
    BY <2>1, <2>2, <1>3
<1> HIDE DEF g
<1>8. r \in Seq(S) /\ Len(r) = n + 1
      /\ \A k \in 1 .. n + 1 : r[k] = IF k <= i + 1 THEN g[k] ELSE b[k - (i + 1)]
  <2>1. (g \o b) \in Seq(S) /\ Len(g \o b) = Len(g) + Len(b)
        /\ \A k \in 1 .. Len(g) + Len(b) : (g \o b)[k] = IF k <= Len(g) THEN g[k] ELSE b[k - Len(g)]
    BY <1>4, <1>7, ConcatProperties
  <2>2. Len(g) + Len(b) = n + 1
    BY <1>1, <1>4, <1>7
  <2>3. r = g \o b
    BY <1>6 DEF g
  <2>4. QED
    BY <2>1, <2>2, <2>3, <1>7
<1>9. ASSUME NEW k \in 1 .. n + 1
      PROVE  r[k] = IF k < i THEN q[k] ELSE IF k = i THEN c ELSE IF k = i + 1 THEN d ELSE q[k - 1]
  <2>1. CASE k < i
    <3>1. k \in 1 .. i - 1 /\ k <= i + 1 /\ k \in 1 .. i + 1 /\ k <= i - 1
      BY <2>1, <1>1
    <3>2. r[k] = g[k]
      BY <3>1, <1>8
    <3>3. g[k] = a[k]
      BY <3>1, <1>7
    <3>4. a[k] = q[k]
      BY <3>1, <1>3
    <3>5. QED
      BY <2>1, <3>2, <3>3, <3>4
  <2>2. CASE k = i \/ k = i + 1
    <3> DEFINE l == k - (i - 1)
    <3>1. k \in 1 .. i + 1 /\ ~(k <= i - 1) /\ k <= i + 1
      BY <2>2, <1>1
    <3>2. l = IF k = i THEN 1 ELSE 2
      BY <2>2, <1>1
    <3>3. r[k] = g[k]
      BY <3>1, <1>8
    <3>4. g[k] = h[l]
      BY <3>1, <1>7
    <3> HIDE DEF l
    <3>5. h[l] = IF k = i THEN c ELSE d
      BY <3>2, <1>5
    <3>6. ~(k < i) /\ (k # i => k = i + 1)
      BY <2>2, <1>1
    <3>7. QED
      BY <3>3, <3>4, <3>5, <3>6
  <2>3. CASE k > i + 1
    <3> DEFINE l == k - (i + 1)
    <3>1. l \in 1 .. n - i /\ ~(k <= i + 1) /\ i + l = k - 1
      BY <2>3, <1>1
    <3>2. r[k] = b[l]
      BY <3>1, <1>8
    <3> HIDE DEF l
    <3>3. b[l] = q[i + l]
      BY <3>1, <1>4
    <3>4. b[l] = q[k - 1]
      BY <3>1, <3>3
    <3>5. ~(k < i) /\ k # i /\ k # i + 1
      BY <2>3, <1>1
    <3>6. QED
      BY <3>2, <3>4, <3>5
  <2>4. k < i \/ k = i \/ k = i + 1 \/ k > i + 1
    BY <1>1
  <2>5. QED
    BY <2>1, <2>2, <2>3, <2>4
<1>10. DOMAIN r = 1 .. n + 1
  BY <1>8, LenProperties
<1>11. QED
  BY <1>1, <1>8, <1>9, <1>10 DEF TwoForOne

-------------------------------------------------------------------------------
(* One sequence gives way to its halves                                    *)

\* Where the sequence at an index was before sequence i was cut.
Origin(i, k) == IF k <= i THEN k ELSE k - 1
Halved(i, c, d) ==
  /\ i \in DOMAIN items /\ Active(items[i]) /\ HalfOf(c, items[i]) /\ HalfOf(d, items[i])
  /\ c.pos \cup d.pos = items[i].pos /\ c.pos \cap d.pos = {}
  /\ \A owned : items[i].seams = Foreign(items[i].pos, owned) =>
       c.seams = Foreign(c.pos, owned) /\ d.seams = Foreign(d.pos, owned)
Replacing(i, c, d) ==
  /\ items' \in Seq(Sequence) /\ Len(items') = Len(items) + 1
  /\ i \in DOMAIN items' /\ i + 1 \in DOMAIN items' /\ items'[i] = c /\ items'[i + 1] = d
  /\ \A k \in DOMAIN items' : k = i \/ k = i + 1 \/ k \in DOMAIN items' \ {i, i + 1}
  /\ \A k \in DOMAIN items' \ {i, i + 1} : /\ Origin(i, k) \in DOMAIN items \ {i}
                                           /\ items'[k] = items[Origin(i, k)]
  /\ \A k, l \in DOMAIN items' \ {i, i + 1} : k # l => Origin(i, k) # Origin(i, l)
  /\ \A j \in DOMAIN items \ {i} :
       \E k \in DOMAIN items' \ {i, i + 1} : Origin(i, k) = j /\ items'[k] = items[j]

\* The children of an episode are halves of it.
LEMMA CutHalves ==
  ASSUME SessionInv, NEW i \in DOMAIN items, Active(items[i]), Cardinality(items[i].pos) > 1,
         NEW c, c = Children(items[i])[1], NEW d, d = Children(items[i])[2]
  PROVE  Halved(i, c, d) /\ Children(items[i]) = <<c, d>>
<1> DEFINE e == items[i]
           s == InOrder(e.pos)
           n == Len(s)
           m == n \div 2
<1>1. cfg \in Configs /\ e \in Sequence /\ e.pos \in SUBSET Positions
  BY Typedness DEF SessionInv
<1>2. \A p \in e.pos : e.lower <= p /\ p < e.upper
  BY DEF SessionInv, Valid, Claiming, Active
<1>3. Cardinality(e.pos) > 1 /\ c = Children(e)[1] /\ d = Children(e)[2] /\ Active(e)
  OBVIOUS
<1>4. s = InOrder(e.pos) /\ n = Len(s) /\ m = n \div 2
  OBVIOUS
<1> HIDE DEF e, s, n, m
<1>11. CutAt(e, s, n, m)
  BY <1>1, <1>2, <1>3, <1>4, ChildrenHalve
<1>5. /\ Children(e) = <<Children(e)[1], Children(e)[2]>>
      /\ n \in Nat /\ m \in Nat /\ 0 < m /\ m < n
      /\ HalfOf(Children(e)[1], e) /\ HalfOf(Children(e)[2], e)
      /\ Children(e)[1].pos = {s[x] : x \in 1 .. m} /\ Children(e)[2].pos = {s[x] : x \in m + 1 .. n}
      /\ Cardinality(Children(e)[1].pos) = m /\ Cardinality(Children(e)[2].pos) = n - m
      /\ InOrder(Children(e)[1].pos) = [k \in 1 .. m |-> s[k]]
      /\ InOrder(Children(e)[2].pos) = [k \in 1 .. n - m |-> s[m + k]]
      /\ Children(e)[1].pos \union Children(e)[2].pos = e.pos
      /\ Children(e)[1].pos \cap Children(e)[2].pos = {}
      /\ Children(e)[1].seams = SeamsWithin(e, 0, m) /\ Children(e)[2].seams = SeamsWithin(e, m, n - m)
  BY <1>11, Zenon DEF CutAt
<1>6. ASSUME NEW owned, e.seams = Foreign(e.pos, owned) PROVE c.seams = Foreign(c.pos, owned)
  <2> DEFINE t == InOrder(c.pos)
             z == 0
  <2>1. t = [k \in 1 .. m |-> s[k]]
    BY <1>3, <1>5
  <2>2. \A k \in 1 .. m : s[k] = s[z + k]
    <3>1. \A k \in 1 .. m : k = z + k
      OBVIOUS
    <3>2. QED
      BY <3>1
  <2>3. t = [k \in 1 .. m |-> s[z + k]]
    BY <2>1, <2>2
  <2>4. z \in Nat /\ m \in Nat /\ z + m <= n /\ c.pos \subseteq e.pos /\ t = InOrder(c.pos)
    BY <1>3, <1>5 DEF HalfOf
  <2>5. c.seams = SeamsWithin(e, z, m)
    BY <1>3, <1>5
  <2> HIDE DEF t, z
  <2>6. SeamsWithin(e, z, m) = Foreign(c.pos, owned)
    BY <2>3, <2>4, <1>1, <1>4, <1>6, HalfSeams
  <2>7. QED
    BY <2>5, <2>6
<1>7. ASSUME NEW owned, e.seams = Foreign(e.pos, owned) PROVE d.seams = Foreign(d.pos, owned)
  <2> DEFINE t == InOrder(d.pos)
             l == n - m
  <2>1. t = [k \in 1 .. l |-> s[m + k]]
    BY <1>3, <1>5
  <2>2. l \in Nat /\ m \in Nat /\ m + l <= n /\ d.pos \subseteq e.pos /\ t = InOrder(d.pos)
    BY <1>3, <1>5 DEF HalfOf
  <2>3. d.seams = SeamsWithin(e, m, l)
    BY <1>3, <1>5
  <2> HIDE DEF t, l
  <2>4. SeamsWithin(e, m, l) = Foreign(d.pos, owned)
    BY <2>1, <2>2, <1>1, <1>4, <1>7, HalfSeams
  <2>5. QED
    BY <2>3, <2>4
<1>8. /\ HalfOf(c, e) /\ HalfOf(d, e) /\ c.pos \cup d.pos = e.pos /\ c.pos \cap d.pos = {}
      /\ Children(e) = <<c, d>>
  BY <1>3, <1>5
<1>9. \A owned : e.seams = Foreign(e.pos, owned) =>
         c.seams = Foreign(c.pos, owned) /\ d.seams = Foreign(d.pos, owned)
  BY <1>6, <1>7
<1>10. QED
  BY <1>3, <1>8, <1>9 DEF Halved, e

\* Putting them in its place moves the later sequences by one.
LEMMA CutReplaces ==
  ASSUME Typed, NEW i \in DOMAIN items, NEW c \in Sequence, NEW d \in Sequence,
         items' = SubSeq(items, 1, i - 1) \o <<c, d>> \o SubSeq(items, i + 1, Len(items))
  PROVE  Replacing(i, c, d)
<1> DEFINE n == Len(items)
<1>1. items \in Seq(Sequence) /\ i \in 1 .. n /\ DOMAIN items = 1 .. n
  BY Typedness DEF Typed
<1>2. items' = SubSeq(items, 1, i - 1) \o <<c, d>> \o SubSeq(items, i + 1, n) /\ n = Len(items)
  OBVIOUS
<1> HIDE DEF n
<1>12. TwoForOne(Sequence, items, n, i, c, d, items')
  BY <1>1, <1>2, Replaced
<1>3. /\ n \in Nat /\ items' \in Seq(Sequence) /\ Len(items') = n + 1 /\ DOMAIN items' = 1 .. n + 1
      /\ \A k \in 1 .. n + 1 : items'[k] = IF k < i THEN items[k] ELSE IF k = i THEN c
                                           ELSE IF k = i + 1 THEN d ELSE items[k - 1]
  BY <1>12 DEF TwoForOne
<1>4. /\ i \in 1 .. n + 1 /\ i + 1 \in 1 .. n + 1 /\ ~(i < i) /\ ~(i + 1 < i) /\ i + 1 # i
  BY <1>1, <1>3
<1>5. items'[i] = c /\ items'[i + 1] = d
  BY <1>3, <1>4
<1>6. ASSUME NEW k \in (1 .. n + 1) \ {i, i + 1}
      PROVE  Origin(i, k) \in (1 .. n) \ {i} /\ items'[k] = items[Origin(i, k)]
  <2>1. CASE k < i
    <3>1. Origin(i, k) = k /\ k \in (1 .. n) \ {i}
      BY <2>1, <1>1, <1>3 DEF Origin
    <3>2. QED
      BY <2>1, <3>1, <1>3
  <2>2. CASE k > i + 1
    <3>1. Origin(i, k) = k - 1 /\ k - 1 \in (1 .. n) \ {i} /\ ~(k < i) /\ k # i /\ k # i + 1
      BY <2>2, <1>1, <1>3 DEF Origin
    <3>2. items'[k] = items[k - 1]
      BY <3>1, <1>3
    <3>3. QED
      BY <3>1, <3>2
  <2>3. k < i \/ k > i + 1
    <3>1. k \in Int /\ k # i /\ k # i + 1 /\ i \in Int
      BY <1>1, <1>3
    <3>2. QED
      BY <3>1
  <2>4. QED
    BY <2>1, <2>2, <2>3
<1>7. \A k, l \in (1 .. n + 1) \ {i, i + 1} : k # l => Origin(i, k) # Origin(i, l)
  BY <1>1, <1>3 DEF Origin
<1>8. ASSUME NEW j \in (1 .. n) \ {i}
      PROVE  \E k \in (1 .. n + 1) \ {i, i + 1} : Origin(i, k) = j
  <2>1. CASE j < i
    <3>1. j \in (1 .. n + 1) \ {i, i + 1} /\ Origin(i, j) = j
      BY <2>1, <1>1, <1>3 DEF Origin
    <3>2. QED
      BY <3>1
  <2>2. CASE j > i
    <3>1. j + 1 \in (1 .. n + 1) \ {i, i + 1} /\ Origin(i, j + 1) = j
      BY <2>2, <1>1, <1>3 DEF Origin
    <3>2. QED
      BY <3>1
  <2>3. QED
    BY <2>1, <2>2, <1>1, <1>3
<1>9. \A j \in (1 .. n) \ {i} :
        \E k \in (1 .. n + 1) \ {i, i + 1} : Origin(i, k) = j /\ items'[k] = items[j]
  BY <1>6, <1>8
<1>10. Len(items') = Len(items) + 1
  BY <1>3 DEF n
<1>11. QED
  BY <1>1, <1>3, <1>4, <1>5, <1>6, <1>7, <1>9, <1>10 DEF Replacing

\* A cut keeps the type invariant.
LEMMA CutTyped ==
  ASSUME SessionInv, NEW i, NEW c, NEW d, Halved(i, c, d), Replacing(i, c, d),
         UNCHANGED <<cfg, frames>>, phase' = "advance"
  PROVE  Typed'
<1>1. Positions' = Positions
  BY DEF Positions, Frames
<1>2. items[i].pos \subseteq Positions /\ cfg \in Configs /\ frames \in [Positions -> FrameStates]
  BY DEF SessionInv, Typed, Halved
<1>3. \A k \in DOMAIN items' : items'[k].pos # {} /\ items'[k].pos \subseteq Positions
  <2> SUFFICES ASSUME NEW k \in DOMAIN items'
               PROVE  items'[k].pos # {} /\ items'[k].pos \subseteq Positions
    OBVIOUS
  <2>1. c.pos # {} /\ c.pos \subseteq items[i].pos /\ d.pos # {} /\ d.pos \subseteq items[i].pos
    BY DEF Halved, HalfOf
  <2>2. CASE k = i
    BY <2>1, <2>2, <1>2 DEF Replacing
  <2>3. CASE k = i + 1
    BY <2>1, <2>3, <1>2 DEF Replacing
  <2>4. CASE k \in DOMAIN items' \ {i, i + 1}
    <3>1. Origin(i, k) \in DOMAIN items /\ items'[k] = items[Origin(i, k)]
      BY <2>4 DEF Replacing
    <3>2. QED
      BY <3>1 DEF SessionInv, Typed
  <2>5. QED
    BY <2>2, <2>3, <2>4
<1>4. items' \in Seq(Sequence) /\ phase' \in Phases
  BY DEF Replacing, Phases
<1>5. QED
  BY <1>1, <1>2, <1>3, <1>4 DEF Typed

\* The name of a half is nobody else's: its members are in no other sequence.
LEMMA HalfNamed ==
  ASSUME SessionInv, NEW i, NEW c, NEW d, Halved(i, c, d), NEW h \in {c, d},
         NEW j \in DOMAIN items \ {i}
  PROVE  ~SameName(h, items[j])
<1>1. h.cut = h.pos /\ h.pos # {} /\ h.pos \subseteq items[i].pos /\ i \in DOMAIN items
      /\ Active(items[i])
  BY DEF Halved, HalfOf
<1> SUFFICES ASSUME SameName(h, items[j]) PROVE FALSE
  OBVIOUS
<1>2. items[j].cut = h.pos
  BY <1>1 DEF SameName
<1>3. items[j].pos = h.pos /\ items[j].status # "stitched"
  BY <1>1, <1>2 DEF SessionInv, NamesDiffer
<1>4. i \in Claiming /\ j \in Claiming /\ i # j
  BY <1>1, <1>3 DEF Claiming, Active
<1>5. items[i].pos \cap items[j].pos = {}
  BY <1>4 DEF SessionInv, Valid
<1>6. QED
  BY <1>1, <1>3, <1>5

\* A cut keeps the names of the sequences apart: the halves are named by what they have.
LEMMA CutNamesDiffer ==
  ASSUME SessionInv, NEW i, NEW c, NEW d, Halved(i, c, d), Replacing(i, c, d)
  PROVE  NamesDiffer'
<1>1. /\ c.root = items[i].root /\ d.root = items[i].root /\ c.cut = c.pos /\ d.cut = d.pos
      /\ c.status = "active" /\ d.status = "active" /\ c.pos # {} /\ d.pos # {} /\ c.pos \cap d.pos = {}
      /\ i \in DOMAIN items /\ items[i].root # {}
  BY DEF Halved, HalfOf, Active, SessionInv, NamesDiffer
<1>2. ASSUME NEW k \in DOMAIN items'
      PROVE  /\ items'[k].root # {}
             /\ items'[k].cut # {} => items'[k].pos = items'[k].cut /\ items'[k].status # "stitched"
  <2>1. CASE k = i \/ k = i + 1
    <3>1. items'[k] = c \/ items'[k] = d
      BY <2>1 DEF Replacing
    <3>2. QED
      BY <3>1, <1>1
  <2>2. CASE k \in DOMAIN items' \ {i, i + 1}
    <3>1. Origin(i, k) \in DOMAIN items /\ items'[k] = items[Origin(i, k)]
      BY <2>2 DEF Replacing
    <3>2. QED
      BY <3>1 DEF SessionInv, NamesDiffer
  <2>3. QED
    BY <2>1, <2>2
<1>3. ~SameName(c, d)
  BY <1>1 DEF SameName
<1>4. \A x, y : SameName(x, y) => SameName(y, x)
  BY DEF SameName
<1>5. \A h \in {c, d} : \A j \in DOMAIN items \ {i} : ~SameName(h, items[j])
  BY HalfNamed
<1>6. ASSUME NEW k \in DOMAIN items', NEW l \in DOMAIN items' \ {i, i + 1}, k # l
      PROVE  ~SameName(items'[k], items'[l])
  <2>1. Origin(i, l) \in DOMAIN items \ {i} /\ items'[l] = items[Origin(i, l)]
    BY DEF Replacing
  <2>2. CASE k = i \/ k = i + 1
    <3>1. items'[k] = c \/ items'[k] = d
      BY <2>2 DEF Replacing
    <3>2. QED
      BY <3>1, <2>1, <1>5
  <2>3. CASE k \in DOMAIN items' \ {i, i + 1}
    <3>1. Origin(i, k) \in DOMAIN items \ {i} /\ items'[k] = items[Origin(i, k)]
          /\ Origin(i, k) # Origin(i, l)
      BY <2>3, <1>6 DEF Replacing
    <3>2. QED
      BY <3>1, <2>1 DEF SessionInv, NamesDiffer
  <2>4. QED
    BY <2>2, <2>3
<1>7. ASSUME NEW k \in DOMAIN items', NEW l \in DOMAIN items', k # l
      PROVE  ~SameName(items'[k], items'[l])
  <2>1. CASE l \in DOMAIN items' \ {i, i + 1}
    BY <2>1, <1>6, <1>7
  <2>2. CASE k \in DOMAIN items' \ {i, i + 1}
    BY <2>2, <1>4, <1>6, <1>7
  <2>3. CASE (k = i \/ k = i + 1) /\ (l = i \/ l = i + 1)
    <3>1. (items'[k] = c /\ items'[l] = d) \/ (items'[k] = d /\ items'[l] = c)
      BY <2>3, <1>7 DEF Replacing
    <3>2. QED
      BY <3>1, <1>3, <1>4
  <2>4. QED
    BY <2>1, <2>2, <2>3
<1>8. QED
  BY <1>2, <1>7 DEF NamesDiffer, SameName

-------------------------------------------------------------------------------
(* A cut keeps claims, seams and names                                     *)

\* A cut keeps the claims: the halves claim what the parent did.
LEMMA CutValid ==
  ASSUME SessionInv, NEW i, NEW c, NEW d, Halved(i, c, d), Replacing(i, c, d), UNCHANGED <<cfg, frames>>
  PROVE  Valid'
<1>1. /\ i \in Claiming /\ c.status = "active" /\ d.status = "active" /\ c.pos # {} /\ d.pos # {}
      /\ c.pos \cap d.pos = {} /\ c.pos \cup d.pos = items[i].pos
      /\ \A p \in c.pos : c.lower <= p /\ p < c.upper
      /\ \A p \in d.pos : d.lower <= p /\ p < d.upper
  BY DEF Halved, HalfOf, Active, Claiming
<1>2. /\ items'[i] = c /\ items'[i + 1] = d /\ i \in DOMAIN items' /\ i + 1 \in DOMAIN items'
      /\ \A k \in DOMAIN items' : k = i \/ k = i + 1 \/ k \in DOMAIN items' \ {i, i + 1}
  BY DEF Replacing
<1>3. ASSUME NEW k \in Claiming', k \notin {i, i + 1}
      PROVE  k \in DOMAIN items' \ {i, i + 1} /\ Origin(i, k) \in Claiming \ {i}
             /\ items'[k] = items[Origin(i, k)]
  <2>1. k \in DOMAIN items' \ {i, i + 1} /\ items'[k].status # "stitched"
    BY <1>3 DEF Claiming
  <2>2. Origin(i, k) \in DOMAIN items \ {i} /\ items'[k] = items[Origin(i, k)]
    BY <2>1 DEF Replacing
  <2>3. QED
    BY <2>1, <2>2 DEF Claiming
<1>4. /\ \A j \in Claiming :
           items[j].pos # {} /\ \A p \in items[j].pos : items[j].lower <= p /\ p < items[j].upper
      /\ \A j, l \in Claiming : j # l => items[j].pos \cap items[l].pos = {}
      /\ {p \in Positions : frames[p] = "absorbed"} = UNION {items[j].pos : j \in Claiming}
  BY DEF SessionInv, Valid
<1>5. ASSUME NEW k \in Claiming'
      PROVE  items'[k].pos # {} /\ \A p \in items'[k].pos : items'[k].lower <= p /\ p < items'[k].upper
  <2>1. CASE k = i
    BY <2>1, <1>1, <1>2
  <2>2. CASE k = i + 1
    BY <2>2, <1>1, <1>2
  <2>3. CASE k \notin {i, i + 1}
    BY <2>3, <1>3, <1>4
  <2>4. QED
    BY <2>1, <2>2, <2>3
<1>6. ASSUME NEW k \in Claiming', NEW l \in Claiming', k # l, l \notin {i, i + 1}
      PROVE  items'[k].pos \cap items'[l].pos = {}
  <2>1. Origin(i, l) \in Claiming \ {i} /\ items'[l] = items[Origin(i, l)]
        /\ l \in DOMAIN items' \ {i, i + 1}
    BY <1>3, <1>6
  <2>2. items[i].pos \cap items'[l].pos = {}
    BY <2>1, <1>1, <1>4
  <2>3. CASE k = i \/ k = i + 1
    <3>1. items'[k].pos \subseteq items[i].pos
      BY <2>3, <1>1, <1>2
    <3>2. QED
      BY <3>1, <2>2
  <2>4. CASE k \notin {i, i + 1}
    <3>1. Origin(i, k) \in Claiming /\ items'[k] = items[Origin(i, k)]
          /\ k \in DOMAIN items' \ {i, i + 1}
      BY <2>4, <1>3
    <3>2. Origin(i, k) # Origin(i, l)
      BY <3>1, <2>1, <1>6 DEF Replacing
    <3>3. QED
      BY <3>1, <3>2, <2>1, <1>4
  <2>5. QED
    BY <2>3, <2>4
<1>7. ASSUME NEW k \in Claiming', NEW l \in Claiming', k # l PROVE items'[k].pos \cap items'[l].pos = {}
  <2>1. CASE l \notin {i, i + 1}
    BY <2>1, <1>6, <1>7
  <2>2. CASE k \notin {i, i + 1}
    <3>1. items'[l].pos \cap items'[k].pos = {}
      BY <2>2, <1>6, <1>7
    <3>2. QED
      BY <3>1
  <2>3. CASE k \in {i, i + 1} /\ l \in {i, i + 1}
    BY <2>3, <1>1, <1>2, <1>7
  <2>4. QED
    BY <2>1, <2>2, <2>3
<1>8. UNION {items'[k].pos : k \in Claiming'} = UNION {items[j].pos : j \in Claiming}
  <2>1. ASSUME NEW k \in Claiming' PROVE \E j \in Claiming : items'[k].pos \subseteq items[j].pos
    <3>1. CASE k \in {i, i + 1}
      BY <3>1, <1>1, <1>2
    <3>2. CASE k \notin {i, i + 1}
      BY <3>2, <1>3
    <3>3. QED
      BY <3>1, <3>2
  <2>2. ASSUME NEW j \in Claiming, NEW p \in items[j].pos PROVE \E k \in Claiming' : p \in items'[k].pos
    <3>1. CASE j = i
      <4>1. i \in Claiming' /\ i + 1 \in Claiming'
        BY <1>1, <1>2 DEF Claiming
      <4>2. p \in c.pos \/ p \in d.pos
        BY <3>1, <2>2, <1>1
      <4>3. QED
        BY <4>1, <4>2, <1>2
    <3>2. CASE j # i
      <4>1. PICK k \in DOMAIN items' \ {i, i + 1} : items'[k] = items[j]
        BY <3>2 DEF Replacing, Claiming
      <4>2. k \in Claiming'
        BY <4>1 DEF Claiming
      <4>3. QED
        BY <4>1, <4>2, <2>2
    <3>3. QED
      BY <3>1, <3>2
  <2>3. \A p : p \in UNION {items'[k].pos : k \in Claiming'}
          <=> p \in UNION {items[j].pos : j \in Claiming}
    BY <2>1, <2>2
  <2>4. QED
    BY <2>3
<1>9. Positions' = Positions /\ frames' = frames
  BY DEF Positions, Frames
<1>10. {p \in Positions' : frames'[p] = "absorbed"} = UNION {items'[k].pos : k \in Claiming'}
  BY <1>4, <1>8, <1>9
<1>11. QED
  BY <1>5, <1>7, <1>10 DEF Valid

\* A cut keeps the seams of every episode, the halves among them.
LEMMA CutSeams ==
  ASSUME SessionInv, NEW i, NEW c, NEW d, Halved(i, c, d), Replacing(i, c, d), UNCHANGED cfg,
         phase = "advance", phase' = "advance"
  PROVE  SeamsMarkInterruptions'
<1> SUFFICES ASSUME cfg.stitch
             PROVE  \A k \in DOMAIN items' : Active(items'[k])
                      => items'[k].seams = Foreign(items'[k].pos, ActiveFrames')
  BY DEF SeamsMarkInterruptions, ActiveFrames
<1>1. \A j \in DOMAIN items : Active(items[j]) => items[j].seams = Foreign(items[j].pos, ActiveFrames)
  BY DEF SessionInv, SeamsMarkInterruptions, ActiveFrames
<1>2. /\ i \in DOMAIN items /\ Active(items[i]) /\ Active(c) /\ Active(d)
         /\ c.pos \cup d.pos = items[i].pos
  BY DEF Halved, HalfOf, Active
<1>3. /\ items'[i] = c /\ items'[i + 1] = d /\ i \in DOMAIN items' /\ i + 1 \in DOMAIN items'
      /\ \A k \in DOMAIN items' : k = i \/ k = i + 1 \/ k \in DOMAIN items' \ {i, i + 1}
  BY DEF Replacing
<1>4. ActiveFrames' = ActiveFrames
  <2>1. \A p : p \in ActiveFrames' <=> \E k \in DOMAIN items' : Active(items'[k]) /\ p \in items'[k].pos
    BY DEF ActiveFrames
  <2>2. \A p : p \in ActiveFrames <=> \E j \in DOMAIN items : Active(items[j]) /\ p \in items[j].pos
    BY DEF ActiveFrames
  <2>3. ASSUME NEW k \in DOMAIN items', Active(items'[k])
        PROVE  \E j \in DOMAIN items : Active(items[j]) /\ items'[k].pos \subseteq items[j].pos
    <3>1. CASE k = i \/ k = i + 1
      <4>1. items'[k].pos \subseteq items[i].pos
        BY <3>1, <1>2, <1>3
      <4>2. QED
        BY <4>1, <1>2
    <3>2. CASE k \in DOMAIN items' \ {i, i + 1}
      BY <3>2, <2>3 DEF Replacing
    <3>3. QED
      BY <3>1, <3>2, <1>3
  <2>4. ASSUME NEW j \in DOMAIN items, Active(items[j]), NEW p \in items[j].pos
        PROVE  \E k \in DOMAIN items' : Active(items'[k]) /\ p \in items'[k].pos
    <3>1. CASE j = i
      BY <3>1, <2>4, <1>2, <1>3
    <3>2. CASE j # i
      <4>1. PICK k \in DOMAIN items' \ {i, i + 1} : items'[k] = items[j]
        BY <3>2 DEF Replacing
      <4>2. QED
        BY <4>1, <2>4
    <3>3. QED
      BY <3>1, <3>2
  <2>5. \A p : p \in ActiveFrames' <=> p \in ActiveFrames
    BY <2>1, <2>2, <2>3, <2>4
  <2>6. QED
    BY <2>5
<1>5. c.seams = Foreign(c.pos, ActiveFrames) /\ d.seams = Foreign(d.pos, ActiveFrames)
  <2>1. \A owned : items[i].seams = Foreign(items[i].pos, owned) =>
          c.seams = Foreign(c.pos, owned) /\ d.seams = Foreign(d.pos, owned)
    BY DEF Halved
  <2>2. items[i].seams = Foreign(items[i].pos, ActiveFrames)
    BY <1>1, <1>2
  <2>3. QED
    BY <2>1, <2>2
<1>6. ASSUME NEW k \in DOMAIN items', Active(items'[k])
      PROVE  items'[k].seams = Foreign(items'[k].pos, ActiveFrames)
  <2>1. CASE k = i
    BY <2>1, <1>3, <1>5
  <2>2. CASE k = i + 1
    BY <2>2, <1>3, <1>5
  <2>3. CASE k \in DOMAIN items' \ {i, i + 1}
    <3>1. Origin(i, k) \in DOMAIN items /\ items'[k] = items[Origin(i, k)]
      BY <2>3 DEF Replacing
    <3>2. QED
      BY <3>1, <1>1, <1>6
  <2>4. QED
    BY <2>1, <2>2, <2>3, <1>3
<1>7. QED
  BY <1>4, <1>6

\* Every name in a failure after a cut was there before, or names a half of what it named.
NamesKept(f, e, c, d, g) ==
  /\ g \in Failures /\ g.unit = f.unit
  /\ \A y \in g.targets : \/ y \in f.targets /\ ~Names(y, e)
                          \/ (\E x \in f.targets : Names(x, e)) /\ (Names(y, c) \/ Names(y, d))

\* What a failure says after a cut: of others what it said before, of the sequence something of a half.
LEMMA ProjectedNames ==
  ASSUME NEW f \in Failures, NEW e, NEW c, NEW d, HalfOf(c, e), HalfOf(d, e),
         NEW g, g = Projected(f, e, <<c, d>>)
  PROVE  NamesKept(f, e, c, d, g)
<1> DEFINE fixed == f.unit = "fixed"
           Of(x) == IF ~Names(x, e) THEN {x}
                    ELSE {At(h, IF fixed THEN h.pos ELSE x.pos) :
                            h \in {v \in ToSet(<<c, d>>) :
                                     \A p \in (IF fixed THEN v.pos ELSE x.pos) :
                                       v.lower <= p /\ p < v.upper}}
           T == UNION {Of(x) : x \in f.targets}
<1>1. g = Failure(f.stage, f.unit, T)
  BY Zenon DEF Projected
<1>2. ToSet(<<c, d>>) = {c, d}
  BY DEF ToSet
<1>3. ASSUME NEW x \in f.targets, NEW y \in Of(x)
      PROVE  /\ y \in Piece
             /\ (y \in f.targets /\ ~Names(y, e)) \/ (Names(x, e) /\ (Names(y, c) \/ Names(y, d)))
  <2>1. CASE ~Names(x, e)
    <3>1. y = x
      BY <2>1
    <3>2. f.targets \in SUBSET Piece
      BY DEF Failures
    <3>3. y \in Piece /\ y \in f.targets /\ ~Names(y, e)
      BY <3>1, <3>2, <2>1
    <3>4. QED
      BY <3>3
  <2>2. CASE Names(x, e)
    <3>1. Of(x) = {At(h, IF fixed THEN h.pos ELSE x.pos) :
                      h \in {v \in ToSet(<<c, d>>) :
                               \A p \in (IF fixed THEN v.pos ELSE x.pos) : v.lower <= p /\ p < v.upper}}
      BY <2>2
    <3>2. PICK h \in {c, d} : y = At(h, IF fixed THEN h.pos ELSE x.pos)
      <4> HIDE DEF Of, fixed
      <4>1. y \in {At(h, IF fixed THEN h.pos ELSE x.pos) :
                      h \in {v \in ToSet(<<c, d>>) :
                               \A p \in (IF fixed THEN v.pos ELSE x.pos) : v.lower <= p /\ p < v.upper}}
        BY <3>1
      <4>2. QED
        BY <4>1, <1>2
    <3>3. h \in Sequence /\ x \in Piece
      BY DEF HalfOf, Failures
    <3>4. y \in Piece /\ Names(y, h)
      <4> HIDE DEF fixed
      <4>1. (IF fixed THEN h.pos ELSE x.pos) \in SUBSET Nat /\ h.root \in SUBSET Nat
            /\ h.cut \in SUBSET Nat
        BY <3>3 DEF Sequence, Piece
      <4>2. QED
        BY <3>2, <4>1 DEF At, Names, Piece
    <3>5. QED
      BY <2>2, <3>2, <3>4
  <2>3. QED
    BY <2>1, <2>2
<1> HIDE DEF Of
<1>4. \A y \in T : y \in Piece /\ (\/ y \in f.targets /\ ~Names(y, e)
                                   \/ (\E x \in f.targets : Names(x, e))
                                      /\ (Names(y, c) \/ Names(y, d)))
  BY <1>3
<1> HIDE DEF T
<1>5. g.targets = T /\ g.unit = f.unit /\ g = [stage |-> f.stage, unit |-> f.unit, targets |-> T]
  BY <1>1 DEF Failure
<1>6. f.stage \in STRING /\ f.unit \in Units /\ T \in SUBSET Piece
  BY <1>4 DEF Failures
<1>7. g \in Failures
  BY <1>5, <1>6 DEF Failures
<1>8. QED
  BY <1>4, <1>5, <1>7 DEF NamesKept

-------------------------------------------------------------------------------
(* A cut keeps what failed for good                                        *)

\* A cut keeps what is final: failures of the parent are dropped or say the same of a half.
LEMMA CutMinima ==
  ASSUME SessionInv, NEW i, NEW c, NEW d, Halved(i, c, d), Replacing(i, c, d), phase' = "advance",
         terminals' = {Projected(g, items[i], <<c, d>>) :
                         g \in {h \in terminals : Survives(h, items[i], <<c, d>>)}}
  PROVE  MinimaFail' /\ terminals' \subseteq Failures
<1> DEFINE e == items[i]
<1>1. HalfOf(c, e) /\ HalfOf(d, e) /\ Active(c) /\ Active(d) /\ i \in DOMAIN items
  BY DEF Halved, HalfOf, Active
<1>2. terminals \subseteq Failures
  BY DEF SessionInv, Wave
<1>3. /\ items'[i] = c /\ items'[i + 1] = d /\ i \in DOMAIN items' /\ i + 1 \in DOMAIN items'
      /\ \A k \in DOMAIN items' : k = i \/ k = i + 1 \/ k \in DOMAIN items' \ {i, i + 1}
  BY DEF Replacing
<1>4. ASSUME NEW g \in terminals'
      PROVE  \E h \in terminals : g = Projected(h, e, <<c, d>>) /\ Survives(h, e, <<c, d>>)
  OBVIOUS
<1> HIDE DEF e
<1>5. ASSUME NEW g \in terminals'
      PROVE  /\ g \in Failures /\ g.targets # {}
             /\ \A y \in g.targets : \E k \in DOMAIN items' : Active(items'[k]) /\ Names(y, items'[k])
             /\ g.unit \in {"sequence", "pairwise"} =>
                  \A k \in DOMAIN items' : (\E y \in g.targets : Names(y, items'[k]))
                    => Cardinality(items'[k].pos) = 1
  <2>1. PICK h \in terminals : g = Projected(h, e, <<c, d>>) /\ Survives(h, e, <<c, d>>)
    BY <1>4
  <2>2. h \in Failures
    BY <1>2
  <2>3. /\ g \in Failures /\ g.unit = h.unit
        /\ \A y \in g.targets : \/ y \in h.targets /\ ~Names(y, e)
                                \/ (\E x \in h.targets : Names(x, e)) /\ (Names(y, c) \/ Names(y, d))
    <3>1. NamesKept(h, e, c, d, g)
      BY <1>1, <2>1, <2>2, ProjectedNames
    <3>2. QED
      BY <3>1 DEF NamesKept
  <2>4. /\ g.targets # {}
        /\ h.unit \in {"sequence", "pairwise"} => \A x \in h.targets : ~Names(x, e)
    BY <2>1 DEF Survives
  <2>5. /\ Current(h)
        /\ h.unit \in {"sequence", "pairwise"} =>
             \A j \in DOMAIN items : (\E x \in h.targets : Names(x, items[j]))
               => Cardinality(items[j].pos) = 1
    BY DEF SessionInv, MinimaFail
  <2>6. ASSUME NEW y \in h.targets, ~Names(y, e)
        PROVE  \E j \in DOMAIN items \ {i} : Active(items[j]) /\ Names(y, items[j])
    <3>1. PICK j \in DOMAIN items : Active(items[j]) /\ Names(y, items[j])
      BY <2>5, <2>6 DEF Current
    <3>2. j # i
      BY <3>1, <2>6 DEF e
    <3>3. QED
      BY <3>1, <3>2
  <2>7. ASSUME NEW y \in g.targets
        PROVE  \E k \in DOMAIN items' : Active(items'[k]) /\ Names(y, items'[k])
    <3>1. CASE y \in h.targets /\ ~Names(y, e)
      <4>1. PICK j \in DOMAIN items \ {i} : Active(items[j]) /\ Names(y, items[j])
        BY <3>1, <2>6
      <4>2. PICK k \in DOMAIN items' \ {i, i + 1} : items'[k] = items[j]
        BY DEF Replacing
      <4>3. QED
        BY <4>1, <4>2
    <3>2. CASE Names(y, c) \/ Names(y, d)
      BY <3>2, <1>1, <1>3
    <3>3. QED
      BY <3>1, <3>2, <2>3, <2>7
  <2>8. ASSUME g.unit \in {"sequence", "pairwise"}, NEW k \in DOMAIN items', NEW y \in g.targets,
               Names(y, items'[k])
        PROVE  Cardinality(items'[k].pos) = 1
    <3>1. y \in h.targets /\ ~Names(y, e)
      BY <2>3, <2>4, <2>8
    <3>2. PICK j \in DOMAIN items \ {i} : Active(items[j]) /\ Names(y, items[j])
      BY <3>1, <2>6
    <3>3. CASE k = i \/ k = i + 1
      <4>1. PICK a \in {c, d} : Names(y, a)
        BY <3>3, <2>8, <1>3
      <4>2. SameName(a, items[j])
        BY <4>1, <3>2 DEF Names, SameName
      <4>3. QED
        BY <4>2, HalfNamed
    <3>4. CASE k \in DOMAIN items' \ {i, i + 1}
      <4>1. Origin(i, k) \in DOMAIN items /\ items'[k] = items[Origin(i, k)]
        BY <3>4 DEF Replacing
      <4>2. QED
        BY <4>1, <3>1, <2>3, <2>5, <2>8
    <3>5. QED
      BY <3>3, <3>4, <1>3
  <2>9. QED
    BY <2>3, <2>4, <2>7, <2>8
<1>6. QED
  <2>1. terminals' \subseteq Failures
    BY <1>5
  <2>2. MinimaFail'
    BY <1>5 DEF MinimaFail, Current, Active, Names
  <2>3. QED
    BY <2>1, <2>2

\* What is picked from a list is a list of the same elements.
LEMMA PickedTyped ==
  ASSUME NEW T, NEW seq \in Seq(T), NEW places \in SUBSET (DOMAIN seq)
  PROVE  Picked(seq, places) \in Seq(T)
<1> DEFINE spot == InOrder(places)
<1>1. spot = InOrder(places)
  OBVIOUS
<1> HIDE DEF spot
<1>2. PickedAs(T, seq, places, spot)
  BY <1>1, PickedElements
<1>3. QED
  BY <1>2 DEF PickedAs

\* A function on 1..n is a list.
LEMMA ListOf == ASSUME NEW S, NEW n \in Nat, NEW g \in [1 .. n -> S] PROVE g \in Seq(S)
BY SeqDef

\* What is left of a wave after a cut is a list of failures.
LEMMA CutWave ==
  ASSUME SessionInv, NEW e, NEW c, NEW d, HalfOf(c, e), HalfOf(d, e), pending # <<>>,
         NEW places, places = {k \in DOMAIN Tail(pending) : Survives(Tail(pending)[k], e, <<c, d>>)},
         NEW kept, kept = Picked(Tail(pending), places),
         pending' = [k \in DOMAIN kept |-> Projected(kept[k], e, <<c, d>>)]
  PROVE  pending' \in Seq(Failures)
<1> DEFINE left == Tail(pending)
           n == Len(kept)
<1>1. left \in Seq(Failures) /\ places \in SUBSET (DOMAIN left) /\ kept = Picked(left, places)
  BY HeadOfWave
<1> HIDE DEF left
<1>2. kept \in Seq(Failures) /\ DOMAIN kept = 1 .. n /\ n \in Nat
  <2>1. Picked(left, places) \in Seq(Failures)
    BY <1>1, PickedTyped
  <2>2. QED
    BY <1>1, <2>1, LenProperties
<1>3. \A k \in 1 .. n : kept[k] \in Failures
  BY <1>2, ElementOfSeq
<1> DEFINE P(x) == Projected(x, e, <<c, d>>)
<1>4. \A x \in Failures : P(x) \in Failures
  BY ProjectedNames DEF NamesKept
<1>5. pending' = [k \in 1 .. n |-> P(kept[k])]
  BY <1>2
<1> HIDE DEF P, n
<1>6. pending' \in [1 .. n -> Failures]
  BY <1>3, <1>4, <1>5
<1>7. QED
  BY <1>2, <1>6, ListOf

\* Cutting the longest sequence of a failure in two keeps the invariant.
LEMMA SplitKeeps == ASSUME SessionInv, Split PROVE SessionInv'
<1> DEFINE f == Head(pending)
           i == Parent(f)
           c == Children(items[i])[1]
           d == Children(items[i])[2]
           e == items[i]
           left == Tail(pending)
           places == {k \in DOMAIN left : Survives(left[k], e, Children(e))}
           kept == Picked(left, places)
<1>1. /\ phase = "advance" /\ phase' = "advance" /\ pending # <<>> /\ Splittable(f) # {}
      /\ progress' = TRUE /\ netEpisodes' = netEpisodes + 1
      /\ UNCHANGED <<cfg, frames, at, failed, reservation, captured, merged, episodes, delta>>
  BY DEF Split, segmentVars
<1>2. /\ items' = SubSeq(items, 1, i - 1) \o Children(e) \o SubSeq(items, i + 1, Len(items))
      /\ terminals' = {Projected(g, e, Children(e)) :
                         g \in {h \in terminals : Survives(h, e, Children(e))}}
      /\ pending' = [k \in DOMAIN kept |-> Projected(kept[k], e, Children(e))]
  BY Zenon DEF Split
<1>3. Typed /\ i \in DOMAIN items /\ Active(e) /\ Cardinality(e.pos) > 1
  BY <1>1, ParentChosen DEF SessionInv
<1> HIDE DEF i, f
<1>4. Halved(i, c, d) /\ Children(e) = <<c, d>>
  BY <1>3, CutHalves
<1> HIDE DEF c, d
<1>5. /\ items' = SubSeq(items, 1, i - 1) \o <<c, d>> \o SubSeq(items, i + 1, Len(items))
      /\ terminals' = {Projected(g, e, <<c, d>>) : g \in {h \in terminals : Survives(h, e, <<c, d>>)}}
      /\ places = {k \in DOMAIN left : Survives(left[k], e, <<c, d>>)}
      /\ pending' = [k \in DOMAIN kept |-> Projected(kept[k], e, <<c, d>>)]
  BY <1>2, <1>4
<1>6. HalfOf(c, e) /\ HalfOf(d, e) /\ c \in Sequence /\ d \in Sequence
  BY <1>4 DEF Halved, HalfOf
<1>7. Replacing(i, c, d)
  BY <1>3, <1>5, <1>6, CutReplaces
<1>8. Typed' /\ NamesDiffer' /\ Valid' /\ SeamsMarkInterruptions'
  BY <1>1, <1>4, <1>7, CutTyped, CutNamesDiffer, CutValid, CutSeams
<1>9. MinimaFail' /\ terminals' \subseteq Failures
  BY <1>1, <1>4, <1>5, <1>7, CutMinima
<1>10. pending' \in Seq(Failures)
  <2>1. kept = Picked(Tail(pending), places)
    OBVIOUS
  <2>2. places = {k \in DOMAIN Tail(pending) : Survives(Tail(pending)[k], e, <<c, d>>)}
    BY <1>5
  <2>3. pending' = [k \in DOMAIN kept |-> Projected(kept[k], e, <<c, d>>)]
    BY <1>5
  <2> HIDE DEF places, kept, e, left
  <2>4. QED
    BY <2>1, <2>2, <2>3, <1>1, <1>6, CutWave
<1>11. Wave'
  BY <1>1, <1>9, <1>10 DEF Wave
<1>12. phase' \notin Upstreaming /\ phase' \notin Reading /\ phase' \notin Threading
       /\ phase' \notin {"plan", "judge"}
  BY <1>1 DEF Upstreaming, Reading, Threading
<1>13. Fresh' /\ WindowsCover' /\ Assembled' /\ ThreadInv'
  BY <1>12 DEF Fresh, WindowsCover, Assembled, ThreadInv
<1>14. /\ episodes \in Nat /\ netEpisodes \in Nat /\ Len(items) = episodes + netEpisodes
       /\ at \in 0 .. Len(Stages) /\ captured = SubSeq(Stages, 1, at)
  BY <1>1 DEF SessionInv, Totals
<1>15. Fitting'
  <2>1. netEpisodes' # 0
    BY <1>1, <1>14
  <2>2. QED
    BY <2>1 DEF Fitting
<1>16. Totals'
  <2>1. Len(items') = Len(items) + 1
    BY <1>7 DEF Replacing
  <2>2. Len(items') = episodes' + netEpisodes' /\ netEpisodes' \in Nat /\ episodes' \in Nat
    BY <1>1, <1>14, <2>1
  <2>3. QED
    BY <1>1, <1>12, <1>14, <2>2 DEF Totals
<1>17. CountsOnce'
  BY <1>1 DEF SessionInv, CountsOnce
<1>18. QED
  BY <1>8, <1>9, <1>11, <1>13, <1>15, <1>16, <1>17 DEF SessionInv

-------------------------------------------------------------------------------
(* Every step keeps the invariant, and what follows                        *)

\* Every step keeps the invariant.
LEMMA NextKeeps == ASSUME SessionInv, [Next]_vars PROVE SessionInv'
<1>1. CASE Next
  <2>1. CASE Progress
    BY <2>1, UpstreamKeeps, StageEndsKeeps, StageOverflowsKeeps, PassOverKeeps, SplitKeeps,
       EstablishKeeps,
       RecomputeKeeps, CommitKeeps DEF Progress
  <2>2. CASE Interrupted
    BY <2>2, InterruptedKeeps
  <2>3. QED
    BY <1>1, <2>1, <2>2 DEF Next
<1>2. CASE UNCHANGED vars
  BY <1>2, StutterKeeps
<1>3. QED
  BY <1>1, <1>2

\* The state of a session stays within SessionInv: all values of their types, and the conjuncts that
\* the theorems below need of one another.
THEOREM SessionInvariant == Spec => []SessionInv
<1>1. Init => SessionInv
  BY InitHolds
<1>2. SessionInv /\ [Next]_vars => SessionInv'
  BY NextKeeps
<1>3. QED
  BY <1>1, <1>2, PTL DEF Spec

\* The counters of upstream and of each stage of the last attempt, and no others, reach the totals
\* once, and episodes are counted with the cuts, however often the stages started again (_merge_attempt).
THEOREM CountsOnceCorrect == Spec => []CountsOnce
<1>1. SessionInv => CountsOnce
  BY DEF SessionInv
<1>2. QED
  BY <1>1, SessionInvariant, PTL

\* No wave of overflows ends in an internal error; and what failed for good names sequences that are
\* still there, none of which could have been cut shorter (validate_session, _advance).
THEOREM MinimaFailCorrect == Spec => []MinimaFail
<1>1. SessionInv => MinimaFail
  BY DEF SessionInv
<1>2. QED
  BY <1>1, SessionInvariant, PTL

\* The seams of an episode are the places where a frame of another episode was in between, also
\* after cuts, where the halves take their seams from the parent.
THEOREM SeamsMarkInterruptionsCorrect == Spec => []SeamsMarkInterruptions
<1>1. SessionInv => SeamsMarkInterruptions
  BY DEF SessionInv
<1>2. QED
  BY <1>1, SessionInvariant, PTL

\* UpstreamSound follows from the invariant.
LEMMA InvSound == SessionInv => UpstreamSound
<1> SUFFICES ASSUME SessionInv PROVE UpstreamSound
  OBVIOUS
<1>1. ASSUME phase = "judge", spans = <<>>, broken = {} PROVE paired = 0 .. Frames - 2
  <2>1. paired \subseteq 0 .. Frames - 2 /\ \A p \in 0 .. Frames - 2 : Covered(p)
    BY <1>1 DEF SessionInv, WindowsCover
  <2>2. DOMAIN spans = {}
    BY <1>1
  <2>3. \A p \in 0 .. Frames - 2 : p \in paired
    BY <2>1, <2>2 DEF Covered
  <2>4. QED
    BY <2>1, <2>3
<1>2. ASSUME phase \in {"repass", "finalize"} \/ (phase = "serve" /\ netEpisodes = 0)
      PROVE  \A i \in DOMAIN items : Active(items[i]) /\ Cardinality(items[i].pos) > 1
               => Preview(items[i].pos) # "sequence"
  <2>1. netEpisodes = 0
    BY <1>2 DEF SessionInv, Totals, Upstreaming, Threading
  <2>2. QED
    BY <2>1 DEF SessionInv, Fitting
<1>3. QED
  BY <1>1, <1>2 DEF UpstreamSound

\* When all windows are judged, so is every pair of adjacent frames, however often windows were halved;
\* and no sequence that can be cut leaves segmentation or stitching too large for the chain downstream.
THEOREM UpstreamSoundCorrect == Spec => []UpstreamSound
<1>1. SessionInv => UpstreamSound
  BY InvSound
<1>2. QED
  BY <1>1, SessionInvariant, PTL

-------------------------------------------------------------------------------
(* What was cut apart stays apart                                          *)

\* A sequence that a step leaves alone, and one that is sealed or merged into another.
Same(i) == items'[i].status = items[i].status /\ items'[i].pos = items[i].pos
Shut(i) == items[i].sealed \/ items[i].status = "stitched"

\* A judgment leaves sealed and merged sequences alone.
LEMMA SettleLeavesSealed ==
  ASSUME SessionInv, SettleJudgment, NEW i \in DOMAIN items, Shut(i)
  PROVE  Same(i)
<1> DEFINE c == Judged
<1>1. /\ Judgeable /\ cfg' = cfg /\ phase \in {"stitch", "repass"}
  BY DEF SettleJudgment, Judgeable
<1>2. Typed /\ Valid /\ ThreadsTyped /\ QueueTyped /\ CutsSealed
  BY <1>1, ThreadingGiven DEF Threading
<1>3. JudgedWell(c)
  BY <1>1, <1>2, JudgedFacts
<1>4. PICK outcome, hits :
        LET t == Target(Cards(c), outcome, hits, c)
        IN \/ t # 0 /\ Merge(t, c)
           \/ (IF t = 0 THEN UNCHANGED <<items, cuts>> ELSE Seal(t, c)) /\ UNCHANGED frames
  BY DEF SettleJudgment
<1> DEFINE t == Target(Cards(c), outcome, hits, c)
<1>5. t # 0 => Takes(t, c)
  BY <1>1, <1>2, <1>3, TargetFacts
<1> HIDE DEF c, t
<1>6. (t # 0 /\ Merge(t, c)) \/ ((IF t = 0 THEN UNCHANGED <<items, cuts>> ELSE Seal(t, c))
      /\ UNCHANGED frames)
  BY <1>4 DEF c, t
<1>7. CASE t # 0 /\ Merge(t, c)
  <2>1. Takes(t, c)
    BY <1>5, <1>7
  <2>2. /\ items'[i].status = IF i = c.item THEN "stitched" ELSE items[i].status
        /\ items'[i].pos = IF i = threads[t].item THEN items[i].pos \union c.pos ELSE items[i].pos
    BY <1>2, <1>3, <1>7, <2>1, MergeEffect
  <2>3. ~items[threads[t].item].sealed /\ items[threads[t].item].status = "active"
    BY <1>2, <1>3, <2>1, MergedSequence
  <2>4. i # c.item
    <3>1. 0 \notin DOMAIN items
      BY <1>2, Typedness
    <3>2. QED
      BY <3>1, <1>3 DEF JudgedWell, Shut, Active
  <2>5. i # threads[t].item
    BY <2>3 DEF Shut
  <2>6. QED
    BY <2>2, <2>4, <2>5 DEF Same
<1>8. CASE (IF t = 0 THEN UNCHANGED <<items, cuts>> ELSE Seal(t, c)) /\ UNCHANGED frames
  <2>1. CASE t = 0
    BY <1>8, <2>1 DEF Same
  <2>2. CASE t # 0
    <3>1. Reshaped
      BY <1>1, <1>2, <1>3, <1>5, <1>8, <2>2, SealKeeps
    <3>2. QED
      BY <3>1 DEF Reshaped, Alike, Same
  <2>3. QED
    BY <2>1, <2>2
<1>9. QED
  BY <1>6, <1>7, <1>8

\* So does a judgment that fails for good.
LEMMA FailLeavesSealed ==
  ASSUME SessionInv, FailJudgment, NEW i \in DOMAIN items, Shut(i)
  PROVE  Same(i)
<1> DEFINE c == Judged
<1>1. Judgeable /\ phase \in {"stitch", "repass"}
  BY DEF FailJudgment, Judgeable
<1>2. Typed /\ Valid /\ ThreadsTyped /\ QueueTyped
  BY <1>1, ThreadingGiven DEF Threading
<1>3. JudgedWell(c)
  BY <1>1, <1>2, JudgedFacts
<1>4. \/ UNCHANGED items
      \/ c.kind # "rescue" /\ items' = [items EXCEPT ![c.item].status = "failed"]
  BY DEF FailJudgment
<1> HIDE DEF c
<1>5. CASE c.kind # "rescue" /\ items' = [items EXCEPT ![c.item].status = "failed"]
  <2>1. c.item \in DOMAIN items /\ ~Shut(c.item)
    BY <1>3, <1>5 DEF JudgedWell, Shut, Active
  <2>2. i # c.item
    BY <2>1
  <2>3. items'[i] = items[i]
    BY <1>5, <2>2
  <2>4. QED
    BY <2>3 DEF Same
<1>6. QED
  BY <1>4, <1>5 DEF Same

\* So does every step of stitching.
LEMMA StepLeavesSealed ==
  ASSUME SessionInv, Next, phase \in {"stitch", "repass"}, NEW i \in DOMAIN items, Shut(i)
  PROVE  Same(i)
<1>1. CASE UNCHANGED items
  BY <1>1 DEF Same
<1>2. CASE SettleJudgment
  BY <1>2, SettleLeavesSealed
<1>3. CASE FailJudgment
  BY <1>3, FailLeavesSealed
<1>4. UNCHANGED items \/ SettleJudgment \/ FailJudgment
  <2>1. CASE RunUpstream
    <3>1. SegmentNext => FALSE
      BY DEF SegmentNext, Plan, JudgeWindow, OverflowWindow, FailWindow, Settle
    <3>2. StitchNext => UNCHANGED items \/ SettleJudgment \/ FailJudgment
      BY DEF StitchNext, BeginStitch, SkipCandidate, SkipThread, PrepareRepass, EndRepass, Finalize
    <3>3. QED
      BY <2>1, <3>1, <3>2 DEF RunUpstream, Upstream
  <2>2. CASE Next /\ ~RunUpstream
    BY <2>2 DEF Next, Progress, Interrupted, StageEnds, StageOverflows, PassOver, Split, Establish,
       Recompute, Commit
  <2>3. QED
    BY <2>1, <2>2
<1>5. QED
  BY <1>1, <1>2, <1>3, <1>4

\* What a cut names keeps its members and its status while threads are made.
LEMMA CutsSeal ==
  ASSUME SessionInv, [Next]_vars
  PROVE  [\A c \in cuts, i \in DOMAIN items :
            phase \in {"stitch", "repass"} /\ c[1] \in items[i].pos =>
              /\ items'[i].status = items[i].status
              /\ items'[i].pos = items[i].pos]_vars
<1>1. CASE Next
  <2>1. ASSUME NEW c \in cuts, NEW i \in DOMAIN items, phase \in {"stitch", "repass"},
               c[1] \in items[i].pos
        PROVE  Same(i)
    <3>1. Shut(i)
      BY <2>1, ThreadingGiven DEF Threading, CutsSealed, Shut
    <3>2. QED
      BY <1>1, <2>1, <3>1, StepLeavesSealed
  <2>2. QED
    BY <2>1 DEF Same
<1>2. CASE UNCHANGED vars
  BY <1>2
<1>3. QED
  BY <1>1, <1>2

\* The sequence before a cut takes no member and joins no thread afterwards, in either pass
\* (_sealed, _seal_capacity, capacity_episodes).
THEOREM CutSealsCorrect == Spec => CutSeals
<1>1. SessionInv /\ [Next]_vars =>
        [\A c \in cuts, i \in DOMAIN items :
            phase \in {"stitch", "repass"} /\ c[1] \in items[i].pos =>
              /\ items'[i].status = items[i].status
              /\ items'[i].pos = items[i].pos]_vars
  BY CutsSeal
<1>2. QED
  BY <1>1, SessionInvariant, PTL DEF Spec, CutSeals
================================================================================
