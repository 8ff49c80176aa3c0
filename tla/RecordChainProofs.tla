-------------------------- MODULE RecordChainProofs --------------------------
(***************************************************************************)
(* Theorems about the record path, for every project, every set of         *)
(* contents and answers, and every number of rounds and attempts: what is  *)
(* dropped as a duplicate is dropped for a record that is kept, a session  *)
(* that is judged on an overlay gets the verdicts of the index it is       *)
(* committed to, each frame of a session that the stages have absorbed is  *)
(* owned by exactly one sequence, whatever verification cuts, claims and   *)
(* gives back, what is generated is new and credited to whom it is due,    *)
(* and what was voted for is what was chosen and counted.                  *)
(***************************************************************************)
EXTENDS RecordChain, CollectionTheorems, SequenceTheorems

-------------------------------------------------------------------------------
(* The nearest entry                                                       *)

Features == {"text", "image", "vector"}

\* The entries in reach of a point, how far they are, and which is the nearest.
Distance(s, f, p, i) == Abs(s[i][f] - p)
Hits(s, f, p) == {i \in DOMAIN s : Points(s[i][f]) /\ Distance(s, f, p, i) <= Reach}
NearestAt(s, f, p, i) ==
  /\ i \in Hits(s, f, p)
  /\ \A j \in Hits(s, f, p) :
       \/ Distance(s, f, p, i) < Distance(s, f, p, j)
       \/ Distance(s, f, p, i) = Distance(s, f, p, j) /\ i <= j

\* There is one closest place.
LEMMA ClosestIs ==
  ASSUME NEW S \in SUBSET Nat, S # {}, NEW d \in [S -> Nat]
  PROVE  /\ Closest(d) \in S
         /\ \A j \in S : d[Closest(d)] < d[j] \/ (d[Closest(d)] = d[j] /\ Closest(d) <= j)
         /\ \A i \in S : (\A j \in S : d[i] < d[j] \/ (d[i] = d[j] /\ i <= j)) => i = Closest(d)
<1> DEFINE least(i) == \A j \in S : d[i] < d[j] \/ (d[i] = d[j] /\ i <= j)
           c == CHOOSE i \in S : least(i)
<1>1. \E i \in S : least(i)
  <2> DEFINE D == {d[i] : i \in S}
  <2>1. D \in SUBSET Nat /\ D # {}
    OBVIOUS
  <2>2. PICK m \in D : \A n \in D : m <= n
    BY <2>1, LeastNatural
  <2> DEFINE I == {i \in S : d[i] = m}
  <2>3. I \in SUBSET Nat /\ I # {}
    OBVIOUS
  <2>4. PICK i \in I : \A j \in I : i <= j
    BY <2>3, LeastNatural
  <2>5. ASSUME NEW j \in S PROVE d[i] < d[j] \/ (d[i] = d[j] /\ i <= j)
    <3>1. d[i] = m /\ m <= d[j] /\ m \in Nat /\ d[j] \in Nat
      BY <2>1, <2>2
    <3>2. CASE d[j] = m
      BY <2>4, <3>1, <3>2
    <3>3. CASE d[j] # m
      BY <3>1, <3>3
    <3>4. QED
      BY <3>2, <3>3
  <2>6. QED
    BY <2>5
<1>2. Closest(d) = c
  BY DEF Closest
<1>3. c \in S /\ least(c)
  <2> HIDE DEF least
  <2>1. QED
    BY <1>1
<1>4. ASSUME NEW i \in S, least(i) PROVE i = c
  <2>1. d[i] < d[c] \/ (d[i] = d[c] /\ i <= c)
    BY <1>3, <1>4
  <2>2. d[c] < d[i] \/ (d[c] = d[i] /\ c <= i)
    BY <1>3, <1>4
  <2>3. d[i] \in Nat /\ d[c] \in Nat /\ i \in Nat /\ c \in Nat
    BY <1>3
  <2>4. QED
    BY <2>1, <2>2, <2>3
<1> HIDE DEF c
<1>5. QED
  BY <1>2, <1>3, <1>4

\* The features of an entry are points, or are missing.
LEMMA EntryTypes ==
  ASSUME NEW e \in Entries, NEW f \in Features
  PROVE  e[f] \in Point /\ (Points(e[f]) => e[f] \in Int) /\ e # None /\ e.id \in Nat \X Nat
<1>1. e.text \in Point /\ e.image \in Point /\ e.vector \in Point /\ e.id \in Nat \X Nat
  BY DEF Entries
<1>2. e[f] \in Point
  BY <1>1 DEF Features
<1>3. e # None
  BY DedupAssumption
<1>4. QED
  BY <1>1, <1>2, <1>3 DEF Point, Points

\* A distance is a number.
LEMMA DistanceTypes ==
  ASSUME NEW s \in Seq(Entries), NEW f \in Features, NEW p \in Int,
         NEW i \in DOMAIN s, Points(s[i][f])
  PROVE  Distance(s, f, p, i) \in Nat
<1>1. s[i] \in Entries
  BY ElementOfSeq
<1>2. s[i][f] \in Int
  BY <1>1, EntryTypes
<1>3. QED
  BY <1>2 DEF Distance, Abs

\* Nearest finds the nearest entry, if one is in reach.
LEMMA NearestIs ==
  ASSUME NEW s \in Seq(Entries), NEW f \in Features, NEW p \in Point
  PROVE  /\ ~Points(p) \/ Hits(s, f, p) = {} => Nearest(s, f, p) = None
         /\ Points(p) /\ Hits(s, f, p) # {} =>
              \E i \in DOMAIN s : NearestAt(s, f, p, i) /\ Nearest(s, f, p) = s[i]
         /\ Points(p) => \A i : NearestAt(s, f, p, i) => Nearest(s, f, p) = s[i]
<1>1. ~Points(p) \/ Hits(s, f, p) = {} => Nearest(s, f, p) = None
  BY DEF Nearest, Hits, Distance
<1>2. ASSUME Points(p), Hits(s, f, p) # {}
      PROVE  /\ \E i \in DOMAIN s : NearestAt(s, f, p, i) /\ Nearest(s, f, p) = s[i]
             /\ \A i : NearestAt(s, f, p, i) => Nearest(s, f, p) = s[i]
  <2> DEFINE H == Hits(s, f, p)
             d == [i \in H |-> Distance(s, f, p, i)]
  <2>1. p \in Int
    BY <1>2 DEF Point, Points
  <2>2. H \in SUBSET Nat /\ H # {} /\ H \subseteq DOMAIN s
    BY <1>2 DEF Hits
  <2>3. \A i \in H : Distance(s, f, p, i) \in Nat
    BY <2>1, DistanceTypes DEF Hits
  <2>4. d \in [H -> Nat]
    BY <2>3
  <2>5. Nearest(s, f, p) = s[Closest(d)]
    BY <1>2 DEF Nearest, Hits, Distance
  <2>6. \A i \in H : d[i] = Distance(s, f, p, i)
    OBVIOUS
  <2> HIDE DEF d
  <2>7. /\ Closest(d) \in H
        /\ \A j \in H : d[Closest(d)] < d[j] \/ (d[Closest(d)] = d[j] /\ Closest(d) <= j)
        /\ \A i \in H : (\A j \in H : d[i] < d[j] \/ (d[i] = d[j] /\ i <= j)) => i = Closest(d)
    BY <2>2, <2>4, ClosestIs
  <2>8. NearestAt(s, f, p, Closest(d))
    BY <2>6, <2>7 DEF NearestAt
  <2>9. \A i : NearestAt(s, f, p, i) => i = Closest(d)
    BY <2>6, <2>7 DEF NearestAt
  <2>10. QED
    BY <2>2, <2>5, <2>7, <2>8, <2>9
<1>3. QED
  BY <1>1, <1>2 DEF NearestAt

\* It is an entry, unless there is none.
LEMMA NearestType ==
  ASSUME NEW s \in Seq(Entries), NEW f \in Features, NEW p \in Point,
         Nearest(s, f, p) # None
  PROVE  /\ Points(p) /\ p \in Int
         /\ \E i \in DOMAIN s : /\ NearestAt(s, f, p, i) /\ Nearest(s, f, p) = s[i]
                                /\ s[i] \in Entries
<1>1. Points(p) /\ Hits(s, f, p) # {}
  BY NearestIs
<1>2. PICK i \in DOMAIN s : NearestAt(s, f, p, i) /\ Nearest(s, f, p) = s[i]
  BY <1>1, NearestIs
<1>3. s[i] \in Entries
  BY ElementOfSeq
<1>4. QED
  BY <1>1, <1>2, <1>3 DEF Point, Points

\* What is in reach has a nearest.
LEMMA NearestFinds ==
  ASSUME NEW s \in Seq(Entries), NEW f \in Features, NEW p \in Point,
         Points(p), Hits(s, f, p) # {}
  PROVE  Nearest(s, f, p) # None
<1>1. PICK i \in DOMAIN s : Nearest(s, f, p) = s[i]
  BY NearestIs
<1>2. s[i] \in Entries
  BY ElementOfSeq
<1>3. QED
  BY <1>1, <1>2, DedupAssumption

-------------------------------------------------------------------------------
(* An overlay of an index and the index that it becomes                    *)

\* What is in reach in two sequences of entries, one behind the other.
LEMMA HitsConcat ==
  ASSUME NEW s \in Seq(Entries), NEW t \in Seq(Entries), NEW f \in Features, NEW p \in Point
  PROVE  /\ s \o t \in Seq(Entries) /\ Len(s) \in Nat /\ DOMAIN s = 1 .. Len(s)
         /\ DOMAIN t = 1 .. Len(t) /\ Len(t) \in Nat
         /\ \A i \in DOMAIN s : (s \o t)[i] = s[i] /\ (i \in Hits(s \o t, f, p) <=> i \in Hits(s, f, p))
         /\ \A j \in DOMAIN t : /\ (s \o t)[Len(s) + j] = t[j]
                                /\ (Len(s) + j \in Hits(s \o t, f, p) <=> j \in Hits(t, f, p))
         /\ \A k \in Hits(s \o t, f, p) :
              k \in Hits(s, f, p) \/ \E j \in Hits(t, f, p) : k = Len(s) + j
<1>1. /\ s \o t \in Seq(Entries) /\ Len(s) \in Nat /\ DOMAIN s = 1 .. Len(s)
      /\ DOMAIN t = 1 .. Len(t) /\ Len(t) \in Nat /\ DOMAIN (s \o t) = 1 .. Len(s) + Len(t)
  OBVIOUS
<1>2. \A i \in DOMAIN s : (s \o t)[i] = s[i] /\ i \in DOMAIN (s \o t)
  BY <1>1
<1>3. \A j \in DOMAIN t : (s \o t)[Len(s) + j] = t[j] /\ Len(s) + j \in DOMAIN (s \o t)
  BY <1>1
<1>4. \A k \in DOMAIN (s \o t) : k \in DOMAIN s \/ \E j \in DOMAIN t : k = Len(s) + j
  <2>1. ASSUME NEW k \in DOMAIN (s \o t), k \notin DOMAIN s PROVE \E j \in DOMAIN t : k = Len(s) + j
    <3>1. k - Len(s) \in DOMAIN t /\ k = Len(s) + (k - Len(s))
      BY <1>1, <2>1
    <3>2. QED
      BY <3>1
  <2>2. QED
    BY <2>1
<1>5. \A i \in DOMAIN s : i \in Hits(s \o t, f, p) <=> i \in Hits(s, f, p)
  BY <1>2 DEF Hits, Distance
<1>6. \A j \in DOMAIN t : Len(s) + j \in Hits(s \o t, f, p) <=> j \in Hits(t, f, p)
  BY <1>3 DEF Hits, Distance
<1>7. \A k \in Hits(s \o t, f, p) :
        k \in Hits(s, f, p) \/ \E j \in Hits(t, f, p) : k = Len(s) + j
  <2>1. ASSUME NEW k \in Hits(s \o t, f, p)
        PROVE  k \in Hits(s, f, p) \/ \E j \in Hits(t, f, p) : k = Len(s) + j
    <3>1. k \in DOMAIN (s \o t)
      BY DEF Hits
    <3>2. CASE k \in DOMAIN s
      BY <1>5, <3>2
    <3>3. CASE \E j \in DOMAIN t : k = Len(s) + j
      BY <1>6, <3>3
    <3>4. QED
      BY <1>4, <3>1, <3>2, <3>3
  <2>2. QED
    BY <2>1
<1>8. QED
  BY <1>1, <1>2, <1>3, <1>5, <1>6, <1>7

\* One index: the nearest in the view is the nearest in the index.
LEMMA NearestInOne ==
  ASSUME NEW s \in Seq(Entries), NEW f \in Features, NEW p \in Point
  PROVE  NearestIn(<<s>>, f, p) = Nearest(s, f, p)
<1> DEFINE view == <<s>>
           H == {v \in DOMAIN view : Nearest(view[v], f, p) # None}
           d == [v \in H |-> Abs(Nearest(view[v], f, p)[f] - p)]
<1>1. DOMAIN view = {1} /\ view[1] = s
  OBVIOUS
<1>2. CASE Nearest(s, f, p) = None
  <2>1. H = {}
    BY <1>1, <1>2
  <2>2. QED
    BY <1>2, <2>1 DEF NearestIn
<1>3. CASE Nearest(s, f, p) # None
  <2>1. H = {1}
    BY <1>1, <1>3
  <2>2. Nearest(s, f, p)[f] \in Int /\ p \in Int
    BY <1>3, NearestType, EntryTypes DEF NearestAt, Hits
  <2>3. d \in [{1} -> Nat]
    BY <1>1, <2>1, <2>2 DEF Abs
  <2>4. NearestIn(view, f, p) = Nearest(view[Closest(d)], f, p)
    BY <2>1 DEF NearestIn
  <2> HIDE DEF d, view
  <2>5. Closest(d) \in {1}
    <3>1. {1} \in SUBSET Nat /\ {1} # {}
      OBVIOUS
    <3>2. QED
      BY <2>3, <3>1, ClosestIs
  <2>6. QED
    BY <1>1, <2>4, <2>5 DEF view
<1>4. QED
  BY <1>2, <1>3

\* In an overlay the nearest is that of the index that it becomes.
LEMMA NearestInOverlay ==
  ASSUME NEW s \in Seq(Entries), NEW t \in Seq(Entries), NEW f \in Features, NEW p \in Point
  PROVE  NearestIn(<<s, t>>, f, p) = NearestIn(<<s \o t>>, f, p)
<1> DEFINE view == <<s, t>>
           N(v) == Nearest(view[v], f, p)
           H == {v \in DOMAIN view : N(v) # None}
           d == [v \in H |-> Abs(N(v)[f] - p)]
           u == s \o t
<1>1. NearestIn(<<u>>, f, p) = Nearest(u, f, p)
  BY HitsConcat, NearestInOne
<1>2. DOMAIN view = {1, 2} /\ N(1) = Nearest(s, f, p) /\ N(2) = Nearest(t, f, p)
  OBVIOUS
<1>3. NearestIn(view, f, p) = IF H = {} THEN None ELSE N(Closest(d))
  BY DEF NearestIn
<1>4. u \in Seq(Entries)
  BY HitsConcat
<1> HIDE DEF view, u
<1>5. CASE N(1) = None /\ N(2) = None
  <2>1. H = {}
    BY <1>2, <1>5
  <2>2. ~Points(p) \/ (Hits(s, f, p) = {} /\ Hits(t, f, p) = {})
    BY <1>2, <1>5, NearestFinds
  <2>3. ~Points(p) \/ Hits(u, f, p) = {}
    BY <2>2, HitsConcat DEF u
  <2>4. Nearest(u, f, p) = None
    BY <1>4, <2>3, NearestIs
  <2>5. QED
    BY <1>1, <1>3, <2>1, <2>4 DEF view, u
<1>6. CASE N(1) # None \/ N(2) # None
  <2>1. Points(p) /\ p \in Int
    BY <1>2, <1>6, NearestType
  <2>2. H # {} /\ H \subseteq {1, 2}
    BY <1>2, <1>6
  <2>3. \A v \in H : N(v)[f] \in Int
    <3>1. 1 \in H => N(1)[f] \in Int
      BY <1>2, NearestType, EntryTypes DEF NearestAt, Hits
    <3>2. 2 \in H => N(2)[f] \in Int
      BY <1>2, NearestType, EntryTypes DEF NearestAt, Hits
    <3>3. QED
      BY <2>2, <3>1, <3>2
  <2>4. d \in [H -> Nat]
    BY <2>1, <2>3 DEF Abs
  <2>5. \A v \in H : d[v] = Abs(N(v)[f] - p)
    OBVIOUS
  <2> HIDE DEF d
  <2>6. /\ Closest(d) \in H
        /\ \A w \in H : d[Closest(d)] < d[w] \/ (d[Closest(d)] = d[w] /\ Closest(d) <= w)
    <3>1. H \in SUBSET Nat /\ H # {}
      BY <2>2
    <3> HIDE DEF H
    <3>2. QED
      BY <2>4, <3>1, ClosestIs
  <2>7. ASSUME Closest(d) = 1 PROVE N(1) = Nearest(u, f, p)
    <3>1. PICK i \in DOMAIN s : NearestAt(s, f, p, i) /\ N(1) = s[i]
      BY <1>2, <2>6, <2>7, NearestType
    <3>2. d[1] = Distance(s, f, p, i)
      BY <2>5, <2>6, <2>7, <3>1 DEF Distance
    <3>3. ASSUME NEW j \in Hits(t, f, p) PROVE Distance(s, f, p, i) <= Distance(t, f, p, j)
      <4>1. Nearest(t, f, p) # None
        BY <2>1, <3>3, NearestFinds
      <4>2. PICK k \in DOMAIN t : NearestAt(t, f, p, k) /\ N(2) = t[k]
        BY <1>2, <4>1, NearestType
      <4>3. 2 \in H /\ d[2] = Distance(t, f, p, k)
        BY <1>2, <2>5, <4>1, <4>2 DEF Distance
      <4>4. d[1] < d[2] \/ d[1] = d[2]
        BY <2>6, <2>7, <4>3
      <4>5. Distance(t, f, p, k) < Distance(t, f, p, j) \/ Distance(t, f, p, k) = Distance(t, f, p, j)
        BY <4>2 DEF NearestAt
      <4>6. /\ Distance(s, f, p, i) \in Nat /\ Distance(t, f, p, k) \in Nat
            /\ Distance(t, f, p, j) \in Nat
        BY <2>1, <3>1, <4>2, DistanceTypes DEF NearestAt, Hits
      <4>7. QED
        BY <3>2, <4>3, <4>4, <4>5, <4>6
    <3>4. NearestAt(u, f, p, i)
      <4>1. i \in Hits(u, f, p)
        BY <3>1, HitsConcat DEF NearestAt, u
      <4>2. ASSUME NEW k \in Hits(u, f, p)
            PROVE  \/ Distance(u, f, p, i) < Distance(u, f, p, k)
                   \/ Distance(u, f, p, i) = Distance(u, f, p, k) /\ i <= k
        <5>1. Distance(u, f, p, i) = Distance(s, f, p, i)
          BY <3>1, HitsConcat DEF Distance, u
        <5>2. CASE k \in Hits(s, f, p)
          <6>1. Distance(u, f, p, k) = Distance(s, f, p, k)
            BY <5>2, HitsConcat DEF Distance, Hits, u
          <6>2. QED
            BY <3>1, <5>1, <5>2, <6>1 DEF NearestAt
        <5>3. CASE \E j \in Hits(t, f, p) : k = Len(s) + j
          <6>1. PICK j \in Hits(t, f, p) : k = Len(s) + j
            BY <5>3
          <6>2. Distance(u, f, p, k) = Distance(t, f, p, j) /\ j \in DOMAIN t
            BY <6>1, HitsConcat DEF Distance, Hits, u
          <6>3. i <= k
            BY <3>1, <6>1, <6>2, HitsConcat
          <6>4. Distance(s, f, p, i) \in Nat /\ Distance(t, f, p, j) \in Nat
            BY <2>1, <3>1, <6>1, DistanceTypes DEF NearestAt, Hits
          <6>5. QED
            BY <3>3, <5>1, <6>1, <6>2, <6>3, <6>4
        <5>4. QED
          BY <5>2, <5>3, HitsConcat DEF u
      <4>3. QED
        BY <4>1, <4>2 DEF NearestAt
    <3>5. u[i] = s[i]
      BY <3>1, HitsConcat DEF u
    <3>6. QED
      BY <1>4, <2>1, <3>1, <3>4, <3>5, NearestIs
  <2>8. ASSUME Closest(d) = 2 PROVE N(2) = Nearest(u, f, p)
    <3>1. PICK i \in DOMAIN t : NearestAt(t, f, p, i) /\ N(2) = t[i]
      BY <1>2, <2>6, <2>8, NearestType
    <3>2. d[2] = Distance(t, f, p, i)
      BY <2>5, <2>6, <2>8, <3>1 DEF Distance
    <3>3. ASSUME NEW j \in Hits(s, f, p) PROVE Distance(t, f, p, i) < Distance(s, f, p, j)
      <4>1. Nearest(s, f, p) # None
        BY <2>1, <3>3, NearestFinds
      <4>2. PICK k \in DOMAIN s : NearestAt(s, f, p, k) /\ N(1) = s[k]
        BY <1>2, <4>1, NearestType
      <4>3. 1 \in H /\ d[1] = Distance(s, f, p, k)
        BY <1>2, <2>5, <4>1, <4>2 DEF Distance
      <4>4. d[2] < d[1]
        BY <2>6, <2>8, <4>3
      <4>5. Distance(s, f, p, k) < Distance(s, f, p, j) \/ Distance(s, f, p, k) = Distance(s, f, p, j)
        BY <4>2 DEF NearestAt
      <4>6. /\ Distance(t, f, p, i) \in Nat /\ Distance(s, f, p, k) \in Nat
            /\ Distance(s, f, p, j) \in Nat
        BY <2>1, <3>1, <4>2, DistanceTypes DEF NearestAt, Hits
      <4>7. QED
        BY <3>2, <4>3, <4>4, <4>5, <4>6
    <3>4. NearestAt(u, f, p, Len(s) + i)
      <4>1. Len(s) + i \in Hits(u, f, p) /\ Distance(u, f, p, Len(s) + i) = Distance(t, f, p, i)
        BY <3>1, HitsConcat DEF NearestAt, Distance, u
      <4>2. ASSUME NEW k \in Hits(u, f, p)
            PROVE  \/ Distance(t, f, p, i) < Distance(u, f, p, k)
                   \/ Distance(t, f, p, i) = Distance(u, f, p, k) /\ Len(s) + i <= k
        <5>1. CASE k \in Hits(s, f, p)
          <6>1. Distance(u, f, p, k) = Distance(s, f, p, k)
            BY <5>1, HitsConcat DEF Distance, Hits, u
          <6>2. QED
            BY <3>3, <5>1, <6>1
        <5>2. CASE \E j \in Hits(t, f, p) : k = Len(s) + j
          <6>1. PICK j \in Hits(t, f, p) : k = Len(s) + j
            BY <5>2
          <6>2. Distance(u, f, p, k) = Distance(t, f, p, j) /\ j \in DOMAIN t
            BY <6>1, HitsConcat DEF Distance, Hits, u
          <6>3. \/ Distance(t, f, p, i) < Distance(t, f, p, j)
                \/ Distance(t, f, p, i) = Distance(t, f, p, j) /\ i <= j
            BY <3>1, <6>1 DEF NearestAt
          <6>4. i <= j => Len(s) + i <= k
            BY <3>1, <6>1, <6>2, HitsConcat
          <6>5. QED
            BY <6>2, <6>3, <6>4
        <5>3. QED
          BY <5>1, <5>2, HitsConcat DEF u
      <4>3. QED
        BY <4>1, <4>2 DEF NearestAt
    <3>5. u[Len(s) + i] = t[i]
      BY <3>1, HitsConcat DEF u
    <3>6. QED
      BY <1>4, <2>1, <3>1, <3>4, <3>5, NearestIs
  <2>9. QED
    BY <1>1, <1>3, <2>2, <2>6, <2>7, <2>8 DEF view, u
<1>7. QED
  BY <1>5, <1>6

\* What a record is probed with, and the entries that are the same.
TextOf(r) == IF r.kind = "generated" THEN None ELSE r.text
ImageOf(r) == IF r.kind = "generated" \/ config.modality = "text" THEN None ELSE r.image
Same(s, r) == {i \in DOMAIN s : s[i].exact = r.exact}
LeastOf(S) == CHOOSE i \in S : \A j \in S : i <= j
Exactly(r, e) == [Verdict("exact", e) EXCEPT !.key = r.exact]

\* There is one least place.
LEMMA LeastIs ==
  ASSUME NEW S \in SUBSET Nat, S # {}
  PROVE  /\ LeastOf(S) \in S /\ \A j \in S : LeastOf(S) <= j
         /\ \A i \in S : (\A j \in S : i <= j) => i = LeastOf(S)
<1>1. PICK i \in S : \A j \in S : i <= j
  BY LeastNatural
<1>2. LeastOf(S) \in S /\ \A j \in S : LeastOf(S) <= j
  BY <1>1 DEF LeastOf
<1>3. ASSUME NEW k \in S, \A j \in S : k <= j PROVE k = LeastOf(S)
  <2>1. k <= LeastOf(S) /\ LeastOf(S) <= k /\ k \in Nat /\ LeastOf(S) \in Nat
    BY <1>2, <1>3
  <2>2. QED
    BY <2>1
<1>4. QED
  BY <1>2, <1>3

\* What a record is probed with, and what is kept of it, is of its type.
LEMMA FeatureTypes ==
  ASSUME NEW c \in Contents
  PROVE  /\ Feature[c].text \in Point /\ Feature[c].image \in Point /\ Feature[c].vector \in Point
         /\ TextOf(Feature[c]) \in Point /\ ImageOf(Feature[c]) \in Point /\ None \in Point
         /\ \A id \in Nat \X Nat, x \in Point : Entry(id, Feature[c], x) \in Entries
<1>1. /\ Feature[c].text \in Point /\ Feature[c].image \in Point /\ Feature[c].vector \in Point
      /\ None \in Point
  BY DedupAssumption DEF Point
<1>2. TextOf(Feature[c]) \in Point /\ ImageOf(Feature[c]) \in Point
  BY <1>1 DEF TextOf, ImageOf
<1>3. \A id \in Nat \X Nat, x \in Point : Entry(id, Feature[c], x) \in Entries
  BY <1>2 DEF Entry, Entries, TextOf, ImageOf
<1>4. QED
  BY <1>1, <1>2, <1>3

\* The verdict of the first three levels over one index, and over two.
LEMMA ProbeOne ==
  ASSUME NEW s \in Seq(Entries), NEW c \in Contents
  PROVE  Probe(<<s>>, Feature[c]) =
           IF Same(s, Feature[c]) # {}
           THEN Exactly(Feature[c], s[LeastOf(Same(s, Feature[c]))])
           ELSE Compose(Feature[c], Nearest(s, "text", TextOf(Feature[c])),
                                    Nearest(s, "image", ImageOf(Feature[c])))
<1> DEFINE r == Feature[c]
           view == <<s>>
           known == {v \in DOMAIN view : Same(view[v], r) # {}}
           first == CHOOSE v \in known : \A w \in known : v <= w
<1>1. Probe(view, r) =
        IF known # {} THEN Exactly(r, view[first][LeastOf(Same(view[first], r))])
        ELSE Compose(r, NearestIn(view, "text", TextOf(r)), NearestIn(view, "image", ImageOf(r)))
  BY Zenon DEF Probe, Same, LeastOf, Exactly, TextOf, ImageOf
<1>2. DOMAIN view = {1} /\ view[1] = s
  OBVIOUS
<1>3. known = IF Same(s, r) # {} THEN {1} ELSE {}
  BY <1>2
<1>4. Same(s, r) # {} => first = 1
  BY <1>3
<1>5. /\ NearestIn(view, "text", TextOf(r)) = Nearest(s, "text", TextOf(r))
      /\ NearestIn(view, "image", ImageOf(r)) = Nearest(s, "image", ImageOf(r))
  BY NearestInOne, FeatureTypes DEF Features
<1> HIDE DEF view, first, known
<1>6. QED
  BY <1>1, <1>2, <1>3, <1>4, <1>5 DEF view

\* The probe of an overlay: the prefix before what the session adds.
LEMMA ProbeTwo ==
  ASSUME NEW s \in Seq(Entries), NEW t \in Seq(Entries), NEW c \in Contents
  PROVE  Probe(<<s, t>>, Feature[c]) =
           IF Same(s, Feature[c]) # {}
           THEN Exactly(Feature[c], s[LeastOf(Same(s, Feature[c]))])
           ELSE IF Same(t, Feature[c]) # {}
           THEN Exactly(Feature[c], t[LeastOf(Same(t, Feature[c]))])
           ELSE Compose(Feature[c], NearestIn(<<s, t>>, "text", TextOf(Feature[c])),
                                    NearestIn(<<s, t>>, "image", ImageOf(Feature[c])))
<1> DEFINE r == Feature[c]
           view == <<s, t>>
           known == {v \in DOMAIN view : Same(view[v], r) # {}}
           first == CHOOSE v \in known : \A w \in known : v <= w
<1>1. Probe(view, r) =
        IF known # {} THEN Exactly(r, view[first][LeastOf(Same(view[first], r))])
        ELSE Compose(r, NearestIn(view, "text", TextOf(r)), NearestIn(view, "image", ImageOf(r)))
  BY Zenon DEF Probe, Same, LeastOf, Exactly, TextOf, ImageOf
<1>2. DOMAIN view = {1, 2} /\ view[1] = s /\ view[2] = t
  OBVIOUS
<1>3. first = LeastOf(known)
  BY DEF LeastOf
<1>4. known \in SUBSET Nat /\ (1 \in known <=> Same(s, r) # {}) /\ (2 \in known <=> Same(t, r) # {})
      /\ known \subseteq {1, 2}
  BY <1>2
<1> HIDE DEF view, first, known
<1>5. CASE Same(s, r) # {}
  <2>1. 1 \in known /\ (\A w \in known : 1 <= w) /\ known # {}
    BY <1>4, <1>5
  <2>2. first = 1
    BY <1>3, <1>4, <2>1, LeastIs
  <2>3. QED
    BY <1>1, <1>2, <1>5, <2>1, <2>2 DEF view
<1>6. CASE Same(s, r) = {} /\ Same(t, r) # {}
  <2>1. 2 \in known /\ (\A w \in known : 2 <= w) /\ known # {}
    BY <1>4, <1>6
  <2>2. first = 2
    BY <1>3, <1>4, <2>1, LeastIs
  <2>3. QED
    BY <1>1, <1>2, <1>6, <2>1, <2>2 DEF view
<1>7. CASE Same(s, r) = {} /\ Same(t, r) = {}
  <2>1. known = {}
    BY <1>4, <1>7
  <2>2. QED
    BY <1>1, <1>7, <2>1 DEF view
<1>8. QED
  BY <1>5, <1>6, <1>7

\* The probe of an overlay judges as the index does that the overlay becomes.
LEMMA ProbeOverlay ==
  ASSUME NEW s \in Seq(Entries), NEW t \in Seq(Entries), NEW c \in Contents
  PROVE  Probe(<<s, t>>, Feature[c]) = Probe(<<s \o t>>, Feature[c])
<1> DEFINE r == Feature[c]
           u == s \o t
<1>1. u \in Seq(Entries)
  BY ConcatProperties
<1>2. /\ DOMAIN s = 1 .. Len(s) /\ DOMAIN t = 1 .. Len(t) /\ Len(s) \in Nat /\ Len(t) \in Nat
      /\ DOMAIN u = 1 .. Len(s) + Len(t)
      /\ \A i \in DOMAIN s : u[i] = s[i] /\ i \in DOMAIN u
      /\ \A j \in DOMAIN t : u[Len(s) + j] = t[j] /\ Len(s) + j \in DOMAIN u
  BY <1>1
<1>3. \A k \in DOMAIN u : k \in DOMAIN s \/ (k - Len(s) \in DOMAIN t /\ k = Len(s) + (k - Len(s)))
  BY <1>2
<1> HIDE DEF u
<1>4. Probe(<<u>>, r) =
        IF Same(u, r) # {} THEN Exactly(r, u[LeastOf(Same(u, r))])
        ELSE Compose(r, Nearest(u, "text", TextOf(r)), Nearest(u, "image", ImageOf(r)))
  BY <1>1, ProbeOne
<1>5. CASE Same(s, r) # {}
  <2> DEFINE i == LeastOf(Same(s, r))
  <2>1. Same(s, r) \in SUBSET Nat
    BY <1>2 DEF Same
  <2>2. i \in Same(s, r) /\ \A j \in Same(s, r) : i <= j
    BY <1>5, <2>1, LeastIs
  <2> HIDE DEF i
  <2>3. i \in DOMAIN s /\ i \in Same(u, r) /\ Same(u, r) \in SUBSET Nat
    BY <1>2, <2>2 DEF Same
  <2>4. ASSUME NEW k \in Same(u, r) PROVE i <= k
    <3>1. k \in DOMAIN u
      BY DEF Same
    <3>2. CASE k \in DOMAIN s
      BY <1>2, <2>2, <3>2 DEF Same
    <3>3. CASE k \notin DOMAIN s
      BY <1>2, <2>3, <3>1, <3>3
    <3>4. QED
      BY <3>2, <3>3
  <2>5. i = LeastOf(Same(u, r))
    BY <2>3, <2>4, LeastIs
  <2>6. u[i] = s[i]
    BY <1>2, <2>3
  <2>7. Probe(<<u>>, r) = Exactly(r, s[i])
    BY <1>4, <2>3, <2>5, <2>6
  <2>8. QED
    BY <1>5, <2>7, ProbeTwo DEF u, i
<1>6. CASE Same(s, r) = {} /\ Same(t, r) # {}
  <2> DEFINE i == LeastOf(Same(t, r))
  <2>1. Same(t, r) \in SUBSET Nat
    BY <1>2 DEF Same
  <2>2. i \in Same(t, r) /\ \A j \in Same(t, r) : i <= j
    BY <1>6, <2>1, LeastIs
  <2> HIDE DEF i
  <2>3. i \in DOMAIN t /\ Len(s) + i \in Same(u, r) /\ Same(u, r) \in SUBSET Nat
    BY <1>2, <2>2 DEF Same
  <2>4. ASSUME NEW k \in Same(u, r) PROVE Len(s) + i <= k
    <3>1. k \in DOMAIN u /\ u[k].exact = r.exact
      BY DEF Same
    <3>2. k \notin DOMAIN s
      BY <1>2, <1>6, <3>1 DEF Same
    <3>3. k - Len(s) \in DOMAIN t /\ k = Len(s) + (k - Len(s))
      BY <1>3, <3>1, <3>2
    <3>4. t[k - Len(s)] = u[k]
      BY <1>2, <3>3
    <3>5. i <= k - Len(s)
      BY <2>2, <3>1, <3>3, <3>4 DEF Same
    <3>6. QED
      BY <1>2, <2>3, <3>1, <3>5
  <2>5. Len(s) + i = LeastOf(Same(u, r))
    BY <2>3, <2>4, LeastIs
  <2>6. u[Len(s) + i] = t[i]
    BY <1>2, <2>3
  <2>7. Probe(<<u>>, r) = Exactly(r, t[i])
    BY <1>4, <2>3, <2>5, <2>6
  <2>8. QED
    BY <1>6, <2>7, ProbeTwo DEF u, i
<1>7. CASE Same(s, r) = {} /\ Same(t, r) = {}
  <2>1. Same(u, r) = {}
    <3>1. ASSUME NEW k \in Same(u, r) PROVE FALSE
      <4>1. k \in DOMAIN u /\ u[k].exact = r.exact
        BY DEF Same
      <4>2. CASE k \in DOMAIN s
        BY <1>2, <1>7, <4>1, <4>2 DEF Same
      <4>3. CASE k \notin DOMAIN s
        <5>1. k - Len(s) \in DOMAIN t /\ k = Len(s) + (k - Len(s))
          BY <1>3, <4>1, <4>3
        <5>2. t[k - Len(s)] = u[k]
          BY <1>2, <5>1
        <5>3. QED
          BY <1>7, <4>1, <5>1, <5>2 DEF Same
      <4>4. QED
        BY <4>2, <4>3
    <3>2. QED
      BY <3>1
  <2>2. \A f \in {"text", "image"}, p \in Point :
          Nearest(u, f, p) = NearestIn(<<s, t>>, f, p)
    <3>1. ASSUME NEW f \in {"text", "image"}, NEW p \in Point
          PROVE  Nearest(u, f, p) = NearestIn(<<s, t>>, f, p)
      <4>1. f \in Features /\ s \o t \in Seq(Entries)
        BY <1>1 DEF Features, u
      <4>2. NearestIn(<<s, t>>, f, p) = NearestIn(<<s \o t>>, f, p)
        BY <4>1, NearestInOverlay
      <4>3. NearestIn(<<s \o t>>, f, p) = Nearest(s \o t, f, p)
        BY <4>1, NearestInOne
      <4>4. QED
        BY <4>2, <4>3 DEF u
    <3>2. QED
      BY <3>1
  <2>3. Probe(<<u>>, r) =
          Compose(r, NearestIn(<<s, t>>, "text", TextOf(r)), NearestIn(<<s, t>>, "image", ImageOf(r)))
    BY <1>4, <2>1, <2>2, FeatureTypes
  <2>4. QED
    BY <1>7, <2>3, ProbeTwo DEF u
<1>8. QED
  BY <1>5, <1>6, <1>7

\* The verdict of all levels, given what the probes of a view found.
Settled4(info, near, hit, id, r, outcome) ==
  LET image == IF config.modality = "text" THEN None ELSE near
      kind == IF hit = None THEN None ELSE SemanticKind(r, image)
  IN IF info.kind # "unique" THEN [verdict |-> info, adds |-> <<>>]
     ELSE
     CASE outcome = "broken" -> [verdict |-> Failed, adds |-> <<>>]
       [] outcome \in {"none", "unavailable"} ->
            [verdict |-> info, adds |-> <<Entry(id, r, None)>>]
       [] outcome = "vector" /\ kind = None ->
            [verdict |-> info, adds |-> <<Entry(id, r, r.vector)>>]
       [] outcome = "vector" /\ kind # None -> [verdict |-> Verdict(kind, hit), adds |-> <<>>]

\* Reduce judges by the probe and by the nearest image and vector.
LEMMA ReduceIs ==
  \A view, id, r, outcome :
    Reduce(view, id, r, outcome) =
      Settled4(Probe(view, r), NearestIn(view, "image", r.image), NearestIn(view, "vector", r.vector),
             id, r, outcome)
BY ZenonT(60) DEF Reduce, Settled4

\* A record is judged alike on an overlay and on the index that it becomes.
LEMMA ReduceOverlay ==
  ASSUME NEW s \in Seq(Entries), NEW t \in Seq(Entries), NEW c \in Contents, NEW id, NEW outcome
  PROVE  Reduce(<<s, t>>, id, Feature[c], outcome) = Reduce(<<s \o t>>, id, Feature[c], outcome)
<1>1. Probe(<<s, t>>, Feature[c]) = Probe(<<s \o t>>, Feature[c])
  BY ProbeOverlay
<1>2. /\ NearestIn(<<s, t>>, "image", Feature[c].image)
           = NearestIn(<<s \o t>>, "image", Feature[c].image)
      /\ NearestIn(<<s, t>>, "vector", Feature[c].vector)
           = NearestIn(<<s \o t>>, "vector", Feature[c].vector)
  BY NearestInOverlay, FeatureTypes DEF Features
<1>3. QED
  BY <1>1, <1>2, ReduceIs

-------------------------------------------------------------------------------
(* The verdict on a record                                                 *)

Kinds == {"unique", "failed", "exact", "near_text", "near_image", "near_both", "near_semantic"}
Keys == {Feature[c].exact : c \in Contents} \union {None}
Verdicts == [kind : Kinds, key : Keys, kept : (Nat \X Nat) \union {None}]

\* A duplicate names a record that the index holds.
Named(v, s) == v.kind \notin {"unique", "failed"} => \E i \in DOMAIN s : s[i].id = v.kept

\* A verdict that an entry of the index gives rise to.
LEMMA VerdictTypes ==
  ASSUME NEW s \in Seq(Entries), NEW i \in DOMAIN s, NEW kind \in Kinds
  PROVE  Verdict(kind, s[i]) \in Verdicts /\ Named(Verdict(kind, s[i]), s)
<1>1. s[i] \in Entries
  BY ElementOfSeq
<1>2. s[i].exact \in Keys /\ s[i].id \in Nat \X Nat
  BY <1>1 DEF Entries, Keys
<1>3. QED
  BY <1>2 DEF Verdict, Verdicts, Named

\* What the sides have to agree on decides whether there is an entry to name.
LEMMA ComposeTypes ==
  ASSUME config \in Configs, NEW s \in Seq(Entries), NEW c \in Contents, NEW tree, NEW image,
         tree # None => \E i \in DOMAIN s : tree = s[i],
         image # None => \E i \in DOMAIN s : image = s[i]
  PROVE  LET v == Compose(Feature[c], tree, image)
         IN v \in Verdicts /\ v.kind # "failed" /\ Named(v, s)
<1> DEFINE r == Feature[c]
           v == Compose(r, tree, image)
<1>1. Requires(r) \in {"both", "tree", "image"} /\ config.modality \in {"text", "ui"}
  BY DedupAssumption DEF Requires
<1>2. \/ v = Unique(r)
      \/ tree # None /\ (v = Verdict("near_text", tree) \/ v = Verdict("near_both", tree))
      \/ image # None /\ v = Verdict("near_image", image)
  BY <1>1 DEF Compose
<1>3. Unique(r) \in Verdicts /\ Unique(r).kind = "unique"
  BY DEF Unique, Verdicts, Kinds, Keys
<1>4. ASSUME NEW kind \in Kinds, NEW i \in DOMAIN s
      PROVE  Verdict(kind, s[i]) \in Verdicts /\ Named(Verdict(kind, s[i]), s)
               /\ Verdict(kind, s[i]).kind = kind
  BY VerdictTypes DEF Verdict
<1> HIDE DEF v
<1>5. CASE v = Unique(r)
  BY <1>3, <1>5 DEF Named, v
<1>6. CASE tree # None /\ (v = Verdict("near_text", tree) \/ v = Verdict("near_both", tree))
  <2>1. PICK i \in DOMAIN s : tree = s[i]
    BY <1>6
  <2>2. "near_text" \in Kinds /\ "near_both" \in Kinds
    BY DEF Kinds
  <2>3. QED
    BY <1>4, <1>6, <2>1, <2>2 DEF v
<1>7. CASE image # None /\ v = Verdict("near_image", image)
  <2>1. PICK i \in DOMAIN s : image = s[i]
    BY <1>7
  <2>2. "near_image" \in Kinds
    BY DEF Kinds
  <2>3. QED
    BY <1>4, <1>7, <2>1, <2>2 DEF v
<1>8. QED
  BY <1>2, <1>5, <1>6, <1>7

\* The probe of an index drops a record only for one that is in the index.
LEMMA ProbeTypes ==
  ASSUME config \in Configs, NEW s \in Seq(Entries), NEW c \in Contents
  PROVE  LET v == Probe(<<s>>, Feature[c])
         IN v \in Verdicts /\ v.kind # "failed" /\ Named(v, s)
<1> DEFINE r == Feature[c]
<1>1. CASE Same(s, r) # {}
  <2> DEFINE i == LeastOf(Same(s, r))
  <2>1. Same(s, r) \in SUBSET Nat
    BY DEF Same
  <2>2. i \in Same(s, r)
    BY <1>1, <2>1, LeastIs
  <2> HIDE DEF i
  <2>3. i \in DOMAIN s
    BY <2>2 DEF Same
  <2>4. Probe(<<s>>, r) = Exactly(r, s[i])
    BY <1>1, ProbeOne DEF i
  <2>5. s[i] \in Entries
    BY <2>3, ElementOfSeq
  <2>6. s[i].id \in Nat \X Nat
    BY <2>5 DEF Entries
  <2>7. Exactly(r, s[i]) = [kind |-> "exact", key |-> r.exact, kept |-> s[i].id]
    BY DEF Exactly, Verdict
  <2>8. QED
    BY <2>3, <2>4, <2>6, <2>7 DEF Verdicts, Kinds, Keys, Named
<1>2. CASE Same(s, r) = {}
  <2>1. TextOf(r) \in Point /\ ImageOf(r) \in Point
    BY FeatureTypes
  <2> DEFINE tree == Nearest(s, "text", TextOf(r))
             image == Nearest(s, "image", ImageOf(r))
  <2>2. tree # None => \E i \in DOMAIN s : tree = s[i]
    BY <2>1, NearestType DEF Features
  <2>3. image # None => \E i \in DOMAIN s : image = s[i]
    BY <2>1, NearestType DEF Features
  <2>4. Probe(<<s>>, r) = Compose(r, tree, image)
    BY <1>2, ProbeOne
  <2> HIDE DEF tree, image
  <2>5. QED
    BY <2>2, <2>3, <2>4, ComposeTypes
<1>3. QED
  BY <1>1, <1>2

Outcomes == {"vector", "unavailable", "broken", "none"}

\* What is added is the record that is unique, and nothing else.
Sound(one, s) ==
  /\ one.verdict \in Verdicts /\ Named(one.verdict, s)
  /\ one.adds \in Seq(Entries)
  /\ Len(one.adds) = IF one.verdict.kind = "unique" THEN 1 ELSE 0

\* A verdict with a record that is not unique adds nothing, one that is unique an entry.
LEMMA SoundStep ==
  ASSUME NEW s, NEW v \in Verdicts, Named(v, s)
  PROVE  /\ v.kind # "unique" => Sound([verdict |-> v, adds |-> <<>>], s)
         /\ v.kind = "unique" => \A e \in Entries : Sound([verdict |-> v, adds |-> <<e>>], s)
<1>1. <<>> \in Seq(Entries) /\ Len(<<>>) = 0
  OBVIOUS
<1>2. \A e \in Entries : <<e>> \in Seq(Entries) /\ Len(<<e>>) = 1
  OBVIOUS
<1>3. QED
  BY <1>1, <1>2 DEF Sound

\* Reducing one record adds an entry exactly if the record is unique.
LEMMA ReduceTypes ==
  ASSUME config \in Configs, NEW s \in Seq(Entries), NEW c \in Contents,
         NEW id \in Nat \X Nat, NEW outcome \in Outcomes
  PROVE  Sound(Reduce(<<s>>, id, Feature[c], outcome), s)
<1> DEFINE r == Feature[c]
           info == Probe(<<s>>, r)
           near == NearestIn(<<s>>, "image", r.image)
           hit == NearestIn(<<s>>, "vector", r.vector)
           one == Reduce(<<s>>, id, r, outcome)
<1>1. one = Settled4(info, near, hit, id, r, outcome)
  BY ReduceIs
<1>2. info \in Verdicts /\ info.kind # "failed" /\ Named(info, s)
  BY ProbeTypes
<1>3. hit # None => \E i \in DOMAIN s : hit = s[i]
  <2>1. hit = Nearest(s, "vector", r.vector)
    BY NearestInOne, FeatureTypes DEF Features
  <2>2. QED
    BY <2>1, NearestType, FeatureTypes DEF Features
<1>4. /\ Entry(id, r, None) \in Entries /\ Entry(id, r, r.vector) \in Entries
  BY FeatureTypes
<1> HIDE DEF info, near, hit, one
<1> DEFINE image == IF config.modality = "text" THEN None ELSE near
           kind == IF hit = None THEN None ELSE SemanticKind(r, image)
<1>5. CASE info.kind # "unique"
  <2>1. one = [verdict |-> info, adds |-> <<>>]
    BY <1>1, <1>5 DEF Settled4
  <2>2. QED
    BY <1>2, <1>5, <2>1, SoundStep DEF one
<1>6. CASE info.kind = "unique" /\ outcome = "broken"
  <2>1. one = [verdict |-> Failed, adds |-> <<>>]
    BY <1>1, <1>6 DEF Settled4
  <2>2. Failed \in Verdicts /\ Named(Failed, s) /\ Failed.kind # "unique"
    BY DEF Failed, Verdicts, Kinds, Keys, Named
  <2>3. QED
    BY <2>1, <2>2, SoundStep DEF one
<1>7. CASE info.kind = "unique" /\ outcome # "broken" /\ (outcome = "vector" => kind = None)
  <2>1. \/ one = [verdict |-> info, adds |-> <<Entry(id, r, None)>>]
        \/ one = [verdict |-> info, adds |-> <<Entry(id, r, r.vector)>>]
    BY <1>1, <1>7 DEF Settled4, Outcomes
  <2>2. QED
    BY <1>2, <1>4, <1>7, <2>1, SoundStep DEF one
<1>8. CASE info.kind = "unique" /\ outcome = "vector" /\ kind # None
  <2>1. one = [verdict |-> Verdict(kind, hit), adds |-> <<>>]
    BY <1>1, <1>8 DEF Settled4
  <2>2. PICK i \in DOMAIN s : hit = s[i]
    BY <1>3, <1>8
  <2>3. kind \in {"near_semantic", "near_both"}
    BY <1>8 DEF SemanticKind
  <2>4. kind \in Kinds
    BY <2>3 DEF Kinds
  <2> HIDE DEF kind
  <2>5. Verdict(kind, hit) \in Verdicts /\ Named(Verdict(kind, hit), s)
    BY <2>2, <2>4, VerdictTypes
  <2>6. Verdict(kind, hit).kind # "unique"
    BY <2>3 DEF Verdict
  <2>7. QED
    BY <2>1, <2>5, <2>6, SoundStep DEF one
<1>9. QED
  BY <1>5, <1>6, <1>7, <1>8 DEF Outcomes

-------------------------------------------------------------------------------
(* The reduction of a batch                                                *)

Nothing == [own |-> <<>>, verdicts |-> <<>>]

\* The reduction as a function of how many records were judged.
Reducing(F, prefix, recs, outs, indexes, n) ==
  F = [k \in 0 .. n |->
         IF k = 0 THEN Nothing
         ELSE ReduceNext(F[k - 1], prefix, k, recs[k], outs[k], indexes)]
Reduced(prefix, recs, outs, indexes) ==
  CHOOSE F : Reducing(F, prefix, recs, outs, indexes, Len(recs))

\* The reduction loop can be run for any number of records.
LEMMA ReducingExists ==
  ASSUME NEW prefix, NEW recs, NEW outs, NEW indexes, NEW m \in Nat
  PROVE  \E F : Reducing(F, prefix, recs, outs, indexes, m)
<1> DEFINE Q == {n \in Nat : \E F : Reducing(F, prefix, recs, outs, indexes, n)}
           Next1(acc, k) == ReduceNext(acc, prefix, k, recs[k], outs[k], indexes)
<1>1. 0 \in Q
  <2> DEFINE F == [k \in 0 .. 0 |-> Nothing]
  <2>1. \A k \in 0 .. 0 : k = 0
    OBVIOUS
  <2>2. F = [k \in 0 .. 0 |-> IF k = 0 THEN Nothing ELSE Next1(F[k - 1], k)]
    <3> HIDE DEF Nothing, Next1
    <3>1. QED
      BY <2>1
  <2>3. Reducing(F, prefix, recs, outs, indexes, 0)
    BY <2>2, Zenon DEF Reducing
  <2>4. QED
    BY <2>3
<1>2. ASSUME NEW n \in Q PROVE n + 1 \in Q
  <2>1. PICK F : Reducing(F, prefix, recs, outs, indexes, n)
    OBVIOUS
  <2> DEFINE G == [k \in 0 .. n + 1 |-> IF k = 0 THEN Nothing ELSE Next1(F[k - 1], k)]
  <2>2. F = [k \in 0 .. n |-> IF k = 0 THEN Nothing ELSE Next1(F[k - 1], k)]
    BY <2>1, Zenon DEF Reducing
  <2> HIDE DEF Next1, Nothing
  <2>3. n \in Nat
    OBVIOUS
  <2>4. \A k \in 0 .. n : k \in 0 .. n + 1 /\ G[k] = F[k]
    BY <2>2, <2>3
  <2>5. \A k \in 0 .. n + 1 : k # 0 => k - 1 \in 0 .. n
    BY <2>3
  <2>6. G = [k \in 0 .. n + 1 |-> IF k = 0 THEN Nothing ELSE Next1(G[k - 1], k)]
    BY <2>4, <2>5
  <2>7. Reducing(G, prefix, recs, outs, indexes, n + 1)
    BY <2>6, Zenon DEF Reducing, Next1
  <2>8. QED
    BY <2>3, <2>7
<1>3. Q = Nat
  BY <1>1, <1>2, SetInduction
<1>4. QED
  BY <1>3

\* What the loop returns is its last step's; each step goes on from the one before.
LEMMA ReductionSteps ==
  ASSUME NEW prefix, NEW recs \in Seq(Contents), NEW outs, NEW indexes
  PROVE  LET F == Reduced(prefix, recs, outs, indexes)
         IN /\ Reduction(prefix, recs, outs, indexes) = F[Len(recs)]
            /\ F[0] = Nothing
            /\ \A n \in 1 .. Len(recs) :
                 F[n] = ReduceNext(F[n - 1], prefix, n, recs[n], outs[n], indexes)
<1> DEFINE F == Reduced(prefix, recs, outs, indexes)
<1>1. Len(recs) \in Nat
  OBVIOUS
<1>2. Reducing(F, prefix, recs, outs, indexes, Len(recs))
  BY <1>1, ReducingExists DEF Reduced
<1>3. Reduction(prefix, recs, outs, indexes) = F[Len(recs)]
  BY Zenon DEF Reduction, Reduced, Reducing, Nothing
<1> HIDE DEF F
<1>4. F[0] = Nothing
  BY <1>1, <1>2 DEF Reducing
<1>5. ASSUME NEW n \in 1 .. Len(recs)
      PROVE  F[n] = ReduceNext(F[n - 1], prefix, n, recs[n], outs[n], indexes)
  BY <1>1, <1>2 DEF Reducing
<1>6. QED
  BY <1>3, <1>4, <1>5 DEF F

\* The verdicts that kept a record, up to the n-th.
Uniques(vs, n) == {i \in 1 .. n : vs[i].kind = "unique"}

\* One more verdict is one more unique record, or none.
LEMMA UniquesNext ==
  ASSUME NEW vs, NEW n \in Nat
  PROVE  /\ Cardinality(Uniques(vs, 0)) = 0
         /\ IsFiniteSet(Uniques(vs, n)) /\ Cardinality(Uniques(vs, n)) \in Nat
         /\ Cardinality(Uniques(vs, n + 1)) =
              Cardinality(Uniques(vs, n)) + (IF vs[n + 1].kind = "unique" THEN 1 ELSE 0)
<1>1. Uniques(vs, 0) = {}
  BY DEF Uniques
<1>2. Uniques(vs, n) \subseteq 1 .. n /\ IsFiniteSet(1 .. n)
  BY FS_Interval DEF Uniques
<1>3. IsFiniteSet(Uniques(vs, n)) /\ Cardinality(Uniques(vs, n)) \in Nat
  BY <1>2, FS_Subset, FS_CardinalityType
<1>4. n + 1 \notin Uniques(vs, n)
  BY DEF Uniques
<1>5. CASE vs[n + 1].kind = "unique"
  <2>1. Uniques(vs, n + 1) = Uniques(vs, n) \union {n + 1}
    BY <1>5 DEF Uniques
  <2>2. Cardinality(Uniques(vs, n) \union {n + 1}) = Cardinality(Uniques(vs, n)) + 1
    BY <1>3, <1>4, FS_AddElement
  <2>3. QED
    BY <1>1, <1>3, <1>5, <2>1, <2>2, FS_EmptySet
<1>6. CASE vs[n + 1].kind # "unique"
  <2>1. Uniques(vs, n + 1) = Uniques(vs, n)
    BY <1>6 DEF Uniques
  <2>2. QED
    BY <1>1, <1>3, <1>6, <2>1, FS_EmptySet
<1>7. QED
  BY <1>5, <1>6

\* Only the verdicts themselves count.
LEMMA UniquesSame ==
  ASSUME NEW s, NEW t, NEW n, \A i \in 1 .. n : s[i] = t[i]
  PROVE  Uniques(s, n) = Uniques(t, n)
BY DEF Uniques

\* The unique records of two histories are counted apart.
LEMMA UniquesConcat ==
  ASSUME NEW s \in Seq(Verdicts), NEW t \in Seq(Verdicts)
  PROVE  Cardinality(Uniques(s \o t, Len(s \o t))) =
           Cardinality(Uniques(s, Len(s))) + Cardinality(Uniques(t, Len(t)))
<1> DEFINE u == s \o t
           Q == {n \in Nat : n <= Len(t) =>
                   Cardinality(Uniques(u, Len(s) + n)) =
                     Cardinality(Uniques(s, Len(s))) + Cardinality(Uniques(t, n))}
<1>1. /\ Len(s) \in Nat /\ Len(t) \in Nat /\ Len(u) = Len(s) + Len(t)
      /\ \A i \in 1 .. Len(s) : u[i] = s[i]
      /\ \A j \in 1 .. Len(t) : u[Len(s) + j] = t[j]
  OBVIOUS
<1> HIDE DEF u
<1>2. 0 \in Q
  <2>1. Uniques(u, Len(s)) = Uniques(s, Len(s))
    BY <1>1, UniquesSame
  <2>2. Cardinality(Uniques(t, 0)) = 0 /\ Cardinality(Uniques(s, Len(s))) \in Nat
    BY <1>1, UniquesNext
  <2>3. QED
    BY <1>1, <2>1, <2>2
<1>3. ASSUME NEW n \in Q PROVE n + 1 \in Q
  <2>1. SUFFICES ASSUME n + 1 <= Len(t)
                 PROVE  Cardinality(Uniques(u, Len(s) + (n + 1))) =
                          Cardinality(Uniques(s, Len(s))) + Cardinality(Uniques(t, n + 1))
    OBVIOUS
  <2>2. n \in Nat /\ Len(s) + n \in Nat /\ Len(s) + (n + 1) = (Len(s) + n) + 1 /\ n <= Len(t)
    BY <1>1, <2>1
  <2>3. u[(Len(s) + n) + 1] = t[n + 1]
    BY <1>1, <2>1, <2>2
  <2> DEFINE one == IF t[n + 1].kind = "unique" THEN 1 ELSE 0
  <2>4. Cardinality(Uniques(u, Len(s) + (n + 1))) = Cardinality(Uniques(u, Len(s) + n)) + one
    <3>1. PICK m \in Nat : m = Len(s) + n
      BY <2>2
    <3>2. Cardinality(Uniques(u, m + 1)) =
            Cardinality(Uniques(u, m)) + (IF u[m + 1].kind = "unique" THEN 1 ELSE 0)
      BY UniquesNext
    <3>3. QED
      BY <2>2, <2>3, <3>1, <3>2
  <2>5. Cardinality(Uniques(t, n + 1)) = Cardinality(Uniques(t, n)) + one
    BY <2>2, UniquesNext
  <2>6. Cardinality(Uniques(u, Len(s) + n)) =
          Cardinality(Uniques(s, Len(s))) + Cardinality(Uniques(t, n))
    BY <2>2
  <2>7. /\ Cardinality(Uniques(s, Len(s))) \in Nat /\ Cardinality(Uniques(t, n)) \in Nat
        /\ one \in Nat
    BY <1>1, <2>2, UniquesNext
  <2>8. QED
    BY <2>4, <2>5, <2>6, <2>7
<1>4. Q = Nat
  BY <1>2, <1>3, SetInduction
<1>5. Len(t) \in Q
  BY <1>1, <1>4
<1>6. QED
  BY <1>1, <1>5 DEF u

\* The entries of a reduction are the records that its verdicts kept, and a
\* duplicate names one of them, or one that was there before.
Accumulated(done, prefix) ==
  /\ done.own \in Seq(Entries) /\ done.verdicts \in Seq(Verdicts)
  /\ \A i \in DOMAIN done.verdicts : Named(done.verdicts[i], prefix \o done.own)
  /\ Len(done.own) = Cardinality(Uniques(done.verdicts, Len(done.verdicts)))

\* What is named in a sequence of entries is named in a longer one.
LEMMA NamedStays ==
  ASSUME NEW v, NEW s \in Seq(Entries), NEW t \in Seq(Entries)
  PROVE  /\ Named(v, s) => Named(v, s \o t)
         /\ Named(v, t) => Named(v, s \o t)
<1>1. /\ \A i \in DOMAIN s : i \in DOMAIN (s \o t) /\ (s \o t)[i] = s[i]
      /\ \A j \in DOMAIN t : Len(s) + j \in DOMAIN (s \o t) /\ (s \o t)[Len(s) + j] = t[j]
  OBVIOUS
<1> DEFINE u == s \o t
<1> HIDE DEF u
<1>2. Named(v, s) => Named(v, u)
  BY <1>1 DEF Named, u
<1>3. Named(v, t) => Named(v, u)
  BY <1>1 DEF Named, u
<1>4. QED
  BY <1>2, <1>3 DEF u

\* Sequences of entries are joined in any order.
LEMMA EntriesAssociative ==
  ASSUME NEW s \in Seq(Entries), NEW t \in Seq(Entries), NEW u \in Seq(Entries)
  PROVE  (s \o t) \o u = s \o (t \o u)
BY ConcatAssociative

\* One record more, judged on one index or on two.
LEMMA ReduceNextIs ==
  \A done, prefix, i, c, outcome :
    /\ ReduceNext(done, prefix, i, c, outcome, 1) =
         LET one == Reduce(<<prefix \o done.own>>, Id(i), Feature[c], outcome)
         IN [own |-> done.own \o one.adds, verdicts |-> Append(done.verdicts, one.verdict)]
    /\ ReduceNext(done, prefix, i, c, outcome, 2) =
         LET one == Reduce(<<prefix, done.own>>, Id(i), Feature[c], outcome)
         IN [own |-> done.own \o one.adds, verdicts |-> Append(done.verdicts, one.verdict)]
<1>1. 1 # 2
  OBVIOUS
<1>2. TAKE done, prefix, i, c, outcome
<1> DEFINE direct == Reduce(<<prefix \o done.own>>, Id(i), Feature[c], outcome)
           local2 == Reduce(<<prefix, done.own>>, Id(i), Feature[c], outcome)
<1>3. ReduceNext(done, prefix, i, c, outcome, 1) =
        [own |-> done.own \o direct.adds, verdicts |-> Append(done.verdicts, direct.verdict)]
  BY <1>1 DEF ReduceNext
<1>4. ReduceNext(done, prefix, i, c, outcome, 2) =
        [own |-> done.own \o local2.adds, verdicts |-> Append(done.verdicts, local2.verdict)]
  BY DEF ReduceNext
<1>5. QED
  BY <1>3, <1>4

\* A step on the overlay is the step on the index.
LEMMA ReduceNextOverlay ==
  ASSUME NEW prefix \in Seq(Entries), NEW done, done.own \in Seq(Entries),
         NEW i, NEW c \in Contents, NEW outcome
  PROVE  ReduceNext(done, prefix, i, c, outcome, 2) = ReduceNext(done, prefix, i, c, outcome, 1)
<1> DEFINE id == Id(i)
           own == done.own
<1>1. own \in Seq(Entries)
  OBVIOUS
<1> HIDE DEF id, own
<1>2. Reduce(<<prefix, own>>, id, Feature[c], outcome)
        = Reduce(<<prefix \o own>>, id, Feature[c], outcome)
  <2>1. \A s, t \in Seq(Entries), d \in Contents : \A x, y :
          Reduce(<<s, t>>, x, Feature[d], y) = Reduce(<<s \o t>>, x, Feature[d], y)
    BY ReduceOverlay
  <2>2. \A t \in Seq(Entries), d \in Contents : \A x, y :
          Reduce(<<prefix, t>>, x, Feature[d], y) = Reduce(<<prefix \o t>>, x, Feature[d], y)
    BY <2>1, Zenon
  <2>3. \A d \in Contents : \A x, y :
          Reduce(<<prefix, own>>, x, Feature[d], y) = Reduce(<<prefix \o own>>, x, Feature[d], y)
    BY <1>1, <2>2
  <2>4. QED
    BY <2>3
<1>3. ReduceNext(done, prefix, i, c, outcome, 2) =
        LET one == Reduce(<<prefix, done.own>>, Id(i), Feature[c], outcome)
        IN [own |-> done.own \o one.adds, verdicts |-> Append(done.verdicts, one.verdict)]
  BY ReduceNextIs
<1>4. ReduceNext(done, prefix, i, c, outcome, 1) =
        LET one == Reduce(<<prefix \o done.own>>, Id(i), Feature[c], outcome)
        IN [own |-> done.own \o one.adds, verdicts |-> Append(done.verdicts, one.verdict)]
  BY ReduceNextIs
<1>5. QED
  BY <1>2, <1>3, <1>4, Zenon DEF id, own

\* A step of the loop keeps what has been reduced sound.
LEMMA ReduceNextTypes ==
  ASSUME config \in Configs, round \in Nat, NEW prefix \in Seq(Entries),
         NEW done, Accumulated(done, prefix),
         NEW n \in Nat, NEW c \in Contents, NEW outcome \in Outcomes
  PROVE  Accumulated(ReduceNext(done, prefix, n, c, outcome, 1), prefix)
<1> DEFINE s == prefix \o done.own
           one == Reduce(<<s>>, Id(n), Feature[c], outcome)
           own == done.own \o one.adds
           vs == Append(done.verdicts, one.verdict)
<1>1. /\ done.own \in Seq(Entries) /\ done.verdicts \in Seq(Verdicts)
      /\ \A i \in DOMAIN done.verdicts : Named(done.verdicts[i], s)
      /\ Len(done.own) = Cardinality(Uniques(done.verdicts, Len(done.verdicts)))
  BY DEF Accumulated
<1>2. s \in Seq(Entries) /\ Id(n) \in Nat \X Nat
  BY <1>1, ConcatProperties DEF Id
<1> HIDE DEF s
<1>3. Sound(one, s)
  BY <1>2, ReduceTypes
<1>4. ReduceNext(done, prefix, n, c, outcome, 1) = [own |-> own, verdicts |-> vs]
  BY ReduceNextIs, Zenon DEF s
<1> HIDE DEF one
<1>5. /\ one.verdict \in Verdicts /\ Named(one.verdict, s) /\ one.adds \in Seq(Entries)
      /\ Len(one.adds) = IF one.verdict.kind = "unique" THEN 1 ELSE 0
  BY <1>3 DEF Sound
<1>6. own \in Seq(Entries) /\ vs \in Seq(Verdicts) /\ Len(own) = Len(done.own) + Len(one.adds)
  <2>1. own \in Seq(Entries) /\ Len(own) = Len(done.own) + Len(one.adds)
    BY <1>1, <1>5, ConcatProperties
  <2>2. vs \in Seq(Verdicts)
    BY <1>1, <1>5
  <2>3. QED
    BY <2>1, <2>2
<1>7. prefix \o own = s \o one.adds
  <2>1. prefix \in Seq(Entries) /\ done.own \in Seq(Entries) /\ one.adds \in Seq(Entries)
    BY <1>1, <1>5
  <2>2. (prefix \o done.own) \o one.adds = prefix \o (done.own \o one.adds)
    BY <2>1, EntriesAssociative
  <2>3. QED
    BY <2>2 DEF s
<1>8. \A i \in DOMAIN vs : Named(vs[i], prefix \o own)
  <2>1. \A i \in DOMAIN vs : Named(vs[i], s)
    <3>1. /\ DOMAIN vs = 1 .. Len(done.verdicts) + 1 /\ vs[Len(done.verdicts) + 1] = one.verdict
          /\ DOMAIN done.verdicts = 1 .. Len(done.verdicts) /\ Len(done.verdicts) \in Nat
          /\ \A i \in DOMAIN done.verdicts : vs[i] = done.verdicts[i]
      BY <1>1, <1>5
    <3> HIDE DEF vs
    <3>2. \A i \in DOMAIN vs : i \in DOMAIN done.verdicts \/ i = Len(done.verdicts) + 1
      BY <3>1
    <3>3. QED
      BY <1>1, <1>5, <3>1, <3>2
  <2> HIDE DEF vs
  <2>2. QED
    BY <1>2, <1>5, <1>7, <2>1, NamedStays
<1>9. Len(own) = Cardinality(Uniques(vs, Len(vs)))
  <2>1. /\ Len(vs) = Len(done.verdicts) + 1 /\ Len(done.verdicts) \in Nat
        /\ vs[Len(done.verdicts) + 1] = one.verdict
        /\ \A i \in 1 .. Len(done.verdicts) : vs[i] = done.verdicts[i]
    BY <1>1, <1>5
  <2> HIDE DEF vs
  <2>2. Uniques(vs, Len(done.verdicts)) = Uniques(done.verdicts, Len(done.verdicts))
    BY <2>1, UniquesSame
  <2>3. Cardinality(Uniques(vs, Len(done.verdicts) + 1)) =
          Cardinality(Uniques(vs, Len(done.verdicts)))
            + (IF vs[Len(done.verdicts) + 1].kind = "unique" THEN 1 ELSE 0)
    BY <2>1, UniquesNext
  <2>4. QED
    BY <1>1, <1>5, <1>6, <2>1, <2>2, <2>3
<1> HIDE DEF own, vs
<1>10. QED
  BY <1>4, <1>6, <1>8, <1>9 DEF Accumulated

\* Settled4 directly, the reduction of a batch is sound.
LEMMA ReductionTypes ==
  ASSUME config \in Configs, round \in Nat, NEW prefix \in Seq(Entries),
         NEW recs \in Seq(Contents), NEW outs \in [DOMAIN recs -> Outcomes]
  PROVE  /\ Accumulated(Reduction(prefix, recs, outs, 1), prefix)
         /\ \A n \in 0 .. Len(recs) : Accumulated(Reduced(prefix, recs, outs, 1)[n], prefix)
<1> DEFINE F == Reduced(prefix, recs, outs, 1)
           Q == {n \in Nat : n <= Len(recs) => Accumulated(F[n], prefix)}
<1>1. /\ Reduction(prefix, recs, outs, 1) = F[Len(recs)] /\ F[0] = Nothing
      /\ \A n \in 1 .. Len(recs) : F[n] = ReduceNext(F[n - 1], prefix, n, recs[n], outs[n], 1)
  BY ReductionSteps
<1>2. Len(recs) \in Nat /\ DOMAIN recs = 1 .. Len(recs)
  OBVIOUS
<1> HIDE DEF F
<1>3. 0 \in Q
  <2>1. Cardinality(Uniques(<<>>, 0)) = 0
    BY UniquesNext
  <2>2. Accumulated(Nothing, prefix)
    BY <2>1 DEF Accumulated, Nothing
  <2>3. QED
    BY <1>1, <2>2
<1>4. ASSUME NEW n \in Q PROVE n + 1 \in Q
  <2>1. SUFFICES ASSUME n + 1 <= Len(recs) PROVE Accumulated(F[n + 1], prefix)
    OBVIOUS
  <2>2. n \in Nat /\ n + 1 \in 1 .. Len(recs) /\ (n + 1) - 1 = n /\ Accumulated(F[n], prefix)
    BY <1>2, <2>1
  <2>3. recs[n + 1] \in Contents /\ outs[n + 1] \in Outcomes
    BY <1>2, <2>2
  <2>4. F[n + 1] = ReduceNext(F[n], prefix, n + 1, recs[n + 1], outs[n + 1], 1)
    BY <1>1, <2>2
  <2>5. QED
    BY <1>2, <2>2, <2>3, <2>4, ReduceNextTypes
<1>5. Q = Nat
  BY <1>3, <1>4, SetInduction
<1>6. \A n \in 0 .. Len(recs) : Accumulated(F[n], prefix)
  BY <1>2, <1>5
<1>7. QED
  BY <1>1, <1>2, <1>6 DEF F

\* Settled4 on an overlay, it is the same.
LEMMA ReductionOverlay ==
  ASSUME config \in Configs, round \in Nat, NEW prefix \in Seq(Entries),
         NEW recs \in Seq(Contents), NEW outs \in [DOMAIN recs -> Outcomes]
  PROVE  Reduction(prefix, recs, outs, 2) = Reduction(prefix, recs, outs, 1)
<1> DEFINE F == Reduced(prefix, recs, outs, 1)
           G == Reduced(prefix, recs, outs, 2)
           Q == {n \in Nat : n <= Len(recs) => G[n] = F[n]}
<1>1. /\ Reduction(prefix, recs, outs, 1) = F[Len(recs)] /\ F[0] = Nothing
      /\ \A n \in 1 .. Len(recs) : F[n] = ReduceNext(F[n - 1], prefix, n, recs[n], outs[n], 1)
  BY ReductionSteps
<1>2. /\ Reduction(prefix, recs, outs, 2) = G[Len(recs)] /\ G[0] = Nothing
      /\ \A n \in 1 .. Len(recs) : G[n] = ReduceNext(G[n - 1], prefix, n, recs[n], outs[n], 2)
  BY ReductionSteps
<1>3. \A n \in 0 .. Len(recs) : Accumulated(F[n], prefix)
  BY ReductionTypes
<1>4. Len(recs) \in Nat /\ DOMAIN recs = 1 .. Len(recs)
  OBVIOUS
<1> HIDE DEF F, G
<1>5. 0 \in Q
  BY <1>1, <1>2
<1>6. ASSUME NEW n \in Q PROVE n + 1 \in Q
  <2>1. SUFFICES ASSUME n + 1 <= Len(recs) PROVE G[n + 1] = F[n + 1]
    OBVIOUS
  <2>2. n \in 0 .. Len(recs) /\ n + 1 \in 1 .. Len(recs) /\ (n + 1) - 1 = n /\ G[n] = F[n]
    BY <1>4, <2>1
  <2>3. recs[n + 1] \in Contents
    BY <1>4, <2>2
  <2>4. F[n].own \in Seq(Entries)
    BY <1>3, <2>2 DEF Accumulated
  <2>5. ReduceNext(F[n], prefix, n + 1, recs[n + 1], outs[n + 1], 2)
          = ReduceNext(F[n], prefix, n + 1, recs[n + 1], outs[n + 1], 1)
    BY <2>3, <2>4, ReduceNextOverlay
  <2>6. QED
    BY <1>1, <1>2, <2>2, <2>5
<1>7. Q = Nat
  BY <1>5, <1>6, SetInduction
<1>8. G[Len(recs)] = F[Len(recs)]
  BY <1>4, <1>7
<1>9. QED
  BY <1>1, <1>2, <1>8

-------------------------------------------------------------------------------
(* The rounds of a run                                                     *)

\* The index and the history agree, and a reservation is what its session was judged to.
DedupInv ==
  /\ config \in Configs /\ round \in Nat /\ index \in Seq(Entries) /\ records \in Seq(Contents)
  /\ log \in Seq(Verdicts) /\ \A i \in DOMAIN log : Named(log[i], index)
  /\ Len(index) = Cardinality(Uniques(log, Len(log)))
  /\ IsFiniteSet(counted) /\ clusters = Cardinality(counted)
  /\ pc \in {"embedded", "reserved"} => outcomes \in [DOMAIN records -> Outcomes]
  /\ pc = "reserved" =>
       LET done == Reduction(Prefix, records, outcomes, 2)
       IN local.own = done.own /\ verdicts = done.verdicts /\ local.counted = KeysOf(verdicts)

\* The history that goes with the index a round starts from.
History == IF config.scope = "global" THEN log ELSE <<>>

\* The index and the history grow by what a round came to.
LEMMA Grown ==
  ASSUME DedupInv, NEW done, Accumulated(done, Prefix)
  PROVE  /\ Prefix \o done.own \in Seq(Entries) /\ History \o done.verdicts \in Seq(Verdicts)
         /\ \A i \in DOMAIN (History \o done.verdicts) :
              Named((History \o done.verdicts)[i], Prefix \o done.own)
         /\ Len(Prefix \o done.own) =
              Cardinality(Uniques(History \o done.verdicts, Len(History \o done.verdicts)))
<1> DEFINE own == done.own
           vs == done.verdicts
<1>1. /\ Prefix \in Seq(Entries) /\ History \in Seq(Verdicts)
      /\ \A i \in DOMAIN History : Named(History[i], Prefix)
      /\ Len(Prefix) = Cardinality(Uniques(History, Len(History)))
  <2>1. CASE config.scope = "global"
    BY <2>1 DEF DedupInv, Prefix, History
  <2>2. CASE config.scope # "global"
    <3>1. Prefix = <<>> /\ History = <<>>
      BY <2>2 DEF Prefix, History
    <3>2. Cardinality(Uniques(<<>>, 0)) = 0
      BY UniquesNext
    <3>3. QED
      BY <3>1, <3>2
  <2>3. QED
    BY <2>1, <2>2
<1>2. /\ own \in Seq(Entries) /\ vs \in Seq(Verdicts)
      /\ \A i \in DOMAIN vs : Named(vs[i], Prefix \o own)
      /\ Len(own) = Cardinality(Uniques(vs, Len(vs)))
  BY DEF Accumulated
<1> HIDE DEF own, vs
<1>3. Prefix \o own \in Seq(Entries) /\ History \o vs \in Seq(Verdicts)
  BY <1>1, <1>2, ConcatProperties
<1>4. ASSUME NEW i \in DOMAIN (History \o vs)
      PROVE  Named((History \o vs)[i], Prefix \o own)
  <2>1. \/ i \in DOMAIN History /\ (History \o vs)[i] = History[i]
        \/ \E j \in DOMAIN vs : (History \o vs)[i] = vs[j]
    <3>1. /\ DOMAIN (History \o vs) = 1 .. Len(History) + Len(vs)
          /\ DOMAIN History = 1 .. Len(History) /\ DOMAIN vs = 1 .. Len(vs)
          /\ Len(History) \in Nat /\ Len(vs) \in Nat
      BY <1>1, <1>2
    <3>2. CASE i <= Len(History)
      BY <1>1, <1>2, <3>1, <3>2
    <3>3. CASE ~ (i <= Len(History))
      <4>1. i - Len(History) \in DOMAIN vs /\ (History \o vs)[i] = vs[i - Len(History)]
        BY <1>1, <1>2, <3>1, <3>3
      <4>2. QED
        BY <4>1
    <3>4. QED
      BY <3>2, <3>3
  <2>2. QED
    BY <1>1, <1>2, <2>1, NamedStays
<1>5. Len(Prefix \o own) = Cardinality(Uniques(History \o vs, Len(History \o vs)))
  <2>1. Len(Prefix \o own) = Len(Prefix) + Len(own)
    BY <1>1, <1>2, ConcatProperties
  <2>2. QED
    BY <1>1, <1>2, <2>1, UniquesConcat
<1>6. QED
  BY <1>3, <1>4, <1>5 DEF own, vs

\* Each cluster is counted once.
LEMMA ClustersCounted ==
  ASSUME IsFiniteSet(counted), clusters = Cardinality(counted), NEW vs \in Seq(Verdicts)
  PROVE  /\ IsFiniteSet(counted \union KeysOf(vs))
         /\ clusters + Cardinality(KeysOf(vs) \ counted) = Cardinality(counted \union KeysOf(vs))
<1>1. IsFiniteSet(KeysOf(vs))
  <2>1. DOMAIN vs = 1 .. Len(vs) /\ Len(vs) \in Nat
    OBVIOUS
  <2>2. IsFiniteSet(DOMAIN vs) /\ Duplicates(vs) \subseteq DOMAIN vs
    <3>1. IsFiniteSet(1 .. Len(vs))
      BY <2>1, FS_Interval
    <3>2. QED
      BY <2>1, <3>1 DEF Duplicates
  <2>3. IsFiniteSet(Duplicates(vs))
    BY <2>2, FS_Subset
  <2> DEFINE key == [i \in Duplicates(vs) |-> vs[i].key]
  <2>4. key \in Surjection(Duplicates(vs), KeysOf(vs))
    BY DEF KeysOf, Surjection
  <2>5. QED
    BY <2>3, <2>4, FS_Surjection
<1> DEFINE new == KeysOf(vs) \ counted
<1>2. IsFiniteSet(new)
  BY <1>1, FS_Subset
<1>3. counted \union KeysOf(vs) = counted \union new /\ counted \intersect new = {}
  OBVIOUS
<1> HIDE DEF new
<1>4. /\ IsFiniteSet(counted \union new)
      /\ Cardinality(counted \union new) =
           Cardinality(counted) + Cardinality(new) - Cardinality(counted \intersect new)
  BY <1>2, FS_Union
<1>5. /\ Cardinality(counted \intersect new) = 0 /\ Cardinality(new) \in Nat
      /\ Cardinality(counted) \in Nat
  BY <1>2, <1>3, FS_EmptySet, FS_CardinalityType
<1>6. QED
  <2>1. Cardinality(counted \union new) = clusters + Cardinality(new)
    BY <1>4, <1>5
  <2>2. QED
    BY <1>3, <1>4, <2>1 DEF new

\* The invariant holds at the start.
LEMMA DedupInvInit == Init => DedupInv
<1> SUFFICES ASSUME Init PROVE DedupInv
  OBVIOUS
<1>1. Cardinality(Uniques(<<>>, 0)) = 0
  BY UniquesNext
<1>2. IsFiniteSet({}) /\ Cardinality({}) = 0
  BY FS_EmptySet
<1>3. <<>> \in Seq(Entries) /\ <<>> \in Seq(Verdicts) /\ <<>> \in Seq(Contents) /\ Len(<<>>) = 0
  OBVIOUS
<1>4. QED
  BY <1>1, <1>2, <1>3 DEF Init, DedupInv

\* A round that does not end leaves the index and the history as they are.
IndexStays ==
  UNCHANGED <<config, index, counted, clusters, log>>

\* Steps that leave index and history alone, and reserve nothing, preserve it.
LEMMA DedupInvKept ==
  ASSUME DedupInv, IndexStays, round' \in Nat, records' \in Seq(Contents),
         pc' \in {"embedded", "reserved"} => outcomes' \in [DOMAIN records' -> Outcomes],
         pc' # "reserved"
  PROVE  DedupInv'
BY DEF DedupInv, IndexStays, Named, Uniques

\* What a reservation was judged to does not change while it is held.
LEMMA ReductionStays ==
  ASSUME UNCHANGED <<config, round, index, records, outcomes>>
  PROVE  Reduction(Prefix, records, outcomes, 2)' = Reduction(Prefix, records, outcomes, 2)
<1>1. config' = config /\ round' = round
  OBVIOUS
<1>2. Prefix' = Prefix /\ records' = records /\ outcomes' = outcomes
  BY DEF Prefix
<1>3. ASSUME NEW view, NEW i, NEW r, NEW o
      PROVE  Reduce(view, Id(i), r, o)' = Reduce(view, Id(i), r, o)
  BY <1>1 DEF Reduce, Probe, Compose, Requires, SemanticKind, Entry, Id
<1>4. ASSUME NEW done, NEW prefix, NEW i, NEW c, NEW o, NEW n
      PROVE  ReduceNext(done, prefix, i, c, o, n)' = ReduceNext(done, prefix, i, c, o, n)
  BY <1>3 DEF ReduceNext
<1>5. QED
  BY <1>2, <1>4 DEF Reduction

\* A round starts on any records.
LEMMA StartKeeps ==
  ASSUME DedupInv, NEW recs \in Seq(Contents), StartWith(recs)
  PROVE  DedupInv'
<1>1. IndexStays /\ round' = round + 1 /\ records' = recs /\ pc' = "prepared"
  BY DEF StartWith, IndexStays
<1>2. QED
  BY <1>1, DedupInvKept DEF DedupInv

\* Every step preserves the invariant.
LEMMA DedupInvStep == DedupInv /\ [Next]_vars => DedupInv'
<1> SUFFICES ASSUME DedupInv, [Next]_vars PROVE DedupInv'
  OBVIOUS
<1>1. CASE Start
  <2>1. PICK recs \in Batches : StartWith(recs)
    BY <1>1 DEF Start
  <2>2. recs \in Seq(Contents)
    <3>1. PICK n \in 1 .. Size : recs \in [1 .. n -> Contents]
      BY DEF Batches
    <3>2. n \in Nat
      BY <3>1
    <3>3. QED
      BY <3>1, <3>2, SeqDef
  <2>3. QED
    BY <2>1, <2>2, StartKeeps
<1>2. CASE Embed
  <2>1. /\ IndexStays /\ UNCHANGED <<round, records>> /\ pc' = "embedded"
        /\ outcomes' \in [DOMAIN records -> {"vector", "unavailable", "broken", "none"}]
    BY <1>2 DEF Embed, IndexStays
  <2>2. outcomes' \in [DOMAIN records' -> Outcomes]
    BY <2>1 DEF Outcomes
  <2>3. QED
    BY <2>1, <2>2, DedupInvKept DEF DedupInv
<1>3. CASE RunBatch
  <2> DEFINE done == Reduction(Prefix, records, outcomes, 1)
  <2>1. /\ pc = "embedded" /\ pc' = "idle" /\ records' = <<>> /\ UNCHANGED <<config, round>>
        /\ index' = Prefix \o done.own /\ log' = History \o done.verdicts
        /\ counted' = counted \union KeysOf(done.verdicts)
        /\ clusters' = clusters + Cardinality(KeysOf(done.verdicts) \ counted)
    BY <1>3 DEF RunBatch, History
  <2>2. Accumulated(done, Prefix)
    <3>1. Prefix \in Seq(Entries)
      BY DEF DedupInv, Prefix
    <3>2. outcomes \in [DOMAIN records -> Outcomes]
      BY <2>1 DEF DedupInv
    <3>3. QED
      BY <3>1, <3>2, ReductionTypes DEF DedupInv
  <2> HIDE DEF done
  <2>3. IsFiniteSet(counted') /\ clusters' = Cardinality(counted')
    BY <2>1, <2>2, ClustersCounted DEF DedupInv, Accumulated
  <2>4. /\ index' \in Seq(Entries) /\ log' \in Seq(Verdicts)
        /\ \A i \in DOMAIN log' : Named(log'[i], index')
        /\ Len(index') = Cardinality(Uniques(log', Len(log')))
    BY <2>1, <2>2, Grown
  <2>5. config' \in Configs /\ round' \in Nat /\ records' \in Seq(Contents)
    BY <2>1 DEF DedupInv
  <2>6. QED
    BY <2>1, <2>3, <2>4, <2>5 DEF DedupInv
<1>4. CASE Reserve
  <2>1. /\ pc = "embedded" /\ pc' = "reserved"
        /\ UNCHANGED <<config, round, records, outcomes, index, counted, clusters, log>>
    BY <1>4 DEF Reserve
  <2> DEFINE done == Reduction(Prefix, records, outcomes, 2)
  <2>2. local'.own = done.own /\ local'.counted = KeysOf(verdicts') /\ verdicts' = done.verdicts
    BY <1>4 DEF Reserve
  <2>3. done' = done
    BY <2>1, ReductionStays
  <2>4. outcomes' \in [DOMAIN records' -> Outcomes]
    BY <2>1 DEF DedupInv
  <2> HIDE DEF done
  <2>5. QED
    BY <2>1, <2>2, <2>3, <2>4 DEF DedupInv, done
<1>5. CASE Discard
  <2>1. IndexStays /\ round' = round /\ records' \in Batches /\ pc' = "prepared"
    BY <1>5 DEF Discard, IndexStays
  <2>2. records' \in Seq(Contents)
    <3>1. PICK n \in 1 .. Size : records' \in [1 .. n -> Contents]
      BY <2>1 DEF Batches
    <3>2. n \in Nat
      BY <3>1
    <3>3. QED
      BY <3>1, <3>2, SeqDef
  <2>3. QED
    BY <2>1, <2>2, DedupInvKept DEF DedupInv
<1>6. CASE Commit
  <2> DEFINE done == Reduction(Prefix, records, outcomes, 2)
  <2>1. /\ pc = "reserved" /\ pc' = "idle" /\ records' = <<>> /\ UNCHANGED <<config, round>>
        /\ index' = Prefix \o local.own /\ log' = History \o verdicts
        /\ counted' = counted \union local.counted
        /\ clusters' = clusters + Cardinality(local.counted \ counted)
    BY <1>6 DEF Commit, History
  <2>2. local.own = done.own /\ verdicts = done.verdicts /\ local.counted = KeysOf(verdicts)
    BY <2>1 DEF DedupInv
  <2>3. Accumulated(done, Prefix)
    <3>1. Prefix \in Seq(Entries)
      BY DEF DedupInv, Prefix
    <3>2. outcomes \in [DOMAIN records -> Outcomes]
      BY <2>1 DEF DedupInv
    <3>3. done = Reduction(Prefix, records, outcomes, 1)
      BY <3>1, <3>2, ReductionOverlay DEF DedupInv
    <3> HIDE DEF done
    <3>4. QED
      BY <3>1, <3>2, <3>3, ReductionTypes DEF DedupInv
  <2> HIDE DEF done
  <2>4. IsFiniteSet(counted') /\ clusters' = Cardinality(counted')
    BY <2>1, <2>2, <2>3, ClustersCounted DEF DedupInv, Accumulated
  <2>5. /\ index' \in Seq(Entries) /\ log' \in Seq(Verdicts)
        /\ \A i \in DOMAIN log' : Named(log'[i], index')
        /\ Len(index') = Cardinality(Uniques(log', Len(log')))
    BY <2>1, <2>2, <2>3, Grown
  <2>6. config' \in Configs /\ round' \in Nat /\ records' \in Seq(Contents)
    BY <2>1 DEF DedupInv
  <2>7. QED
    BY <2>1, <2>4, <2>5, <2>6 DEF DedupInv
<1>7. CASE UNCHANGED vars
  <2>1. UNCHANGED <<config, round, pc, records, outcomes, index, counted, clusters, local,
                    verdicts, log>>
    BY <1>7 DEF vars
  <2>2. Reduction(Prefix, records, outcomes, 2)' = Reduction(Prefix, records, outcomes, 2)
    BY <2>1, ReductionStays
  <2>3. QED
    BY <2>1, <2>2 DEF DedupInv
<1>8. QED
  BY <1>1, <1>2, <1>3, <1>4, <1>5, <1>6, <1>7 DEF Next

\* What the invariant says of the index.
LEMMA KeptHolds == DedupInv => KeptIsKept
<1> SUFFICES ASSUME DedupInv PROVE KeptIsKept
  OBVIOUS
<1>1. /\ log \in Seq(Verdicts) /\ (\A i \in DOMAIN log : Named(log[i], index))
      /\ Len(index) = Cardinality(Uniques(log, Len(log))) /\ clusters = Cardinality(counted)
  BY DEF DedupInv
<1>2. {i \in DOMAIN log : log[i].kind = "unique"} = Uniques(log, Len(log))
  BY <1>1 DEF Uniques
<1>3. QED
  BY <1>1, <1>2 DEF KeptIsKept, Named

\* What the invariant says of a commit.
LEMMA CommitAgrees ==
  ASSUME DedupInv, Commit
  PROVE  LET direct == Reduction(Prefix, records, outcomes, 1)
         IN verdicts = direct.verdicts /\ index' = Prefix \o direct.own
<1>1. pc = "reserved" /\ index' = Prefix \o local.own
  BY DEF Commit
<1>2. Prefix \in Seq(Entries) /\ outcomes \in [DOMAIN records -> Outcomes]
  BY <1>1 DEF DedupInv, Prefix
<1>3. Reduction(Prefix, records, outcomes, 2) = Reduction(Prefix, records, outcomes, 1)
  BY <1>2, ReductionOverlay DEF DedupInv
<1>4. QED
  BY <1>1, <1>3 DEF DedupInv

-------------------------------------------------------------------------------
(* What the stages of the chain keep                                       *)

\* What every envelope has.
EnvelopeFields ==
  {"record", "status", "class", "shared", "annotation", "score", "verification", "error",
   "members", "steps", "seams"}

\* What every review has, and what a frame can be.
ReviewFields == {"rounds", "verdict", "annotation", "working", "surgical", "relabel", "claims"}
FrameStates == [status : {"absorbed", "noise"}, by : {None, "segment", "verify"}]

\* The places of the session, and the labels of the project.
Positions == 0 .. project.session - 1
Labels == Range(project.classes) \union {None}

\* What the proofs need of a project; it stays so when generated records follow.
ProjectSound ==
  /\ DOMAIN project = Settings
  /\ project.classes \in Seq(STRING) /\ IsInjective(project.classes) /\ Len(project.classes) > 0
  /\ project.fallback \in Range(project.classes)
  /\ None \notin Labelled(project.classes) \union Range(project.classes)
  /\ None \notin Got(project.samples_of, project.generate_failures)
  /\ project.contents \in Seq(Contents) /\ project.members \in Seq(Seq(Nat))
  /\ Len(project.contents) <= Len(project.members)
  /\ project.session \in Nat /\ project.examples \in Seq(Contents)
  /\ project.samples_of \subseteq Seq(Contents)
  /\ project.samples \in Nat /\ project.max_labels \in Nat /\ project.annotate_sc \in Nat
  /\ project.num_per_record \in Nat /\ project.standalone \in Nat
  /\ project.num_per_call \in Nat \ {0} /\ project.seeds_per_call \in Nat
  /\ project.rooms \subseteq Int
  /\ \A c \in project.combinations : c = [f \in 1 .. project.voted |-> c[f]]
  /\ project.limit # None => project.limit \in Nat
  /\ \A r \in DOMAIN project.members :
       /\ Range(project.members[r]) \subseteq Positions
       /\ \A q \in DOMAIN project.members \ {r} :
            Range(project.members[q]) \intersect Range(project.members[r]) = {}

\* What was generated is content under a label.
FreshSound ==
  /\ \E n \in Nat : DOMAIN fresh = 1 .. n
  /\ \A k \in DOMAIN fresh : fresh[k].content \in Contents /\ fresh[k].class \in Labels

\* The class that a generated record has from its seeds.
Heirs ==
  [r \in DOMAIN project.members |->
    IF project.generate = "off" /\ spawned # None THEN fresh[r].class ELSE None]

\* An envelope stands for a record, under labels of the project, or under the class of
\* the seeds alone, with frames of the session.
EnvelopeSound(e) ==
  /\ DOMAIN e = EnvelopeFields
  /\ e.record \in DOMAIN project.members
  /\ e.class \in Labelled(project.classes) \union {None}
  /\ Heirs[e.record] # None =>
       e.class # None /\ e.class = LabelledBy(<<Heirs[e.record]>>, "inherited")
  /\ e.members \in Seq(Positions)

\* A batch has one envelope that stands for each of its records.
BatchSound(b) ==
  /\ \E n \in Nat : DOMAIN b = 1 .. n
  /\ \A i \in DOMAIN b : EnvelopeSound(b[i])
  /\ \A i, j \in DOMAIN b :
       IsAnchor(b[i]) /\ IsAnchor(b[j]) /\ b[i].record = b[j].record => i = j

\* Labels that an envelope can have.
Distinct(labels) == IsInjective(labels) /\ labels # <<>>
\* Before the siblings join, every envelope stands for its record.
Unparted ==
  \A i \in DOMAIN batch : IsAnchor(batch[i])
      /\ (batch[i].class # None => Distinct(batch[i].class.labels))

\* Those that stand for a record, what each envelope has of the session, and that it is apart.
Anchors(b) == {i \in DOMAIN b : IsAnchor(b[i])}
Members(b) == [i \in DOMAIN b |-> Range(b[i].members)]
Apart(b, held) == \A i, j \in Anchors(b) : i # j => held[i] \intersect held[j] = {}
\* Each frame that is absorbed is held by one envelope of those that stand for a record.
Owned(b, held, f) ==
  /\ Apart(b, held)
  /\ \A p \in DOMAIN f : f[p].status = "absorbed" <=> \E i \in Anchors(b) : p \in held[i]

\* What is known of the frames of a session.
FramesSound(b, f) ==
  /\ f \in [DOMAIN f -> FrameStates]
  /\ DOMAIN b # {} => DOMAIN f = Positions

\* Those that are reviewed.
ReviewsSound ==
  /\ DOMAIN reviews \subseteq DOMAIN batch /\ pending \subseteq DOMAIN reviews
  /\ \A i \in DOMAIN reviews : DOMAIN reviews[i] = ReviewFields

\* What is held while the sequences of "at" are repaired.
Holding(b, revs, at) ==
  [i \in DOMAIN b |-> IF i \in at THEN Range(revs[i].working) ELSE Range(b[i].members)]

\* What the surgery on an envelope has come to, on frames f.
Cutting(e, review, kept, f, claimed) ==
  LET own == Range(e.members)
      held == Range(review.working)
  IN /\ DOMAIN review = ReviewFields
     /\ review.working \in Seq(Positions) /\ held \subseteq own /\ review.claims \in Seq(Positions)
     /\ DOMAIN kept = own \ held
     /\ \A p \in DOMAIN kept : kept[p] \in FrameStates /\ kept[p].status = "absorbed"
                                /\ f[p] = [status |-> "noise", by |-> "verify"]
     /\ \A p \in Range(review.claims) : p \in claimed /\ p \in DOMAIN f
                                          /\ f[p].status = "noise" /\ f[p].by # "verify"
     /\ ~review.surgical => held = own
     /\ ~IsAnchor(e) => held = own /\ review.claims = <<>>

\* While claims are outstanding: what is released is held back, what is claimed is free.
Claiming(b, revs, kept, f, at) ==
  /\ Apart(b, Members(b)) /\ Owned(b, Holding(b, revs, at), f)
  /\ DOMAIN kept = DOMAIN revs
  /\ \A i \in at : Cutting(b[i], revs[i], kept[i], f, Positions)
  /\ \A i, j \in at : i # j => Range(revs[i].claims) \intersect Range(revs[j].claims) = {}

\* What undoes the surgery on an envelope.
Undoing(e, review, kept, f) ==
  LET own == Range(e.members)
      held == Range(review.working)
  IN /\ review.working \in Seq(Positions)
     /\ DOMAIN kept = (own \ held) \union (held \ own)
     /\ \A p \in DOMAIN kept :
          /\ kept[p] \in FrameStates /\ (kept[p].status = "absorbed" <=> p \in own)
          /\ p \in own => f[p].status = "noise"
     /\ ~review.surgical \/ ~IsAnchor(e) => held = own

\* While sequences are mended: how each of them gets back what it had.
Mending(b, revs, kept, f, at) ==
  /\ Apart(b, Members(b)) /\ Owned(b, Holding(b, revs, at), f)
  /\ DOMAIN kept = DOMAIN revs
  /\ \A i \in at : Undoing(b[i], revs[i], kept[i], f)

\* The turns of the stream driver.
Streaming == {"stream", "claims", "mend", "refresh"}

\* The invariant of the chain, stage by stage.
ChainInv ==
  /\ project = Off => stage = "dedup"
  /\ project # Off => ProjectSound /\ FreshSound /\ BatchSound(batch) /\ FramesSound(batch, frames)
  /\ project = Off => batch = <<>>
  /\ turn \in {"idle", "review", "repair", "torn"} \union Streaming
  /\ turn # "idle" => stage = "verify" /\ ReviewsSound
  /\ stage \in {"classify", "frames"} => Unparted
  /\ stage # "dedup" /\ turn \in {"idle", "review", "repair", "stream"} =>
       Owned(batch, Members(batch), frames)
  /\ turn \in {"claims", "torn"} => Claiming(batch, reviews, saved, frames, pending)
  /\ turn \in {"mend", "refresh"} => Mending(batch, reviews, saved, frames, pending)
  /\ turn \in {"claims", "mend", "refresh"} => settled \subseteq DOMAIN reviews
  /\ turn \in {"review", "repair"} => Streamed \subseteq DOMAIN reviews
  /\ turn \in Streaming =>
       /\ BatchSound(snapshot.batch) /\ FramesSound(snapshot.batch, snapshot.frames)
       /\ Owned(snapshot.batch, Members(snapshot.batch), snapshot.frames)

-------------------------------------------------------------------------------
(* Waves that leave the frames of the batch alone                          *)

\* Batches that differ in nothing that frames are owned by.
SameShape(b, c) ==
  /\ DOMAIN c = DOMAIN b
  /\ \A i \in DOMAIN b : /\ DOMAIN c[i] = DOMAIN b[i] /\ c[i].record = b[i].record
                         /\ c[i].class = b[i].class /\ c[i].members = b[i].members

\* Batches of the same shape have the same members.
LEMMA ShapeMembers ==
  ASSUME NEW b, NEW c, SameShape(b, c)
  PROVE  Anchors(c) = Anchors(b) /\ Members(c) = Members(b)
<1>1. DOMAIN c = DOMAIN b /\ \A i \in DOMAIN b : c[i].class = b[i].class /\ c[i].members = b[i].members
  BY Zenon DEF SameShape
<1>2. Anchors(c) = Anchors(b)
  BY <1>1 DEF Anchors, IsAnchor
<1>3. Members(c) = Members(b)
  BY <1>1 DEF Members
<1>4. QED
  BY <1>2, <1>3

\* A batch of the same shape is sound too,
LEMMA ShapeSound ==
  ASSUME Heirs' = Heirs, SameShape(batch, batch'), UNCHANGED project, BatchSound(batch)
  PROVE  BatchSound(batch)'
<1>1. DOMAIN batch' = DOMAIN batch /\ \A i \in DOMAIN batch :
        /\ DOMAIN batch'[i] = DOMAIN batch[i] /\ batch'[i].record = batch[i].record
        /\ batch'[i].class = batch[i].class /\ batch'[i].members = batch[i].members
  BY Zenon DEF SameShape
<1>2. \A i \in DOMAIN batch : EnvelopeSound(batch[i])'
  BY <1>1 DEF BatchSound, EnvelopeSound, Positions
<1>3. \A i, j \in DOMAIN batch :
       IsAnchor(batch'[i]) /\ IsAnchor(batch'[j]) /\ batch'[i].record = batch'[j].record => i = j
  BY <1>1 DEF BatchSound, IsAnchor
<1>4. (\E n \in Nat : DOMAIN batch' = 1 .. n)
  BY <1>1 DEF BatchSound
<1>5. QED
  BY <1>1, <1>2, <1>3, <1>4 DEF BatchSound

\* owns the same frames,
LEMMA ShapeOwned ==
  ASSUME SameShape(batch, batch'), UNCHANGED frames, Owned(batch, Members(batch), frames)
  PROVE  Owned(batch, Members(batch), frames)'
<1>1. Anchors(batch') = Anchors(batch) /\ Members(batch') = Members(batch)
  BY ShapeMembers
<1>2. Anchors(batch)' = Anchors(batch') /\ Members(batch)' = Members(batch')
  BY DEF Anchors, Members
<1>3. QED
  BY <1>1, <1>2 DEF Owned, Apart

\* and has not parted yet if it had not.
LEMMA ShapeUnparted ==
  ASSUME SameShape(batch, batch'), Unparted
  PROVE  Unparted'
BY Zenon DEF SameShape, Unparted, IsAnchor, Distinct

\* What does not depend on the batch stays as it is.
LEMMA ProjectStays ==
  ASSUME UNCHANGED project, ProjectSound
  PROVE  ProjectSound'
BY DEF ProjectSound, Positions

\* The same of what was generated,
LEMMA FreshStays ==
  ASSUME UNCHANGED <<project, fresh>>, FreshSound
  PROVE  FreshSound'
BY DEF FreshSound, Labels

\* and of the frames.
LEMMA FramesStay ==
  ASSUME DOMAIN batch' = DOMAIN batch, UNCHANGED <<project, frames>>, FramesSound(batch, frames)
  PROVE  FramesSound(batch, frames)'
BY DEF FramesSound, FrameStates, Positions

\* What holds of every state with a project.
Grounds == ProjectSound /\ FreshSound /\ BatchSound(batch) /\ FramesSound(batch, frames)

\* The invariant, with what holds whenever there is a project taken together.
LEMMA ChainInvIs ==
  ChainInv <=>
    /\ project = Off => stage = "dedup"
    /\ project # Off => Grounds
    /\ project = Off => batch = <<>>
    /\ turn \in {"idle", "review", "repair", "torn"} \union Streaming
    /\ turn # "idle" => stage = "verify" /\ ReviewsSound
    /\ stage \in {"classify", "frames"} => Unparted
    /\ stage # "dedup" /\ turn \in {"idle", "review", "repair", "stream"} =>
         Owned(batch, Members(batch), frames)
    /\ turn \in {"claims", "torn"} => Claiming(batch, reviews, saved, frames, pending)
    /\ turn \in {"mend", "refresh"} => Mending(batch, reviews, saved, frames, pending)
    /\ turn \in {"claims", "mend", "refresh"} => settled \subseteq DOMAIN reviews
    /\ turn \in {"review", "repair"} => Streamed \subseteq DOMAIN reviews
    /\ turn \in Streaming =>
         /\ BatchSound(snapshot.batch) /\ FramesSound(snapshot.batch, snapshot.frames)
         /\ Owned(snapshot.batch, Members(snapshot.batch), snapshot.frames)
BY DEF ChainInv, Grounds

\* Steps before or after verification that leave what is owned alone.
LEMMA QuietKeeps ==
  ASSUME ChainInv, Heirs' = Heirs, stage # "dedup", stage' # "dedup", turn = "idle", turn' = "idle",
         UNCHANGED <<project, frames>>, SameShape(batch, batch'), FreshSound',
         stage' \in {"classify", "frames"} => Unparted'
  PROVE  ChainInv'
<1>1. project # Off /\ project' # Off /\ Grounds /\ Owned(batch, Members(batch), frames)
  BY ChainInvIs
<1>2. Grounds'
  <2>1. DOMAIN batch' = DOMAIN batch
    BY Zenon DEF SameShape
  <2>2. QED
    BY <1>1, <2>1, ProjectStays, ShapeSound, FramesStay DEF Grounds
<1>3. Owned(batch, Members(batch), frames)'
  BY <1>1, ShapeOwned
<1>4. QED
  BY <1>1, <1>2, <1>3 DEF ChainInv, Grounds, Streaming

\* The waves of the classic verification.
LEMMA ClassicKeeps ==
  ASSUME ChainInv, Heirs' = Heirs, turn \in {"review", "repair"}, turn' \in {"review", "repair"},
         UNCHANGED <<project, stage, frames, fresh>>, SameShape(batch, batch'), ReviewsSound',
             Streamed' \subseteq DOMAIN reviews'
  PROVE  ChainInv'
<1>1. project # Off /\ project' # Off /\ stage = "verify" /\ Grounds
          /\ Owned(batch, Members(batch), frames)
  BY DEF ChainInv, Grounds
<1>2. Grounds'
  <2>1. DOMAIN batch' = DOMAIN batch
    BY Zenon DEF SameShape
  <2>2. QED
    BY <1>1, <2>1, ProjectStays, ShapeSound, FramesStay, FreshStays DEF Grounds
<1>3. Owned(batch, Members(batch), frames)'
  BY <1>1, ShapeOwned
<1>4. QED
  BY <1>1, <1>2, <1>3 DEF ChainInv, Grounds, Streaming

\* Envelopes that change in other fields.
LEMMA SameEnvelope ==
  ASSUME BatchSound(batch), DOMAIN batch' = DOMAIN batch,
         \A i \in DOMAIN batch : DOMAIN batch'[i] = DOMAIN batch[i]
           /\ batch'[i].record = batch[i].record /\ batch'[i].class = batch[i].class
           /\ batch'[i].members = batch[i].members
  PROVE  SameShape(batch, batch')
BY DEF SameShape

\* Extraction preserves the invariant.
LEMMA ExtractKeeps == ASSUME ChainInv, Heirs' = Heirs, ExtractWave, UNCHANGED <<ratedVars, verifyVars, streamVars>>
    PROVE ChainInv'
<1>1. /\ stage = "extract" /\ stage' = "quality" /\ UNCHANGED <<project, frames, fresh, turn>>
  BY DEF ExtractWave, ratedVars, generateVars, verifyVars, streamVars
<1>2. turn = "idle" /\ project # Off /\ Grounds
  BY <1>1 DEF ChainInv, Grounds
<1>3. PICK failing \in SUBSET {i \in Unextracted : project.extract_fails} :
        batch' = [i \in DOMAIN batch |->
            IF ~project.extract \/ i \notin Unextracted THEN batch[i]
            ELSE IF i \in failing THEN Fail(batch[i], "extraction_invalid")
            ELSE [batch[i] EXCEPT !.steps = StepsOf(batch[i].members, batch[i].seams)]]
  BY DEF ExtractWave
<1>4. SameShape(batch, batch')
  <2> SUFFICES ASSUME NEW i \in DOMAIN batch
               PROVE  DOMAIN batch'[i] = DOMAIN batch[i]
           /\ batch'[i].record = batch[i].record /\ batch'[i].class = batch[i].class
           /\ batch'[i].members = batch[i].members
    BY <1>3, Zenon DEF SameShape
  <2>1. DOMAIN batch[i] = EnvelopeFields
    BY <1>2 DEF Grounds, BatchSound, EnvelopeSound
  <2>2. QED
    BY <1>3, <2>1 DEF Fail, EnvelopeFields
<1>5. FreshSound'
  BY <1>1, <1>2, FreshStays DEF Grounds
<1>6. QED
  BY <1>1, <1>2, <1>4, <1>5, QuietKeeps

\* Every envelope of a sound batch has all its fields.
LEMMA EnvelopeDomains ==
  ASSUME BatchSound(batch), NEW i \in DOMAIN batch
  PROVE  DOMAIN batch[i] = EnvelopeFields
BY DEF BatchSound, EnvelopeSound

\* Changes of an envelope that leave what frames are owned by.
SameOwner(e, f) ==
  DOMAIN f = DOMAIN e /\ f.record = e.record /\ f.class = e.class /\ f.members = e.members

\* Envelopes that keep their record, members and class make a batch of the same shape.
LEMMA OwnersSame ==
  ASSUME DOMAIN batch' = DOMAIN batch, \A i \in DOMAIN batch : SameOwner(batch[i], batch'[i])
  PROVE  SameShape(batch, batch')
BY DEF SameShape, SameOwner

\* A failure changes none of these.
LEMMA FailSame ==
  ASSUME NEW e, DOMAIN e = EnvelopeFields, NEW kind
  PROVE  SameOwner(e, Fail(e, kind)) /\ DOMAIN Fail(e, kind) = EnvelopeFields
BY DEF SameOwner, Fail, EnvelopeFields

\* Annotation preserves the invariant.
LEMMA AnnotateKeeps ==
  ASSUME ChainInv, Heirs' = Heirs, AnnotateWave, UNCHANGED <<verifyVars, streamVars>> PROVE ChainInv'
<1>1. /\ stage = "annotate" /\ stage' = "frame_notes" /\ UNCHANGED <<project, frames, fresh, turn>>
  BY DEF AnnotateWave, ratedVars, generateVars, verifyVars, streamVars
<1>2. turn = "idle" /\ project # Off /\ Grounds
  BY <1>1 DEF ChainInv, Grounds
<1>3. SameShape(batch, batch')
  <2>1. CASE UNCHANGED batch
    BY <2>1 DEF SameShape
  <2>2. CASE ~ UNCHANGED batch
    <3>1. PICK got : batch' = [i \in DOMAIN batch |->
                                 IF i \in Active THEN Annotated(batch[i], got[i]) ELSE batch[i]]
      BY <2>2 DEF AnnotateWave
    <3>2. ASSUME NEW i \in DOMAIN batch PROVE SameOwner(batch[i], batch'[i])
      <4>1. DOMAIN batch[i] = EnvelopeFields
        BY <1>2, EnvelopeDomains DEF Grounds
      <4>2. SameOwner(batch[i], Annotated(batch[i], got[i]))
        <5> DEFINE e == batch[i]
                   hard == HardErrors(got[i])
                   a == [chosen |-> Answers(got[i])[MajorityVote(Answers(got[i]))],
                       of |-> Answers(got[i]), version |-> 0]
        <5> HIDE DEF e, hard, a
        <5>1. SameOwner(e, [e EXCEPT !.annotation = a])
          BY <4>1 DEF e, SameOwner, EnvelopeFields
        <5>2. SameOwner(e, Fail(e, hard[1].failed)) /\ SameOwner(e, Fail(e, "schema_violation"))
          BY <4>1, FailSame DEF e
        <5>3. QED
          BY <5>1, <5>2 DEF e, hard, a, Annotated
      <4>3. SameOwner(batch[i], batch[i])
        BY DEF SameOwner
      <4>4. QED
        BY <3>1, <4>2, <4>3
    <3>3. QED
      BY <3>1, <3>2, OwnersSame
  <2>3. QED
    BY <2>1, <2>2
<1>4. FreshSound'
  BY <1>1, <1>2, FreshStays DEF Grounds
<1>5. QED
  BY <1>1, <1>2, <1>3, <1>4, QuietKeeps

\* So does the annotation of frames.
LEMMA FrameNotesKeeps ==
  ASSUME ChainInv, Heirs' = Heirs, FrameNotesWave, UNCHANGED <<verifyVars, streamVars>> PROVE ChainInv'
<1>1. /\ stage = "frame_notes" /\ stage' = "verify" /\ UNCHANGED <<project, frames, fresh, turn, batch>>
  BY DEF FrameNotesWave, ratedVars, generateVars, verifyVars, streamVars
<1>2. turn = "idle" /\ project # Off /\ Grounds
  BY <1>1 DEF ChainInv, Grounds
<1>3. SameShape(batch, batch')
  BY <1>1 DEF SameShape
<1>4. FreshSound'
  BY <1>1, <1>2, FreshStays DEF Grounds
<1>5. QED
  BY <1>1, <1>2, <1>3, <1>4, QuietKeeps

\* So does the end of the quality stage.
LEMMA QualityDoneKeeps ==
  ASSUME ChainInv, Heirs' = Heirs, QualityDone, UNCHANGED <<generateVars, verifyVars, streamVars>> PROVE ChainInv'
<1>1. /\ stage = "quality" /\ stage' = "generate" /\ UNCHANGED <<project, frames, fresh, turn, batch>>
  BY DEF QualityDone, classifyVars, generateVars, verifyVars, streamVars
<1>2. turn = "idle" /\ project # Off /\ Grounds
  BY <1>1 DEF ChainInv, Grounds
<1>3. SameShape(batch, batch')
  BY <1>1 DEF SameShape
<1>4. FreshSound'
  BY <1>1, <1>2, FreshStays DEF Grounds
<1>5. QED
  BY <1>1, <1>2, <1>3, <1>4, QuietKeeps

\* A gate drops envelopes without changing what they have,
LEMMA GateSame ==
  ASSUME BatchSound(batch), NEW s, NEW scores, NEW failed, Gate(s, scores, failed)
  PROVE  SameShape(batch, batch')
<1>1. DOMAIN batch' = DOMAIN batch /\ \A i \in DOMAIN batch : \E x, y :
        batch'[i] = batch[i] \/ batch'[i] = [batch[i] EXCEPT !.score = x, !.status = y]
  BY ZenonT(30) DEF Gate
<1>2. ASSUME NEW i \in DOMAIN batch PROVE SameOwner(batch[i], batch'[i])
  <2>1. DOMAIN batch[i] = EnvelopeFields
    BY EnvelopeDomains
  <2>2. PICK x, y : batch'[i] = batch[i] \/ batch'[i] = [batch[i] EXCEPT !.score = x, !.status = y]
    BY <1>1
  <2>3. QED
    BY <2>1, <2>2 DEF SameOwner, EnvelopeFields
<1>3. QED
  BY <1>1, <1>2, OwnersSame

\* and so does a pool that fails.
LEMMA FailPoolSame ==
  ASSUME BatchSound(batch), NEW s, FailPool(s)
  PROVE  SameShape(batch, batch')
<1>1. batch' = [i \in DOMAIN batch |->
       IF i \in Range(s) THEN Fail(batch[i], "internal_error") ELSE batch[i]]
  BY DEF FailPool
<1>2. ASSUME NEW i \in DOMAIN batch PROVE SameOwner(batch[i], batch'[i])
  <2>1. DOMAIN batch[i] = EnvelopeFields
    BY EnvelopeDomains
  <2>2. SameOwner(batch[i], Fail(batch[i], "internal_error")) /\ SameOwner(batch[i], batch[i])
    BY <2>1, FailSame DEF SameOwner
  <2>3. QED
    BY <1>1, <2>2
<1>3. QED
  BY <1>1, <1>2, OwnersSame

\* What rating comes to.
LEMMA RateIs ==
  ASSUME Rate
  PROVE  (\E s : FailPool(s)) \/ (\E s, scores, failed : Gate(s, scores, failed))
<1>1. PICK label \in Pools : RatePairwise(label) \/ RatePointwise(label)
  BY DEF Rate
<1>2. CASE RatePairwise(label)
  <2> DEFINE s == PoolOf(label)
             n == Len(s)
  <2>1. CASE n = 1
    BY <1>2, <2>1, Zenon DEF RatePairwise
  <2>2. CASE n # 1
    <3>1. PICK plan \in PairingPlans(n) :
             \E answers \in [DOMAIN plan -> [Judges -> [Orders -> project.answers]]] :
               LET sees(k, kinds) == \E x \in DOMAIN plan : k \in Range(plan[x][1]) /\
                                      \E j \in Judges, f \in Orders : answers[x][j][f] \in kinds
                   failed == {s[k] : k \in {k \in 1 .. n : sees(k, {"call"})}}
                   done == Tally(n, plan, answers)
                   blank(k) == done[k].comparisons > 0 /\ done[k].success = 0
               IN /\ IF \E k \in 1 .. n : sees(k, {"pool"})
                     THEN FailPool(s)
                     ELSE \E theta \in WeakOrders(n) :
                       Gate(s, [i \in Range(s) |-> [c \in DOMAIN project.weights |->
                                  LET k == CHOOSE k \in 1 .. n : s[k] = i
                                  IN IF blank(k) THEN None ELSE Percentile(theta, k)]], failed)
      BY <1>2, <2>2, Zenon DEF RatePairwise
    <3>2. QED
      BY <3>1, Zenon
  <2>3. QED
    BY <2>1, <2>2
<1>3. CASE RatePointwise(label)
  BY <1>3, Zenon DEF RatePointwise
<1>4. QED
  BY <1>1, <1>2, <1>3

\* Rating preserves the invariant.
LEMMA RateKeeps ==
  ASSUME ChainInv, Heirs' = Heirs, Rate, UNCHANGED <<generateVars, verifyVars, streamVars>> PROVE ChainInv'
<1>1. PICK label \in Pools : RatePairwise(label) \/ RatePointwise(label)
  BY DEF Rate
<1>2. NextPool(label)
  BY <1>1 DEF RatePairwise, RatePointwise
<1>3. stage = "quality" /\ UNCHANGED <<stage, project, frames, fresh, turn>>
  BY <1>2 DEF NextPool, generateVars, verifyVars, streamVars
<1>4. turn = "idle" /\ project # Off /\ Grounds /\ BatchSound(batch)
  BY <1>3 DEF ChainInv, Grounds
<1>5. SameShape(batch, batch')
  <2>1. (\E s : FailPool(s)) \/ (\E s, scores, failed : Gate(s, scores, failed))
    BY RateIs
  <2>2. QED
    BY <1>4, <2>1, GateSame, FailPoolSame, Zenon
<1>6. FreshSound'
  BY <1>3, <1>4, FreshStays DEF Grounds
<1>7. QED
  BY <1>3, <1>4, <1>5, <1>6, QuietKeeps

-------------------------------------------------------------------------------
(* Verification without a stream                                           *)

\* The beginning of verification preserves the invariant.
LEMMA VerifyBeginKeeps ==
  ASSUME ChainInv, Heirs' = Heirs, VerifyBegin, UNCHANGED streamVars PROVE ChainInv'
<1>1. /\ stage = "verify" /\ turn = "idle" /\ UNCHANGED <<project, frames, fresh, batch>>
  BY DEF VerifyBegin, ratedVars, generateVars, classifyVars, streamVars
<1>2. project # Off /\ Grounds /\ Owned(batch, Members(batch), frames)
  BY <1>1 DEF ChainInv, Grounds
<1>3. SameShape(batch, batch') /\ FreshSound'
  BY <1>1, <1>2, FreshStays DEF SameShape, Grounds
<1>4. CASE ~project.verify
  <2>1. stage' = "done" /\ UNCHANGED turn
    BY <1>4 DEF VerifyBegin
  <2>2. QED
    BY <1>1, <1>3, <2>1, QuietKeeps
<1>5. CASE project.verify
  <2>1. /\ UNCHANGED stage /\ turn' = "review" /\ pending' = Eligible \ Streamed
        /\ reviews' = [i \in Eligible |-> NewReview(i)]
    BY <1>5 DEF VerifyBegin
  <2>2. Eligible \subseteq DOMAIN batch /\ Streamed \subseteq Eligible
    BY DEF Eligible, Streamed, Active
  <2>3. Streamed' = Streamed
    BY <1>1 DEF Streamed, Eligible, Active, IsSequence
  <2>4. ReviewsSound'
    <3>1. \A i \in Eligible : DOMAIN NewReview(i) = ReviewFields
      BY DEF NewReview, ReviewFields
    <3>2. DOMAIN reviews' = Eligible /\ \A i \in DOMAIN reviews' : DOMAIN reviews'[i] = ReviewFields
      BY <2>1, <3>1
    <3>3. QED
      BY <1>1, <2>1, <2>2, <3>2 DEF ReviewsSound
  <2>5. Grounds' /\ Owned(batch, Members(batch), frames)'
    BY <1>1, <1>2, <1>3, ProjectStays, ShapeSound, FramesStay, ShapeOwned DEF Grounds
  <2>6. DOMAIN reviews' = Eligible
    BY <2>1
  <2>7. QED
    BY <1>1, <1>2, <2>1, <2>2, <2>3, <2>4, <2>5, <2>6 DEF ChainInv, Grounds, Streaming
<1>6. QED
  BY <1>4, <1>5

\* So does a wave of reviews,
LEMMA ReviewKeeps ==
  ASSUME ChainInv, Heirs' = Heirs, ReviewWave, UNCHANGED streamVars PROVE ChainInv'
<1>1. /\ turn = "review" /\ turn' = "repair" /\ UNCHANGED <<project, stage, frames, fresh>>
  BY DEF ReviewWave, ratedVars, generateVars, streamVars
<1>2. project # Off /\ Grounds /\ ReviewsSound /\ Streamed \subseteq DOMAIN reviews
  BY <1>1 DEF ChainInv, Grounds
<1>3. PICK votes \in [pending -> [Judging -> project.votes]] :
       LET verdict(i) == PanelVerdict(votes[i])
           review(i) == [reviews[i] EXCEPT !.rounds = @ + 1, !.verdict = verdict(i)]
           judged == {i \in pending : verdict(i) # "error"}
           repairs == {i \in judged : Repairable(review(i))}
       IN /\ reviews' = [i \in DOMAIN reviews |-> IF i \in judged THEN review(i) ELSE reviews[i]]
          /\ batch' = [i \in DOMAIN batch |->
               IF i \in pending \ judged THEN Fail(batch[i], "verify")
               ELSE IF i \in judged \ repairs THEN Finalized(batch[i], review(i))
               ELSE batch[i]]
          /\ pending' = repairs
  BY <1>1, Zenon DEF ReviewWave
<1> DEFINE review(i) == [reviews[i] EXCEPT !.rounds = @ + 1, !.verdict = PanelVerdict(votes[i])]
           judged == {i \in pending : PanelVerdict(votes[i]) # "error"}
           repairs == {i \in judged : Repairable(review(i))}
<1>4. /\ reviews' = [i \in DOMAIN reviews |-> IF i \in judged THEN review(i) ELSE reviews[i]]
      /\ batch' = [i \in DOMAIN batch |->
           IF i \in pending \ judged THEN Fail(batch[i], "verify")
           ELSE IF i \in judged \ repairs THEN Finalized(batch[i], review(i))
           ELSE batch[i]]
      /\ pending' = repairs
  BY <1>3
<1>5. SameShape(batch, batch')
  <2> SUFFICES ASSUME NEW i \in DOMAIN batch PROVE SameOwner(batch[i], batch'[i])
    BY <1>4, OwnersSame
  <2>1. DOMAIN batch[i] = EnvelopeFields
    BY <1>2, EnvelopeDomains DEF Grounds
  <2>2. SameOwner(batch[i], Fail(batch[i], "verify")) /\ SameOwner(batch[i], batch[i])
    BY <2>1, FailSame DEF SameOwner
  <2>3. SameOwner(batch[i], Finalized(batch[i], review(i)))
    BY <2>1 DEF SameOwner, Finalized, EnvelopeFields
  <2>4. batch'[i] = IF i \in pending \ judged THEN Fail(batch[i], "verify")
           ELSE IF i \in judged \ repairs THEN Finalized(batch[i], review(i))
           ELSE batch[i]
    BY <1>4
  <2>5. QED
    BY <2>2, <2>3, <2>4
<1>6. ReviewsSound'
  <2>1. \A i \in DOMAIN reviews : DOMAIN reviews[i] = ReviewFields
    BY <1>2 DEF ReviewsSound
  <2>2. \A i \in DOMAIN reviews : DOMAIN review(i) = ReviewFields
    BY <2>1 DEF ReviewFields
  <2>3. DOMAIN batch' = DOMAIN batch /\ DOMAIN reviews' = DOMAIN reviews /\ pending' \subseteq pending
    BY <1>4
  <2>4. \A i \in DOMAIN reviews : reviews'[i] = review(i) \/ reviews'[i] = reviews[i]
    BY <1>4
  <2>5. QED
    BY <1>2, <2>1, <2>2, <2>3, <2>4 DEF ReviewsSound
<1>7. Streamed' \subseteq DOMAIN reviews'
  <2> SUFFICES ASSUME NEW i \in Streamed', i \notin pending PROVE i \in DOMAIN reviews'
    BY <1>2, <1>4 DEF ReviewsSound
  <2>1. i \in DOMAIN batch /\ batch'[i] = batch[i]
    BY <1>4 DEF Streamed, Eligible, Active
  <2>2. i \in Streamed
    BY <1>1, <2>1 DEF Streamed, Eligible, Active, IsSequence
  <2>3. QED
    BY <1>2, <1>4, <2>2
<1>8. QED
  BY <1>1, <1>5, <1>6, <1>7, ClassicKeeps

\* and a wave of repairs.
LEMMA RepairKeeps ==
  ASSUME ChainInv, Heirs' = Heirs, RepairWave, UNCHANGED streamVars PROVE ChainInv'
<1>1. /\ turn = "repair" /\ turn' = "review" /\ UNCHANGED <<project, stage, frames, fresh>>
  BY DEF RepairWave, ratedVars, generateVars, streamVars
<1>2. project # Off /\ Grounds /\ ReviewsSound /\ Streamed \subseteq DOMAIN reviews
  BY <1>1 DEF ChainInv, Grounds
<1>3. PICK failing \in SUBSET {i \in pending : project.repair_fails} :
       /\ reviews' = [i \in DOMAIN reviews |->
            IF i \in pending \ failing THEN [reviews[i] EXCEPT !.annotation.version = @ + 1]
            ELSE reviews[i]]
       /\ batch' = [i \in DOMAIN batch |-> IF i \in failing THEN Fail(batch[i], "repair") ELSE batch[i]]
       /\ pending' = pending \ failing
  BY <1>1, Zenon DEF RepairWave
<1>4. SameShape(batch, batch')
  <2> SUFFICES ASSUME NEW i \in DOMAIN batch PROVE SameOwner(batch[i], batch'[i])
    BY <1>3, OwnersSame
  <2>1. DOMAIN batch[i] = EnvelopeFields
    BY <1>2, EnvelopeDomains DEF Grounds
  <2>2. SameOwner(batch[i], Fail(batch[i], "repair")) /\ SameOwner(batch[i], batch[i])
    BY <2>1, FailSame DEF SameOwner
  <2>3. QED
    BY <1>3, <2>2
<1>5. ReviewsSound'
  <2>1. \A i \in DOMAIN reviews : DOMAIN reviews[i] = ReviewFields
    BY <1>2 DEF ReviewsSound
  <2>2. DOMAIN batch' = DOMAIN batch /\ DOMAIN reviews' = DOMAIN reviews /\ pending' \subseteq pending
    BY <1>3
  <2>3. \A i \in DOMAIN reviews : DOMAIN reviews'[i] = DOMAIN reviews[i]
    BY <1>3, <2>1
  <2>4. QED
    BY <1>2, <2>1, <2>2, <2>3 DEF ReviewsSound
<1>6. Streamed' \subseteq DOMAIN reviews'
  <2> SUFFICES ASSUME NEW i \in Streamed', i \notin pending PROVE i \in DOMAIN reviews'
    BY <1>2, <1>3 DEF ReviewsSound
  <2>1. i \in DOMAIN batch /\ batch'[i] = batch[i]
    BY <1>3 DEF Streamed, Eligible, Active
  <2>2. i \in Streamed
    BY <1>1, <2>1 DEF Streamed, Eligible, Active, IsSequence
  <2>3. QED
    BY <1>2, <1>3, <2>2
<1>7. QED
  BY <1>1, <1>4, <1>5, <1>6, ClassicKeeps

\* So does the beginning of the stream.
LEMMA StreamBeginKeeps ==
  ASSUME ChainInv, Heirs' = Heirs, StreamBegin PROVE ChainInv'
<1>1. /\ turn = "review" /\ turn' = "stream" /\ pending' = Streamed
      /\ UNCHANGED <<project, stage, frames, fresh, batch, reviews>>
      /\ snapshot' = [batch |-> batch, products |-> products, frames |-> frames]
  BY DEF StreamBegin, ratedVars, generateVars, classifyVars
<1>2. /\ project # Off /\ stage = "verify" /\ Grounds /\ Owned(batch, Members(batch), frames)
      /\ ReviewsSound /\ Streamed \subseteq DOMAIN reviews
  BY <1>1 DEF ChainInv, Grounds
<1>3. SameShape(batch, batch') /\ FreshSound'
  BY <1>1, <1>2, FreshStays DEF SameShape, Grounds
<1>4. Grounds' /\ Owned(batch, Members(batch), frames)'
  BY <1>1, <1>2, <1>3, ProjectStays, ShapeSound, FramesStay, ShapeOwned DEF Grounds
<1>5. ReviewsSound'
  BY <1>1, <1>2 DEF ReviewsSound
<1>6. (/\ BatchSound(snapshot.batch) /\ FramesSound(snapshot.batch, snapshot.frames)
       /\ Owned(snapshot.batch, Members(snapshot.batch), snapshot.frames))'
  <2>1. snapshot'.batch = batch' /\ snapshot'.frames = frames'
    BY <1>1
  <2>2. BatchSound(batch)' /\ FramesSound(batch, frames)' /\ Owned(batch, Members(batch), frames)'
    BY <1>4 DEF Grounds
  <2>3. QED
    BY <2>1, <2>2, Zenon DEF BatchSound, FramesSound, Owned, Apart, Members, Anchors
<1>7. QED
  BY <1>1, <1>2, <1>4, <1>5, <1>6 DEF ChainInv, Grounds, Streaming

-------------------------------------------------------------------------------
(* The stream: surgery that is undone                                      *)

\* Who holds what when the surgery of "dead" is undone.
Restored(b, revs, at, dead) ==
  [i \in DOMAIN b |-> IF i \in dead THEN Range(b[i].members) ELSE Holding(b, revs, at)[i]]

\* When some sequences give up their surgery, each frame still has one owner.
LEMMA RestoredOwned ==
  ASSUME Mending(batch, reviews, saved, frames, pending), NEW dead \in SUBSET pending,
         pending \subseteq DOMAIN batch, FramesSound(batch, frames), BatchSound(batch)
  PROVE  /\ Owned(batch, Restored(batch, reviews, pending, dead), RolledBack(dead))
         /\ FramesSound(batch, RolledBack(dead))
<1> DEFINE own(i) == Range(batch[i].members)
           held(i) == Holding(batch, reviews, pending)[i]
           kept == Restored(batch, reviews, pending, dead)
           f == RolledBack(dead)
           A == Anchors(batch)
<1>1. /\ \A i, j \in A : i # j => own(i) \intersect own(j) = {}
      /\ \A i, j \in A : i # j => held(i) \intersect held(j) = {}
      /\ \A p \in DOMAIN frames : frames[p].status = "absorbed" <=> \E i \in A : p \in held(i)
  <2>1. \A i \in A : Members(batch)[i] = own(i)
    BY DEF Members, Anchors
  <2>2. QED
    BY <2>1 DEF Mending, Owned, Apart
<1>2. ASSUME NEW i \in dead
      PROVE  /\ DOMAIN saved[i] = (own(i) \ held(i)) \union (held(i) \ own(i))
             /\ i \notin A => DOMAIN saved[i] = {}
             /\ \A p \in DOMAIN saved[i] :
                  /\ saved[i][p] \in FrameStates /\ (saved[i][p].status = "absorbed" <=> p \in own(i))
                  /\ p \in own(i) => frames[p].status = "noise"
  <2>1. Undoing(batch[i], reviews[i], saved[i], frames) /\ i \in DOMAIN batch /\ i \in pending
    BY DEF Mending
  <2>2. held(i) = Range(reviews[i].working)
    BY <2>1 DEF Holding
  <2>3. i \in A <=> IsAnchor(batch[i])
    BY <2>1 DEF Anchors
  <2>4. QED
    BY <2>1, <2>2, <2>3 DEF Undoing
<1>3. /\ \A i \in A : kept[i] = IF i \in dead THEN own(i) ELSE held(i)
      /\ dead \subseteq DOMAIN batch /\ A \subseteq DOMAIN batch
  BY DEF Restored, Anchors
<1>4. /\ DOMAIN f = DOMAIN frames
      /\ \A p \in DOMAIN frames :
           \/ (\E i \in dead : p \in DOMAIN saved[i] /\ f[p] = saved[i][p])
           \/ (\A i \in dead : p \notin DOMAIN saved[i]) /\ f[p] = frames[p]
  BY DEF RolledBack
<1>5. FramesSound(batch, f)
  <2>1. \A p \in DOMAIN frames : f[p] \in FrameStates
    BY <1>2, <1>4 DEF FramesSound
  <2>2. f = [p \in DOMAIN frames |-> f[p]]
    BY DEF RolledBack
  <2>3. QED
    BY <1>4, <2>1, <2>2 DEF FramesSound
<1>6a. \A i \in A : own(i) \subseteq DOMAIN frames
  <2> SUFFICES ASSUME NEW i \in A PROVE own(i) \subseteq DOMAIN frames
    OBVIOUS
  <2>1. i \in DOMAIN batch
    BY DEF Anchors
  <2>2. batch[i].members \in Seq(Positions) /\ DOMAIN frames = Positions
    BY <2>1 DEF BatchSound, EnvelopeSound, FramesSound
  <2>3. QED
    BY <2>2, ElementOfSeq DEF Range
<1> HIDE DEF own, held, kept, f, A
<1>6. ASSUME NEW i \in A, NEW j \in A, i # j, NEW p \in kept[i], p \in kept[j] PROVE FALSE
  <2>1. CASE i \in dead /\ j \in dead
    BY <1>1, <1>3, <1>6, <2>1
  <2>2. CASE i \notin dead /\ j \notin dead
    BY <1>1, <1>3, <1>6, <2>2
  <2>3. ASSUME NEW u \in A, NEW v \in A, u # v, u \in dead, v \notin dead, p \in kept[u], p \in kept[v]
        PROVE  FALSE
    <3>1. p \in own(u) /\ p \in held(v)
      BY <1>3, <2>3
    <3>2. frames[p].status = "absorbed" /\ p \notin held(u)
      BY <1>1, <1>6a, <2>3, <3>1
    <3>3. p \in DOMAIN saved[u]
      BY <1>2, <2>3, <3>1, <3>2
    <3>4. QED
      BY <1>2, <2>3, <3>1, <3>2, <3>3
  <2>4. QED
    BY <1>6, <2>1, <2>2, <2>3
<1>7. ASSUME NEW p \in DOMAIN frames, NEW i \in dead, p \in DOMAIN saved[i], f[p] = saved[i][p]
      PROVE  f[p].status = "absorbed" <=> \E j \in A : p \in kept[j]
  <2>1. i \in A
    BY <1>2, <1>7
  <2>2. CASE p \in own(i)
    BY <1>2, <1>3, <1>7, <2>1, <2>2
  <2>3. CASE p \notin own(i)
    <3>1. p \in held(i) /\ f[p].status # "absorbed" /\ frames[p].status = "absorbed" /\ p \notin kept[i]
      BY <1>1, <1>2, <1>3, <1>7, <2>1, <2>3
    <3>2. ASSUME NEW j \in A, p \in kept[j] PROVE FALSE
      <4>1. j # i
        BY <3>1, <3>2
      <4>2. p \notin held(j)
        BY <1>1, <2>1, <3>1, <4>1
      <4>3. j \in dead /\ p \in own(j)
        BY <1>3, <3>2, <4>2
      <4>4. p \in DOMAIN saved[j]
        BY <1>2, <4>2, <4>3
      <4>5. QED
        BY <1>2, <3>1, <4>3, <4>4
    <3>3. QED
      BY <3>1, <3>2
  <2>4. QED
    BY <2>2, <2>3
<1>8. ASSUME NEW p \in DOMAIN frames, \A i \in dead : p \notin DOMAIN saved[i], f[p] = frames[p]
      PROVE  f[p].status = "absorbed" <=> \E j \in A : p \in kept[j]
  <2>1. \A j \in A : p \in kept[j] <=> p \in held(j)
    BY <1>2, <1>3, <1>8
  <2>2. QED
    BY <1>1, <1>8, <2>1
<1>9. \A p \in DOMAIN f : f[p].status = "absorbed" <=> \E j \in A : p \in kept[j]
  BY <1>4, <1>7, <1>8
<1>10. QED
  BY <1>5, <1>6, <1>9 DEF Owned, Apart, A, kept, f

\* The operators of a repair wave, named apart.
MendSeams(i) == SeamsNow(i, batch, reviews, pending)

\* The sequences whose mending fails, and those that are rebuilt.
MendCuts(i) == reviews[i].surgical /\ project.extract /\ batch[i].steps # None
    /\ NewPairs(i, MendSeams(i)) # {}
MendDead(fate) == {i \in pending : fate[i] = "reseam" /\ MendCuts(i)}
MendRebuilt(fate) == {i \in pending \ MendDead(fate) : reviews[i].surgical}

\* What mending comes to, in these terms.
LEMMA MendIs ==
  ASSUME NEW fate, NEW revised
  PROVE  /\ Mend(fate, revised).frames = RolledBack(MendDead(fate))
         /\ Mend(fate, revised).next \subseteq pending
         /\ Mend(fate, revised).batch = [i \in DOMAIN batch |->
              LET e == IF i \in MendRebuilt(fate) THEN Rebuilt(i, MendSeams(i)) ELSE batch[i]
              IN IF i \notin pending THEN e
                 ELSE IF i \in Mend(fate, revised).next
                 THEN IF revised THEN [e EXCEPT !.annotation.version = @ + 1] ELSE e
                 ELSE Fail(e, "verify")]
<1> DEFINE seams(i) == SeamsNow(i, batch, reviews, pending)
           cuts(i) == reviews[i].surgical /\ project.extract /\ batch[i].steps # None
               /\ NewPairs(i, seams(i)) # {}
           unstepped == {i \in pending : fate[i] = "reseam" /\ cuts(i)}
           rebuilt == {i \in pending \ unstepped : reviews[i].surgical}
           syncing == {i \in rebuilt : IsAnchor(batch[i])}
           labels(i) == products[batch[i].record].labels
           unlabelled == {i \in syncing : fate[i] = "label" /\ project.frame_classify
               /\ labels(i) # None
                           /\ ~(Range(reviews[i].working) \subseteq DOMAIN labels(i))}
           next == {i \in pending \ (unstepped \union unlabelled) : fate[i] # "annotate"}
           mended == [i \in DOMAIN batch |->
                        LET e == IF i \in rebuilt THEN Rebuilt(i, seams(i)) ELSE batch[i]
                        IN IF i \notin pending THEN e
                           ELSE IF i \in next
                           THEN IF revised THEN [e EXCEPT !.annotation.version = @ + 1] ELSE e
                           ELSE Fail(e, "verify")]
<1>1. Mend(fate, revised).frames = RolledBack(unstepped) /\ Mend(fate, revised).next = next /\ Mend(fate, revised).batch = mended
  BY DEF Mend
<1>2. unstepped = MendDead(fate) /\ rebuilt = MendRebuilt(fate) /\ \A i : seams(i) = MendSeams(i)
  BY DEF MendDead, MendRebuilt, MendCuts, MendSeams
<1>3. next \subseteq pending
  OBVIOUS
<1> HIDE DEF seams, unstepped, rebuilt, next
<1>4. QED
  BY <1>1, <1>2, <1>3

\* A batch of the same shape has all that the first one has.
LEMMA ShapeKeeps ==
  ASSUME NEW b, NEW c, SameShape(b, c), BatchSound(b), NEW f, FramesSound(b, f), Owned(b, Members(b), f)
  PROVE  BatchSound(c) /\ FramesSound(c, f) /\ Owned(c, Members(c), f)
<1>1. DOMAIN c = DOMAIN b /\ \A i \in DOMAIN b :
        /\ DOMAIN c[i] = DOMAIN b[i] /\ c[i].record = b[i].record
        /\ c[i].class = b[i].class /\ c[i].members = b[i].members
  BY Zenon DEF SameShape
<1>2. \A i \in DOMAIN b : EnvelopeSound(c[i])
  BY <1>1 DEF BatchSound, EnvelopeSound, Positions
<1>3. \A i, j \in DOMAIN b :
       IsAnchor(c[i]) /\ IsAnchor(c[j]) /\ c[i].record = c[j].record => i = j
  BY <1>1 DEF BatchSound, IsAnchor
<1>4. (\E n \in Nat : DOMAIN c = 1 .. n)
  BY <1>1 DEF BatchSound
<1>5. Anchors(c) = Anchors(b) /\ Members(c) = Members(b)
  BY ShapeMembers
<1>6. QED
  BY <1>1, <1>2, <1>3, <1>4, <1>5 DEF BatchSound, FramesSound, Owned, Apart

\* An envelope after surgery, and one whose annotation is revised.
Remade(e, m, s, t) == [e EXCEPT !.members = m, !.seams = s, !.steps = t]
Revised(e) == [e EXCEPT !.annotation.version = @ + 1]

\* Surgery sets the members.
LEMMA MembersSet ==
  ASSUME NEW e, DOMAIN e = EnvelopeFields, NEW k, NEW s, NEW t
  PROVE  Remade(e, k, s, t).members = k
BY DEF EnvelopeFields, Remade

\* What a repair makes of an envelope.
LEMMA MendedEnvelope ==
  ASSUME NEW e, EnvelopeSound(e), NEW f,
         \/ f = e
         \/ \E m, s, t : m \in Seq(Positions) /\ f = Remade(e, m, s, t),
         NEW g, g = f \/ g = Revised(f) \/ g = Fail(f, "verify")
  PROVE  EnvelopeSound(g) /\ g.record = e.record /\ g.class = e.class /\ g.members = f.members
<1>1. EnvelopeSound(f) /\ f.record = e.record /\ f.class = e.class
  <2>1. CASE f = e
    BY <2>1
  <2>2. ASSUME NEW m \in Seq(Positions), NEW s, NEW t, f = Remade(e, m, s, t)
        PROVE  EnvelopeSound(f) /\ f.record = e.record /\ f.class = e.class
    BY <2>2 DEF EnvelopeSound, EnvelopeFields, Remade
  <2>3. QED
    BY <2>1, <2>2
<1>2. CASE g = f
  BY <1>1, <1>2
<1>3. CASE g = Revised(f)
  BY <1>1, <1>3 DEF EnvelopeSound, EnvelopeFields, Revised
<1>4. CASE g = Fail(f, "verify")
  BY <1>1, <1>4 DEF EnvelopeSound, EnvelopeFields, Fail
<1>5. QED
  BY <1>2, <1>3, <1>4

\* What mending has to leave.
Mended(m) ==
  /\ BatchSound(m.batch) /\ FramesSound(m.batch, m.frames) /\ Owned(m.batch, Members(m.batch), m.frames)
  /\ DOMAIN m.batch = DOMAIN batch /\ m.next \subseteq pending

\* It leaves that.
LEMMA MendSound ==
  ASSUME Mending(batch, reviews, saved, frames, pending), BatchSound(batch), FramesSound(batch, frames),
         ReviewsSound, NEW fate, NEW revised
  PROVE  Mended(Mend(fate, revised))
<1> DEFINE m == Mend(fate, revised)
           dead == MendDead(fate)
           rebuilt == MendRebuilt(fate)
           e(i) == IF i \in rebuilt THEN Rebuilt(i, MendSeams(i)) ELSE batch[i]
           next == m.next
<1>1. /\ m.frames = RolledBack(dead) /\ next \subseteq pending
      /\ m.batch = [i \in DOMAIN batch |-> IF i \notin pending THEN e(i)
                      ELSE IF i \in next THEN IF revised THEN Revised(e(i)) ELSE e(i)
                      ELSE Fail(e(i), "verify")]
  BY MendIs DEF Revised
<1>2. dead \in SUBSET pending /\ rebuilt = {i \in pending \ dead : reviews[i].surgical}
          /\ pending \subseteq DOMAIN batch
  BY DEF MendDead, MendRebuilt, ReviewsSound
<1>3. ASSUME NEW i \in rebuilt
      PROVE  \E k, s, t : /\ k \in Seq(Positions) /\ k = reviews[i].working
                          /\ e(i) = Remade(batch[i], k, s, t)
  <2>1. reviews[i].working \in Seq(Positions)
    BY <1>2 DEF Mending, Undoing
  <2>2. \E s, t : Rebuilt(i, MendSeams(i)) = Remade(batch[i], reviews[i].working, s, t)
    BY DEF Rebuilt, Remade
  <2>3. QED
    BY <2>1, <2>2
<1> HIDE DEF m, dead, rebuilt, e, next
<1>4. ASSUME NEW i \in DOMAIN batch
      PROVE  /\ EnvelopeSound(m.batch[i]) /\ m.batch[i].record = batch[i].record
             /\ m.batch[i].class = batch[i].class
             /\ m.batch[i].members = IF i \in rebuilt THEN reviews[i].working ELSE batch[i].members
  <2>1. EnvelopeSound(batch[i])
    BY DEF BatchSound
  <2>2. /\ e(i) = batch[i] \/ \E k, s, t : k \in Seq(Positions) /\ e(i) = Remade(batch[i], k, s, t)
        /\ e(i).members = IF i \in rebuilt THEN reviews[i].working ELSE batch[i].members
    <3>1. CASE i \in rebuilt
      <4>1. PICK k, s, t : /\ k \in Seq(Positions) /\ k = reviews[i].working
                          /\ e(i) = Remade(batch[i], k, s, t)
        BY <1>3, <3>1
      <4>2. e(i).members = k
        <5>1. DOMAIN batch[i] = EnvelopeFields
          BY <2>1 DEF EnvelopeSound
        <5>2. QED
          BY <4>1, <5>1, MembersSet
      <4>3. QED
        BY <3>1, <4>1, <4>2
    <3>2. CASE i \notin rebuilt
      BY <3>2 DEF e
    <3>3. QED
      BY <3>1, <3>2
  <2>3. \/ m.batch[i] = e(i) \/ m.batch[i] = Revised(e(i))
        \/ m.batch[i] = Fail(e(i), "verify")
    BY <1>1
  <2>4. EnvelopeSound(m.batch[i]) /\ m.batch[i].record = batch[i].record
             /\ m.batch[i].class = batch[i].class /\ m.batch[i].members = e(i).members
    BY <2>1, <2>2, <2>3, MendedEnvelope
  <2>5. QED
    BY <2>2, <2>4
<1>5. DOMAIN m.batch = DOMAIN batch
  BY <1>1
<1>6. BatchSound(m.batch)
  <2>1. \A i \in DOMAIN batch : IsAnchor(m.batch[i]) <=> IsAnchor(batch[i])
    BY <1>4 DEF IsAnchor
  <2>2. QED
    BY <1>4, <1>5, <2>1 DEF BatchSound
<1>7. /\ Owned(batch, Restored(batch, reviews, pending, dead), m.frames)
      /\ FramesSound(batch, m.frames)
  BY <1>1, <1>2, RestoredOwned
<1>8. Anchors(m.batch) = Anchors(batch)
  BY <1>4, <1>5 DEF Anchors, IsAnchor
<1>9. ASSUME NEW i \in Anchors(batch)
      PROVE  Members(m.batch)[i] = Restored(batch, reviews, pending, dead)[i]
  <2>1. i \in DOMAIN batch /\ IsAnchor(batch[i])
    BY DEF Anchors
  <2>2. /\ Members(m.batch)[i] = Range(m.batch[i].members)
        /\ Restored(batch, reviews, pending, dead)[i] =
             IF i \notin dead /\ i \in pending THEN Range(reviews[i].working)
                 ELSE Range(batch[i].members)
    BY <1>2, <1>5, <2>1 DEF Members, Restored, Holding
  <2>3. CASE i \in pending /\ i \notin dead /\ ~reviews[i].surgical
    <3>1. Range(reviews[i].working) = Range(batch[i].members)
      BY <2>3 DEF Mending, Undoing
    <3>2. QED
      BY <1>2, <1>4, <2>1, <2>2, <2>3, <3>1
  <2>4. CASE ~(i \in pending /\ i \notin dead /\ ~reviews[i].surgical)
    BY <1>2, <1>4, <2>1, <2>2, <2>4
  <2>5. QED
    BY <2>3, <2>4
<1>10. Owned(m.batch, Members(m.batch), m.frames)
  BY <1>7, <1>8, <1>9 DEF Owned, Apart
<1>11. FramesSound(m.batch, m.frames)
  BY <1>5, <1>7 DEF FramesSound
<1>12. QED
  BY <1>1, <1>5, <1>6, <1>10, <1>11 DEF Mended, m, next

\* What is settled keeps its shape.
LEMMA SettleSame ==
  ASSUME NEW b, BatchSound(b), NEW revs, NEW done
  PROVE  SameShape(b, Settle(b, revs, done))
<1> DEFINE c == Settle(b, revs, done)
           review(i) == [revs[i] EXCEPT !.annotation = b[i].annotation]
<1>1. c = [i \in DOMAIN b |-> IF i \in done THEN Finalized(b[i], review(i)) ELSE b[i]]
  BY DEF Settle
<1>2. ASSUME NEW e, DOMAIN e = EnvelopeFields, NEW r PROVE SameOwner(e, Finalized(e, r))
  BY <1>2 DEF SameOwner, Finalized, EnvelopeFields
<1> HIDE DEF c, review
<1>3. ASSUME NEW i \in DOMAIN b PROVE SameOwner(b[i], c[i])
  <2>1. DOMAIN b[i] = EnvelopeFields
    BY DEF BatchSound, EnvelopeSound
  <2>2. SameOwner(b[i], Finalized(b[i], review(i))) /\ SameOwner(b[i], b[i])
    BY <1>2, <2>1 DEF SameOwner
  <2>3. QED
    BY <1>1, <2>2
<1>4. QED
  BY <1>1, <1>3 DEF SameShape, SameOwner, c

\* What every state has while the driver of sequences is at work.
Underway ==
  /\ project # Off /\ stage = "verify" /\ Grounds /\ ReviewsSound
  /\ BatchSound(snapshot.batch) /\ FramesSound(snapshot.batch, snapshot.frames)
  /\ Owned(snapshot.batch, Members(snapshot.batch), snapshot.frames)

\* The snapshot that a cancelled stream returns to stays sound.
LEMMA SnapshotStays ==
  ASSUME Heirs' = Heirs, UNCHANGED <<project, snapshot>>,
         BatchSound(snapshot.batch), FramesSound(snapshot.batch, snapshot.frames),
         Owned(snapshot.batch, Members(snapshot.batch), snapshot.frames)
  PROVE  (/\ BatchSound(snapshot.batch) /\ FramesSound(snapshot.batch, snapshot.frames)
          /\ Owned(snapshot.batch, Members(snapshot.batch), snapshot.frames))'
BY Zenon DEF BatchSound, EnvelopeSound, FramesSound, Positions, Owned, Apart, Members, Anchors

\* Soundness of batch and frames carries over to the next state.
LEMMA GroundsFrom ==
  ASSUME Heirs' = Heirs, UNCHANGED <<project, fresh>>, ProjectSound, FreshSound,
         BatchSound(batch'), FramesSound(batch', frames')
  PROVE  Grounds'
<1>1. ProjectSound' /\ FreshSound'
  BY ProjectStays, FreshStays
<1>2. BatchSound(batch)'
  BY Zenon DEF BatchSound, EnvelopeSound, Positions
<1>3. FramesSound(batch, frames)'
  BY Zenon DEF FramesSound, Positions
<1>4. QED
  BY <1>1, <1>2, <1>3 DEF Grounds

\* Mending preserves the invariant.
LEMMA MendKeeps ==
  ASSUME ChainInv, Heirs' = Heirs, StreamMend PROVE ChainInv'
<1>1. turn = "mend" /\ turn' = "refresh" /\ UNCHANGED <<project, stage, fresh, snapshot>>
  BY DEF StreamMend, ratedVars, generateVars
<1>2. Underway /\ Mending(batch, reviews, saved, frames, pending)
  BY <1>1 DEF ChainInv, Underway, Grounds, Streaming
<1>3. PICK fate \in [pending -> project.fates] :
       LET m == Mend(fate, TRUE)
           b == Settle(m.batch, reviews, settled)
           dirty == SeamDependents(b, reviews)
           spent == {i \in dirty : reviews[i].rounds > project.repairs}
           redo == dirty \ spent
           revs == [i \in DOMAIN reviews |->
             IF i \in spent THEN [reviews[i] EXCEPT !.verdict = "fail"]
             ELSE IF i \in redo THEN [reviews[i] EXCEPT !.working = b[i].members, !.surgical = TRUE,
                                        !.relabel = TRUE, !.claims = <<>>]
             ELSE reviews[i]]
       IN /\ batch' = Settle(b, revs, spent)
          /\ reviews' = revs /\ frames' = m.frames
          /\ pending' = redo /\ settled' = m.next \ spent
          /\ saved' = [i \in DOMAIN saved |-> <<>>]
  BY Zenon DEF StreamMend
<1> DEFINE m == Mend(fate, TRUE)
           b == Settle(m.batch, reviews, settled)
           dirty == SeamDependents(b, reviews)
           spent == {i \in dirty : reviews[i].rounds > project.repairs}
           redo == dirty \ spent
           failed(r) == [r EXCEPT !.verdict = "fail"]
           again(r, k) == [r EXCEPT !.working = k, !.surgical = TRUE, !.relabel = TRUE, !.claims = <<>>]
<1>4. /\ batch' = Settle(b, reviews', spent) /\ frames' = m.frames
      /\ reviews' = [i \in DOMAIN reviews |-> IF i \in spent THEN failed(reviews[i])
                       ELSE IF i \in redo THEN again(reviews[i], b[i].members) ELSE reviews[i]]
      /\ pending' = redo /\ settled' = m.next \ spent
      /\ saved' = [i \in DOMAIN saved |-> <<>>]
  BY <1>3
<1>5. Mended(m)
  BY <1>2, MendSound DEF Underway, Grounds
<1>6. dirty \subseteq DOMAIN reviews
  BY DEF SeamDependents, StreamStates
<1>7. \A r : DOMAIN r = ReviewFields => DOMAIN failed(r) = ReviewFields
  BY DEF ReviewFields
<1>8. \A r, k : DOMAIN r = ReviewFields =>
        DOMAIN again(r, k) = ReviewFields /\ again(r, k).working = k /\ again(r, k).surgical = TRUE
  BY DEF ReviewFields
<1> HIDE DEF m, b, dirty, failed, again
<1>9. /\ BatchSound(batch') /\ FramesSound(batch', frames') /\ Owned(batch', Members(batch'), frames')
      /\ DOMAIN batch' = DOMAIN batch /\ \A i \in DOMAIN batch : batch'[i].members = b[i].members
  <2>1. SameShape(m.batch, b)
    BY <1>5, SettleSame DEF Mended, b
  <2>2. BatchSound(b) /\ FramesSound(b, m.frames) /\ Owned(b, Members(b), m.frames)
    BY <1>5, <2>1, ShapeKeeps DEF Mended
  <2>3. SameShape(b, batch')
    BY <1>4, <2>2, SettleSame
  <2>4. BatchSound(batch') /\ FramesSound(batch', m.frames) /\ Owned(batch', Members(batch'), m.frames)
    BY <2>2, <2>3, ShapeKeeps
  <2>5. DOMAIN b = DOMAIN batch
    BY <1>5, <2>1 DEF Mended, SameShape
  <2>6. DOMAIN batch' = DOMAIN batch /\ \A i \in DOMAIN batch : batch'[i].members = b[i].members
    BY <2>3, <2>5 DEF SameShape
  <2>7. QED
    BY <1>4, <2>4, <2>6
<1>10. Grounds'
  BY <1>1, <1>2, <1>9, GroundsFrom DEF Underway, Grounds
<1>11. DOMAIN reviews' = DOMAIN reviews /\ redo \subseteq DOMAIN reviews
  BY <1>4, <1>6
<1>12. \A i \in DOMAIN reviews : DOMAIN reviews[i] = ReviewFields
  BY <1>2 DEF Underway, ReviewsSound
<1>13. ReviewsSound'
  <2>1. \A i \in DOMAIN reviews' : DOMAIN reviews'[i] = ReviewFields
    BY <1>4, <1>7, <1>8, <1>12
  <2>2. QED
    BY <1>2, <1>4, <1>9, <1>11, <2>1 DEF ReviewsSound, Underway
<1>14. \A i \in redo : i \in DOMAIN batch' /\ reviews'[i].working = batch'[i].members /\ saved'[i] =
           <<>>
  <2> SUFFICES ASSUME NEW i \in redo
               PROVE  i \in DOMAIN batch' /\ reviews'[i].working = batch'[i].members /\ saved'[i] = <<>>
    OBVIOUS
  <2>1. i \in DOMAIN reviews /\ i \in DOMAIN batch /\ DOMAIN saved = DOMAIN reviews
    BY <1>2, <1>11 DEF Underway, ReviewsSound, Mending
  <2>2. reviews'[i] = again(reviews[i], b[i].members) /\ i \notin spent
    BY <1>4, <2>1
  <2>3. QED
    BY <1>4, <1>8, <1>9, <1>12, <2>1, <2>2
<1>15. Mending(batch, reviews, saved, frames, pending)'
  <2>1. Holding(batch', reviews', redo) = Members(batch')
    BY <1>14 DEF Holding, Members
  <2>2. \A i \in redo : Undoing(batch'[i], reviews'[i], saved'[i], frames')
    <3> SUFFICES ASSUME NEW i \in redo PROVE Undoing(batch'[i], reviews'[i], saved'[i], frames')
      OBVIOUS
    <3>1. i \in DOMAIN batch' /\ reviews'[i].working = batch'[i].members /\ saved'[i] = <<>>
      BY <1>14
    <3>2. batch'[i].members \in Seq(Positions)
      BY <1>9, <3>1 DEF BatchSound, EnvelopeSound
    <3>3. DOMAIN saved'[i] = {}
      BY <3>1
    <3>4. QED
      BY <3>1, <3>2, <3>3 DEF Undoing
  <2>3. DOMAIN saved' = DOMAIN reviews'
    BY <1>2, <1>4, <1>11 DEF Mending
  <2>4. Apart(batch', Members(batch')) /\ Owned(batch', Holding(batch', reviews', redo), frames')
    BY <1>9, <2>1 DEF Owned
  <2>5. Mending(batch', reviews', saved', frames', pending')
    BY <1>4, <2>2, <2>3, <2>4 DEF Mending
  <2>6. QED
    BY <1>1, <2>5, Zenon DEF Mending, Undoing, Positions, Apart, Owned, Holding, Members
<1>16. settled' \subseteq DOMAIN reviews'
  BY <1>2, <1>4, <1>5, <1>11 DEF Mended, ReviewsSound, Underway
<1>17. QED
  BY <1>1, <1>2, <1>10, <1>13, <1>15, <1>16, SnapshotStays DEF ChainInv, Grounds, Underway, Streaming

\* So does the refresh of what the seams have moved,
LEMMA RefreshKeeps ==
  ASSUME ChainInv, Heirs' = Heirs, StreamRefresh PROVE ChainInv'
<1>1. /\ turn = "refresh" /\ turn' = "stream" /\ settled' = {}
      /\ UNCHANGED <<project, stage, fresh, snapshot, reviews, saved>>
  BY DEF StreamRefresh, ratedVars, generateVars
<1>2. Underway /\ Mending(batch, reviews, saved, frames, pending) /\ settled \subseteq DOMAIN reviews
  BY <1>1 DEF ChainInv, Underway, Grounds, Streaming
<1>3. PICK fate \in [pending -> project.fates] :
       LET m == Mend(fate, TRUE)
       IN /\ batch' = m.batch /\ frames' = m.frames
          /\ pending' = {i \in m.next \union settled : m.batch[i].status = "active"}
  BY Zenon DEF StreamRefresh
<1> DEFINE m == Mend(fate, TRUE)
<1>4. /\ batch' = m.batch /\ frames' = m.frames /\ pending' \subseteq m.next \union settled
  BY <1>3
<1>5. Mended(m)
  BY <1>2, MendSound DEF Underway, Grounds
<1> HIDE DEF m
<1>6. /\ BatchSound(batch') /\ FramesSound(batch', frames') /\ Owned(batch', Members(batch'), frames')
      /\ DOMAIN batch' = DOMAIN batch
  BY <1>4, <1>5 DEF Mended
<1>7. Grounds'
  BY <1>1, <1>2, <1>6, GroundsFrom DEF Underway, Grounds
<1>8. ReviewsSound'
  BY <1>1, <1>2, <1>4, <1>5, <1>6 DEF Underway, ReviewsSound, Mended
<1>9. Owned(batch, Members(batch), frames)'
  BY <1>6, Zenon DEF Owned, Apart, Members, Anchors
<1>10. QED
  BY <1>1, <1>2, <1>7, <1>8, <1>9, SnapshotStays DEF ChainInv, Grounds, Underway, Streaming

\* a run that is out of capacity,
LEMMA CapacityKeeps ==
  ASSUME ChainInv, Heirs' = Heirs, StreamCapacity PROVE ChainInv'
<1>1. /\ turn \in Streaming /\ turn' = "idle" /\ stage' = "discarded" /\ UNCHANGED <<project, fresh>>
      /\ batch' = snapshot.batch /\ frames' = snapshot.frames
  BY DEF StreamCapacity, ratedVars, generateVars, Streaming
<1>2. Underway
  BY <1>1 DEF ChainInv, Underway, Grounds, Streaming
<1>3. BatchSound(batch') /\ FramesSound(batch', frames') /\ Owned(batch', Members(batch'), frames')
  BY <1>1, <1>2 DEF Underway
<1>4. Grounds'
  BY <1>1, <1>2, <1>3, GroundsFrom DEF Underway, Grounds
<1>5. Owned(batch, Members(batch), frames)'
  BY <1>3, Zenon DEF Owned, Apart, Members, Anchors
<1>6. QED
  BY <1>1, <1>2, <1>4, <1>5 DEF ChainInv, Grounds, Underway, Streaming

\* one whose claims the circuit breaker tears,
LEMMA ClaimsTrippedKeeps ==
  ASSUME ChainInv, Heirs' = Heirs, StreamTripped, ClaimsTripped PROVE ChainInv'
<1>1. /\ turn = "claims" /\ turn' = "torn"
      /\ UNCHANGED <<project, fresh, batch, frames, stage, saved, pending, reviews, snapshot>>
  BY DEF ClaimsTripped, StreamTripped, ratedVars, generateVars
<1>2. /\ project # Off /\ stage = "verify" /\ Grounds /\ ReviewsSound
      /\ Claiming(batch, reviews, saved, frames, pending)
  BY <1>1 DEF ChainInv, Grounds, Streaming
<1>3. Grounds'
  BY <1>1, <1>2, GroundsFrom DEF Grounds
<1>4. ReviewsSound'
  BY <1>1, <1>2 DEF ReviewsSound
<1>5. Claiming(batch, reviews, saved, frames, pending)'
  <2>1. Claiming(batch', reviews', saved', frames', pending')
    BY <1>1, <1>2
  <2>2. Positions' = Positions
    BY <1>1 DEF Positions
  <2>3. QED
    BY <2>1, <2>2, Zenon DEF Claiming, Cutting, Apart, Owned, Holding, Members
<1>6. QED
  BY <1>1, <1>2, <1>3, <1>4, <1>5 DEF ChainInv, Grounds, Streaming

\* one that it ends in another wave,
LEMMA TrippedKeeps ==
  ASSUME ChainInv, Heirs' = Heirs, StreamTripped PROVE ChainInv'
<1>1. UNCHANGED <<project, fresh>>
  BY DEF StreamTripped, ratedVars, generateVars
<1>2. CASE ClaimsTripped
  BY <1>2, ClaimsTrippedKeeps
<1>3. CASE ReviewTripped \/ StepsTripped \/ RepairTripped
  <2>1. turn \in Streaming /\ turn' = "idle" /\ stage' = "tripped"
    BY <1>3 DEF ReviewTripped, StepsTripped, RepairTripped, Streaming
  <2>2. Underway
    BY <2>1 DEF ChainInv, Underway, Grounds, Streaming
  <2>3. BatchSound(batch') /\ FramesSound(batch', frames') /\ Owned(batch', Members(batch'), frames')
    <3>1. CASE ReviewTripped
      <4>1. turn = "stream" /\ UNCHANGED <<batch, frames>>
        BY <3>1 DEF ReviewTripped
      <4>2. Owned(batch, Members(batch), frames)
        BY <2>2, <4>1 DEF ChainInv, Underway
      <4>3. QED
        BY <2>2, <4>1, <4>2 DEF Underway, Grounds
    <3>2. CASE StepsTripped
      <4>1. turn \in {"mend", "refresh"} /\ UNCHANGED batch /\ frames' = RolledBack(pending)
        BY <3>2 DEF StepsTripped
      <4>2. Mending(batch, reviews, saved, frames, pending)
        BY <4>1 DEF ChainInv
      <4>3. pending \subseteq DOMAIN batch /\ BatchSound(batch) /\ FramesSound(batch, frames)
        BY <2>2 DEF Underway, ReviewsSound, Grounds
      <4>4. Restored(batch, reviews, pending, pending) = Members(batch)
        BY DEF Restored, Members, Holding
      <4>5. /\ Owned(batch, Restored(batch, reviews, pending, pending), RolledBack(pending))
            /\ FramesSound(batch, RolledBack(pending))
        BY <4>2, <4>3, RestoredOwned
      <4>6. QED
        BY <4>1, <4>3, <4>4, <4>5
    <3>3. CASE RepairTripped
      <4>1. /\ turn \in {"mend", "refresh"}
            /\ \E fate : batch' = Mend(fate, FALSE).batch /\ frames' = Mend(fate, FALSE).frames
        BY <3>3, Zenon DEF RepairTripped
      <4>2. Mending(batch, reviews, saved, frames, pending)
        BY <4>1 DEF ChainInv
      <4>3. PICK fate : batch' = Mend(fate, FALSE).batch /\ frames' = Mend(fate, FALSE).frames
        BY <4>1
      <4>4. Mended(Mend(fate, FALSE))
        BY <2>2, <4>2, MendSound DEF Underway, Grounds
      <4>5. QED
        BY <4>3, <4>4 DEF Mended
    <3>4. QED
      BY <1>3, <3>1, <3>2, <3>3
  <2>4. Grounds'
    BY <1>1, <2>2, <2>3, GroundsFrom DEF Underway, Grounds
  <2>5. Owned(batch, Members(batch), frames)'
    BY <2>3, Zenon DEF Owned, Apart, Members, Anchors
  <2>6. QED
    BY <1>1, <2>1, <2>2, <2>4, <2>5 DEF ChainInv, Grounds, Underway, Streaming
<1>4. QED
  BY <1>2, <1>3 DEF StreamTripped

\* and the end of verification.
LEMMA VerifyEndKeeps ==
  ASSUME ChainInv, Heirs' = Heirs, VerifyEnd PROVE ChainInv'
<1>1. /\ turn \in {"review", "stream"} /\ turn' = "idle" /\ stage' = "done"
      /\ UNCHANGED <<project, fresh, batch, frames>>
  BY DEF VerifyEnd, ratedVars, generateVars, classifyVars, streamVars
<1>2. project # Off /\ stage = "verify" /\ Grounds /\ Owned(batch, Members(batch), frames)
  BY <1>1 DEF ChainInv, Grounds, Streaming
<1>3. BatchSound(batch') /\ FramesSound(batch', frames')
  BY <1>1, <1>2 DEF Grounds
<1>4. Grounds'
  BY <1>1, <1>2, <1>3, GroundsFrom DEF Grounds
<1>5. Owned(batch, Members(batch), frames)'
  BY <1>1, <1>2, Zenon DEF Owned, Apart, Members, Anchors
<1>6. QED
  BY <1>1, <1>2, <1>4, <1>5 DEF ChainInv, Grounds, Streaming

-------------------------------------------------------------------------------
(* The stream: claims that are granted                                     *)

\* Granting the claims of a round preserves the invariant.
LEMMA ClaimsKeep ==
  ASSUME ChainInv, Heirs' = Heirs, StreamClaims PROVE ChainInv'
<1>1. turn = "claims" /\ turn' = "mend" /\ UNCHANGED <<project, stage, fresh, snapshot, batch>>
  BY DEF StreamClaims, ratedVars, generateVars, classifyVars
<1>2. Underway /\ Claiming(batch, reviews, saved, frames, pending) /\ settled \subseteq DOMAIN reviews
  BY <1>1 DEF ChainInv, Underway, Grounds, Streaming
<1>3. PICK granted \in SUBSET UNION {{i} \X Range(reviews[i].claims) : i \in pending} :
       LET gains(i) == {p \in Range(reviews[i].claims) : <<i, p>> \in granted}
           review(i) == [reviews[i] EXCEPT
             !.working = InOrder(Range(@) \union gains(i)),
             !.surgical = @ \/ gains(i) # {}]
           repairing == {i \in pending : review(i).surgical \/ review(i).relabel}
       IN /\ reviews' = [i \in DOMAIN reviews |-> IF i \in pending THEN review(i) ELSE reviews[i]]
          /\ saved' = [i \in DOMAIN saved |->
               IF i \notin pending THEN saved[i]
               ELSE [p \in DOMAIN saved[i] \union gains(i) |->
                      IF p \in DOMAIN saved[i] THEN saved[i][p] ELSE frames[p]]]
          /\ frames' = [p \in DOMAIN frames |->
               IF \E i \in pending : <<i, p>> \in granted THEN [frames[p] EXCEPT !.status = "absorbed"]
               ELSE frames[p]]
          /\ pending' = repairing /\ settled' = settled \union (pending \ repairing)
  BY Zenon DEF StreamClaims
<1> DEFINE gains(i) == {p \in Range(reviews[i].claims) : <<i, p>> \in granted}
           review(i) == [reviews[i] EXCEPT
             !.working = InOrder(Range(@) \union gains(i)), !.surgical = @ \/ gains(i) # {}]
           repairing == {i \in pending : review(i).surgical \/ review(i).relabel}
           own(i) == Range(batch[i].members)
           held(i) == Range(reviews[i].working)
<1>4. /\ reviews' = [i \in DOMAIN reviews |-> IF i \in pending THEN review(i) ELSE reviews[i]]
      /\ saved' = [i \in DOMAIN saved |->
           IF i \notin pending THEN saved[i]
           ELSE [p \in DOMAIN saved[i] \union gains(i) |->
                  IF p \in DOMAIN saved[i] THEN saved[i][p] ELSE frames[p]]]
      /\ frames' = [p \in DOMAIN frames |->
           IF \E i \in pending : <<i, p>> \in granted THEN [frames[p] EXCEPT !.status = "absorbed"]
           ELSE frames[p]]
      /\ pending' = repairing /\ settled' = settled \union (pending \ repairing)
  BY <1>3
<1>5. ASSUME NEW i \in pending, NEW p, <<i, p>> \in granted PROVE p \in gains(i)
  <2>1. granted \in SUBSET UNION {{j} \X Range(reviews[j].claims) : j \in pending}
    BY <1>3
  <2>2. PICK j \in pending : <<i, p>> \in {j} \X Range(reviews[j].claims)
    BY <1>5, <2>1
  <2>3. QED
    BY <1>5, <2>2
<1>6. /\ pending \subseteq DOMAIN reviews /\ DOMAIN reviews \subseteq DOMAIN batch /\ DOMAIN saved =
          DOMAIN reviews
      /\ \A p \in DOMAIN frames : frames[p] \in FrameStates
      /\ \A i \in DOMAIN reviews : DOMAIN reviews[i] = ReviewFields
      /\ \A i, j \in pending : i # j =>
          Range(reviews[i].claims) \intersect Range(reviews[j].claims) = {}
  BY <1>2 DEF Underway, ReviewsSound, Claiming, Grounds, FramesSound
<1> DEFINE A == Anchors(batch)
           hold(i) == Holding(batch, reviews, pending)[i]
<1>7. /\ \A i, j \in A : i # j => hold(i) \intersect hold(j) = {}
      /\ \A p \in DOMAIN frames : frames[p].status = "absorbed" <=> \E i \in A : p \in hold(i)
  BY <1>2 DEF Claiming, Owned, Apart
<1>8. ASSUME NEW i \in pending
      PROVE  /\ hold(i) = held(i) /\ held(i) \subseteq own(i) /\ held(i) \subseteq Positions
             /\ gains(i) \subseteq Positions /\ DOMAIN saved[i] = own(i) \ held(i)
             /\ \A p \in own(i) \ held(i) :
                  /\ saved[i][p] \in FrameStates /\ saved[i][p].status = "absorbed"
                  /\ frames[p].status = "noise" /\ frames[p].by = "verify"
             /\ \A p \in gains(i) : p \in DOMAIN frames /\ frames[p].status = "noise"
                 /\ frames[p].by # "verify"
             /\ ~reviews[i].surgical => held(i) = own(i)
             /\ i \notin A => held(i) = own(i) /\ gains(i) = {}
  <2>1. Cutting(batch[i], reviews[i], saved[i], frames, Positions) /\ i \in DOMAIN batch
    BY <1>2, <1>6 DEF Claiming
  <2>2. hold(i) = held(i)
    BY <2>1 DEF Holding
  <2>3. i \in A <=> IsAnchor(batch[i])
    BY <2>1 DEF Anchors
  <2>4. held(i) \subseteq Positions /\ Range(reviews[i].claims) \subseteq Positions
    BY <2>1, ElementOfSeq DEF Cutting, Range
  <2>5. reviews[i].claims = <<>> => Range(reviews[i].claims) = {}
    BY DEF Range
  <2>6. QED
    BY <2>1, <2>2, <2>3, <2>4, <2>5 DEF Cutting
<1> HIDE DEF A, hold, held, own
<1>9. ASSUME NEW i \in pending, NEW p \in gains(i) PROVE p \notin own(i)
  BY <1>7, <1>8, <1>9
<1>10. ASSUME NEW i \in pending
       PROVE  /\ DOMAIN review(i) = ReviewFields /\ review(i).working = InOrder(held(i) \union gains(i))
              /\ ~review(i).surgical => ~reviews[i].surgical /\ gains(i) = {}
  <2> DEFINE w == InOrder(held(i) \union gains(i))
             s == reviews[i].surgical \/ gains(i) # {}
  <2>1. review(i) = [reviews[i] EXCEPT !.working = w, !.surgical = s]
    BY DEF held
  <2>2. DOMAIN reviews[i] = ReviewFields
    BY <1>6
  <2>3. review(i).surgical = s
    BY <2>1, <2>2, Zenon DEF ReviewFields
  <2> HIDE DEF w, s
  <2>4. DOMAIN review(i) = ReviewFields /\ review(i).working = w
    BY <2>1, <2>2 DEF ReviewFields
  <2>5. ~review(i).surgical => ~s
    BY <2>3, Zenon
  <2>6. QED
    BY <2>4, <2>5 DEF w, s
<1> HIDE DEF review
<1>11. ASSUME NEW i \in pending
       PROVE  review(i).working \in Seq(Positions) /\ Range(review(i).working) = held(i) \union gains(i)
  <2> DEFINE S == held(i) \union gains(i)
             w == InOrder(S)
  <2>1. S \subseteq Positions /\ Positions \subseteq Int /\ IsFiniteSet(Positions)
    <3>1. project.session \in Nat
      BY <1>2 DEF Underway, Grounds, ProjectSound
    <3>2. IsFiniteSet(0 .. project.session - 1)
      BY <3>1, FS_Interval
    <3>3. QED
      BY <1>8, <3>1, <3>2 DEF Positions
  <2> HIDE DEF S
  <2>2. IsFiniteSet(S) /\ S \in SUBSET Int
    BY <2>1, SubsetSizes
  <2> HIDE DEF w
  <2>3. /\ w \in Seq(S) /\ Len(w) = Cardinality(S) /\ DOMAIN w = 1 .. Cardinality(S)
        /\ \A x \in S : \E k \in 1 .. Cardinality(S) : w[k] = x
    <3>1. w = InOrder(S)
      BY DEF w
    <3>2. QED
      BY <2>2, <3>1, OrderedInts
  <2>4. Range(w) = S
    BY <2>3, ElementOfSeq DEF Range
  <2>5. w \in Seq(Positions)
    BY <2>1, <2>3, SeqMonotonic
  <2>6. QED
    BY <1>10, <2>4, <2>5 DEF w, S
<1> DEFINE grown(i) == IF i \in pending THEN gains(i) ELSE {}
<1>12. \A i \in A : Holding(batch, reviews', repairing)[i] = hold(i) \union grown(i)
  <2> SUFFICES ASSUME NEW i \in A PROVE Holding(batch, reviews', repairing)[i] = hold(i) \union grown(i)
    OBVIOUS
  <2>1. i \in DOMAIN batch
    BY DEF A, Anchors
  <2>2. Holding(batch, reviews', repairing)[i] = IF i \in repairing THEN Range(reviews'[i].working)
            ELSE own(i)
    BY <2>1 DEF Holding, own
  <2>3. CASE i \in repairing
    <3>1. reviews'[i] = review(i) /\ i \in pending
      BY <1>4, <1>6, <2>3
    <3>2. QED
      BY <1>8, <1>11, <2>2, <2>3, <3>1
  <2>4. CASE i \in pending /\ i \notin repairing
    <3>1. ~review(i).surgical
      BY <2>4
    <3>2. QED
      BY <1>8, <1>10, <2>2, <2>4, <3>1, ZenonT(30)
  <2>5. CASE i \notin pending
    BY <2>1, <2>2, <2>5 DEF hold, Holding, own
  <2>6. QED
    BY <2>3, <2>4, <2>5
<1> DEFINE granting(p) == \E i \in pending : p \in gains(i)
<1>13. \A p \in DOMAIN frames : frames'[p] =
           IF granting(p) THEN [frames[p] EXCEPT !.status = "absorbed"] ELSE frames[p]
  BY <1>4, <1>5
<1>14. \A p \in DOMAIN frames : granting(p) => [frames[p] EXCEPT !.status = "absorbed"] \in FrameStates
          /\ [frames[p] EXCEPT !.status = "absorbed"].status = "absorbed"
  BY <1>6 DEF FrameStates
<1>15. DOMAIN frames' = DOMAIN frames /\ \A p \in DOMAIN frames :
         /\ frames'[p] \in FrameStates
         /\ frames'[p].status = "absorbed" <=> (granting(p) \/ frames[p].status = "absorbed")
         /\ ~granting(p) => frames'[p] = frames[p]
  BY <1>4, <1>6, <1>13, <1>14
<1> HIDE DEF gains
<1>16. Owned(batch, Holding(batch, reviews', repairing), frames')
  <2> DEFINE H == Holding(batch, reviews', repairing)
  <2>1. \A i \in A : H[i] = hold(i) \union grown(i)
    BY <1>12
  <2> HIDE DEF H
  <2>2. ASSUME NEW i \in A, NEW j \in A, i # j PROVE H[i] \intersect H[j] = {}
    <3>1. hold(i) \intersect hold(j) = {}
      BY <1>7, <2>2
    <3>2. grown(i) \intersect grown(j) = {}
      BY <1>6, <2>2 DEF gains
    <3>3. grown(i) \intersect hold(j) = {} /\ grown(j) \intersect hold(i) = {}
      BY <1>7, <1>8
    <3>4. QED
      BY <2>1, <3>1, <3>2, <3>3
  <2>3. \A p \in DOMAIN frames : granting(p) <=> \E i \in A : p \in grown(i)
    BY <1>8
  <2>4. \A p \in DOMAIN frames : frames'[p].status = "absorbed" <=> \E i \in A : p \in H[i]
    BY <1>7, <1>15, <2>1, <2>3
  <2>5. QED
    BY <1>15, <2>2, <2>4 DEF Owned, Apart, A, H
<1>17. ASSUME NEW i \in pending PROVE Undoing(batch[i], review(i), saved'[i], frames')
  <2>1. saved'[i] = [p \in (own(i) \ held(i)) \union gains(i) |->
                      IF p \in own(i) \ held(i) THEN saved[i][p] ELSE frames[p]]
    BY <1>4, <1>6, <1>8
  <2> DEFINE now == held(i) \union gains(i)
  <2>2. DOMAIN saved'[i] = (own(i) \ now) \union (now \ own(i))
    BY <1>8, <1>9, <2>1
  <2>3. ASSUME NEW p \in DOMAIN saved'[i]
        PROVE  /\ saved'[i][p] \in FrameStates /\ (saved'[i][p].status = "absorbed" <=> p \in own(i))
               /\ p \in own(i) => frames'[p].status = "noise"
    <3>1. CASE p \in own(i) \ held(i)
      <4>1. frames[p].status = "noise" /\ frames[p].by = "verify" /\ saved'[i][p] = saved[i][p]
        BY <1>8, <2>1, <3>1
      <4>2. p \in DOMAIN frames
        <5>1. i \in DOMAIN batch
          BY <1>6
        <5>2. batch[i].members \in Seq(Positions) /\ DOMAIN frames = Positions
          BY <1>2, <5>1 DEF Underway, Grounds, BatchSound, EnvelopeSound, FramesSound
        <5>3. QED
          BY <3>1, <5>2, ElementOfSeq DEF own, Range
      <4>3. ~granting(p)
        BY <1>8, <4>1
      <4>4. QED
        BY <1>8, <1>15, <3>1, <4>1, <4>2, <4>3
    <3>2. CASE p \notin own(i) \ held(i)
      <4>1. p \in gains(i) /\ p \notin own(i) /\ saved'[i][p] = frames[p]
        BY <1>9, <2>1, <3>2
      <4>2. QED
        BY <1>6, <1>8, <4>1
    <3>3. QED
      BY <3>1, <3>2
  <2>4. ~review(i).surgical \/ ~IsAnchor(batch[i]) => now = own(i)
    <3>1. i \in A <=> IsAnchor(batch[i])
      BY <1>6 DEF A, Anchors
    <3>2. QED
      BY <1>8, <1>10, <3>1
  <2> HIDE DEF now
  <2>5. QED
    BY <1>11, <2>2, <2>3, <2>4 DEF Undoing, own, now
<1>18. Mending(batch', reviews', saved', frames', pending')
  <2>1. \A i \in repairing : reviews'[i] = review(i) /\ i \in pending
    BY <1>4, <1>6
  <2>2. \A i \in repairing : Undoing(batch[i], reviews'[i], saved'[i], frames')
    BY <1>17, <2>1
  <2>3. DOMAIN saved' = DOMAIN reviews'
    BY <1>4, <1>6
  <2>4. Apart(batch, Members(batch))
    BY <1>2 DEF Claiming
  <2> HIDE DEF repairing
  <2>5. QED
    BY <1>1, <1>4, <1>16, <2>2, <2>3, <2>4 DEF Mending
<1>19. Mending(batch, reviews, saved, frames, pending)'
  BY <1>1, <1>18, Zenon DEF Mending, Undoing, Positions, Apart, Owned, Holding, Members
<1>20. Grounds'
  <2>1. BatchSound(batch') /\ DOMAIN batch' = DOMAIN batch
    BY <1>1, <1>2 DEF Underway, Grounds
  <2>2. FramesSound(batch', frames')
    <3>1. frames' = [p \in DOMAIN frames |-> frames'[p]]
      BY <1>4
    <3>2. QED
      BY <1>2, <1>15, <2>1, <3>1 DEF Underway, Grounds, FramesSound
  <2>3. QED
    BY <1>1, <1>2, <2>1, <2>2, GroundsFrom DEF Underway, Grounds
<1>21. DOMAIN reviews' = DOMAIN reviews /\ pending' \subseteq pending
       /\ \A i \in DOMAIN reviews : DOMAIN reviews'[i] = ReviewFields
  BY <1>4, <1>6, <1>10
<1>22. ReviewsSound' /\ settled' \subseteq DOMAIN reviews'
  BY <1>1, <1>2, <1>4, <1>6, <1>21 DEF ReviewsSound, Underway
<1>23. QED
  BY <1>1, <1>2, <1>19, <1>20, <1>22, SnapshotStays DEF ChainInv, Grounds, Underway, Streaming

-------------------------------------------------------------------------------
(* The stream: what the defects of a review come to                        *)

\* What the defects of the n-th kind do.
DefectStep(i, defects, s, n) ==
  IF \E d \in defects : d.kind = DefectKinds[n]
  THEN Routed(i, CHOOSE d \in defects : d.kind = DefectKinds[n], s)
  ELSE s

\* The loop over the kinds of defects, and that it can be run.
DefectsRouted(F, i, defects, acc, m) ==
  F = [k \in 0 .. m |-> IF k = 0 THEN acc ELSE DefectStep(i, defects, F[k - 1], k)]

\* The loop can be run over as many kinds as there are.
LEMMA DefectsRoutedExists ==
  ASSUME NEW i, NEW defects, NEW acc, NEW m \in Nat
  PROVE  \E F : DefectsRouted(F, i, defects, acc, m)
<1> DEFINE Q == {n \in Nat : \E F : DefectsRouted(F, i, defects, acc, n)}
           start == acc
           Next1(s, k) == DefectStep(i, defects, s, k)
<1>1. 0 \in Q
  <2> DEFINE F == [k \in 0 .. 0 |-> start]
  <2>1. \A k \in 0 .. 0 : k = 0
    OBVIOUS
  <2>2. F = [k \in 0 .. 0 |-> IF k = 0 THEN start ELSE Next1(F[k - 1], k)]
    <3> HIDE DEF start, Next1
    <3>1. QED
      BY <2>1
  <2>3. DefectsRouted(F, i, defects, acc, 0)
    BY <2>2, Zenon DEF DefectsRouted
  <2>4. QED
    BY <2>3
<1>2. ASSUME NEW n \in Q PROVE n + 1 \in Q
  <2>1. PICK F : DefectsRouted(F, i, defects, acc, n)
    OBVIOUS
  <2> DEFINE G == [k \in 0 .. n + 1 |-> IF k = 0 THEN start ELSE Next1(F[k - 1], k)]
  <2>2. F = [k \in 0 .. n |-> IF k = 0 THEN start ELSE Next1(F[k - 1], k)]
    BY <2>1, Zenon DEF DefectsRouted
  <2> HIDE DEF Next1, start
  <2>3. n \in Nat
    OBVIOUS
  <2>4. \A k \in 0 .. n : k \in 0 .. n + 1 /\ G[k] = F[k]
    BY <2>2, <2>3
  <2>5. \A k \in 0 .. n + 1 : k # 0 => k - 1 \in 0 .. n
    BY <2>3
  <2>6. G = [k \in 0 .. n + 1 |-> IF k = 0 THEN start ELSE Next1(G[k - 1], k)]
    BY <2>4, <2>5
  <2>7. DefectsRouted(G, i, defects, acc, n + 1)
    BY <2>6, Zenon DEF DefectsRouted, Next1, start
  <2>8. QED
    BY <2>3, <2>7
<1>3. Q = Nat
  <2> HIDE DEF Q
  <2>1. Q \in SUBSET Nat
    BY DEF Q
  <2>2. QED
    BY <1>1, <1>2, <2>1, SetInduction
<1>4. QED
  BY <1>3

\* What the loop returns is its last step's; each step goes on from the one before.
DefectsRun(F, i, defects, acc) ==
  /\ F[0] = acc /\ F[Len(DefectKinds)] = RouteDefects(i, defects, acc)
  /\ \A n \in 1 .. Len(DefectKinds) : F[n] = DefectStep(i, defects, F[n - 1], n)

\* Routing the defects is the loop over all kinds.
LEMMA RouteDefectsIs ==
  ASSUME NEW i, NEW defects, NEW acc
  PROVE  \E F : DefectsRun(F, i, defects, acc)
<1> DEFINE F == CHOOSE f : DefectsRouted(f, i, defects, acc, Len(DefectKinds))
<1>1. Len(DefectKinds) = 6
  BY DEF DefectKinds
<1>2. DefectsRouted(F, i, defects, acc, Len(DefectKinds))
  BY <1>1, DefectsRoutedExists
<1>3. RouteDefects(i, defects, acc) = F[Len(DefectKinds)]
  BY Zenon DEF RouteDefects, DefectsRouted, DefectStep
<1> HIDE DEF F
<1>4. F[0] = acc /\ \A n \in 1 .. Len(DefectKinds) : F[n] = DefectStep(i, defects, F[n - 1], n)
  BY <1>1, <1>2 DEF DefectsRouted
<1>5. QED
  BY <1>3, <1>4 DEF DefectsRun

\* The surgery on one envelope, that began on frames and claims "all".
Surgery(i, acc, all) ==
  LET own == Range(batch[i].members)
      held == Range(acc.review.working)
  IN /\ DOMAIN acc = {"review", "frames", "claimed", "saved"}
     /\ Cutting(batch[i], acc.review, acc.saved, acc.frames, acc.claimed)
     /\ acc.claimed = all.claimed \union Range(acc.review.claims) /\ acc.claimed \subseteq Positions
     /\ all.claimed \intersect Range(acc.review.claims) = {}
     /\ DOMAIN acc.frames = Positions /\ acc.frames = [p \in Positions |-> acc.frames[p]]
     /\ \A p \in Positions : acc.frames[p] =
          IF p \in own \ held THEN [status |-> "noise", by |-> "verify"] ELSE all.frames[p]

\* What it began on.
Before(i, all) ==
  /\ DOMAIN all.frames = Positions /\ all.frames = [p \in Positions |-> all.frames[p]]
  /\ \A p \in Positions : all.frames[p] \in FrameStates
  /\ all.claimed \subseteq Positions /\ Range(batch[i].members) \subseteq Positions
  /\ IsAnchor(batch[i]) => \A p \in Range(batch[i].members) : all.frames[p].status = "absorbed"

\* Asking for another label is sound,
LEMMA RelabelSurgery ==
  ASSUME NEW i, NEW acc, NEW all, Surgery(i, acc, all)
  PROVE  Surgery(i, [acc EXCEPT !.review.relabel = TRUE], all)
<1> DEFINE now == [acc EXCEPT !.review.relabel = TRUE]
<1>1. DOMAIN acc = {"review", "frames", "claimed", "saved"} /\ DOMAIN acc.review = ReviewFields
  BY DEF Surgery, Cutting
<1>2. /\ DOMAIN now = {"review", "frames", "claimed", "saved"} /\ now.frames = acc.frames
      /\ now.claimed = acc.claimed /\ now.saved = acc.saved /\ now.review =
          [acc.review EXCEPT !.relabel = TRUE]
  BY <1>1
<1> HIDE DEF now
<1>3. /\ DOMAIN now.review = ReviewFields /\ now.review.working = acc.review.working
      /\ now.review.claims = acc.review.claims /\ now.review.surgical = acc.review.surgical
  BY <1>1, <1>2 DEF ReviewFields
<1>4. Cutting(batch[i], now.review, now.saved, now.frames, now.claimed)
  <2>1. Cutting(batch[i], acc.review, acc.saved, acc.frames, acc.claimed)
    BY DEF Surgery
  <2>2. QED
    BY <1>2, <1>3, <2>1 DEF Cutting
<1>5. QED
  BY <1>2, <1>3, <1>4 DEF Surgery, now

\* and so is a claim on a frame that is free,
LEMMA ClaimSurgery ==
  ASSUME NEW i, NEW acc, NEW all, Surgery(i, acc, all), Before(i, all), IsAnchor(batch[i]),
         NEW p \in Positions, Reclaimable(p, acc)
  PROVE  Surgery(i, [acc EXCEPT !.review.claims = Append(@, p), !.claimed = @ \union {p}], all)
<1> DEFINE now == [acc EXCEPT !.review.claims = Append(@, p), !.claimed = @ \union {p}]
           claims == Append(acc.review.claims, p)
<1>1. DOMAIN acc = {"review", "frames", "claimed", "saved"} /\ DOMAIN acc.review = ReviewFields
  BY DEF Surgery, Cutting
<1>2. /\ DOMAIN now = {"review", "frames", "claimed", "saved"} /\ now.frames = acc.frames
      /\ now.claimed = acc.claimed \union {p} /\ now.saved = acc.saved
      /\ now.review = [acc.review EXCEPT !.claims = claims]
  BY <1>1
<1>3. acc.review.claims \in Seq(Positions)
  BY DEF Surgery, Cutting
<1>4. claims \in Seq(Positions) /\ Range(claims) = Range(acc.review.claims) \union {p}
  BY <1>3, AppendProperties, LenProperties, SMTT(20) DEF Range
<1> HIDE DEF now, claims
<1>5. /\ DOMAIN now.review = ReviewFields /\ now.review.working = acc.review.working
      /\ now.review.claims = claims /\ now.review.surgical = acc.review.surgical
  BY <1>1, <1>2 DEF ReviewFields
<1>6. p \notin acc.claimed /\ acc.frames[p].status = "noise" /\ acc.frames[p].by # "verify"
  BY DEF Reclaimable
<1>7. Cutting(batch[i], now.review, now.saved, now.frames, now.claimed)
  <2>1. Cutting(batch[i], acc.review, acc.saved, acc.frames, acc.claimed) /\ DOMAIN acc.frames =
            Positions
    BY DEF Surgery
  <2>2. QED
    BY <1>2, <1>4, <1>5, <1>6, <2>1 DEF Cutting
<1>8. QED
  <2>1. /\ acc.claimed = all.claimed \union Range(acc.review.claims) /\ acc.claimed \subseteq Positions
        /\ all.claimed \intersect Range(acc.review.claims) = {}
        /\ DOMAIN acc.frames = Positions /\ acc.frames = [q \in Positions |-> acc.frames[q]]
        /\ \A q \in Positions : acc.frames[q] =
             IF q \in Range(batch[i].members) \ Range(acc.review.working)
             THEN [status |-> "noise", by |-> "verify"] ELSE all.frames[q]
    BY DEF Surgery
  <2>2. Surgery(i, now, all)
    BY <1>2, <1>4, <1>5, <1>6, <1>7, <2>1 DEF Surgery
  <2>3. QED
    BY <2>2 DEF now

\* The frames that remain, in their order.
LEMMA InOrderOf ==
  ASSUME ProjectSound, NEW S \in SUBSET Positions
  PROVE  InOrder(S) \in Seq(Positions) /\ Range(InOrder(S)) = S
<1> DEFINE w == InOrder(S)
<1>1. Positions \subseteq Int /\ IsFiniteSet(Positions)
  <2>1. project.session \in Nat
    BY DEF ProjectSound
  <2>2. IsFiniteSet(0 .. project.session - 1)
    BY <2>1, FS_Interval
  <2>3. QED
    BY <2>1, <2>2 DEF Positions
<1>2. IsFiniteSet(S) /\ S \in SUBSET Int
  BY <1>1, SubsetSizes
<1> HIDE DEF w
<1>3. /\ w \in Seq(S) /\ Len(w) = Cardinality(S) /\ DOMAIN w = 1 .. Cardinality(S)
      /\ \A x \in S : \E k \in 1 .. Cardinality(S) : w[k] = x
  <2>1. w = InOrder(S)
    BY DEF w
  <2>2. QED
    BY <1>2, <2>1, OrderedInts
<1>4. Range(w) = S
  BY <1>3, ElementOfSeq DEF Range
<1>5. w \in Seq(Positions)
  BY <1>1, <1>3, SeqMonotonic
<1>6. QED
  BY <1>4, <1>5 DEF w

\* What is held is part of what was held.
LEMMA HeldPositions ==
  ASSUME NEW e, NEW review, NEW kept, NEW f, NEW claimed, Cutting(e, review, kept, f, claimed)
  PROVE  Range(review.working) \subseteq Range(e.members) /\ Range(review.working) \subseteq Positions
<1>1. review.working \in Seq(Positions) /\ Range(review.working) \subseteq Range(e.members)
  BY DEF Cutting
<1>2. QED
  BY <1>1, ElementOfSeq DEF Range

\* and so is letting go of members.
LEMMA ShrinkSurgery ==
  ASSUME ProjectSound, NEW i, NEW d, NEW acc, NEW all, Surgery(i, acc, all), Before(i, all),
      IsAnchor(batch[i])
  PROVE  Surgery(i, Shrunk(i, d, acc), all)
<1> DEFINE own == Range(batch[i].members)
           held == Range(acc.review.working)
           leaving == held \intersect d.members
           absorbed == {p \in leaving : acc.frames[p].status = "absorbed"}
           w == InOrder(held \ leaving)
           kept == [p \in DOMAIN acc.saved \union absorbed |->
                     IF p \in absorbed THEN acc.frames[p] ELSE acc.saved[p]]
           left == [p \in DOMAIN acc.frames |->
                     IF p \in absorbed THEN [status |-> "noise", by |-> "verify"] ELSE acc.frames[p]]
           now == [acc EXCEPT !.review.working = InOrder(Range(@) \ leaving), !.review.surgical = TRUE,
                     !.saved =
                         [p \in DOMAIN @ \union absorbed |-> IF p \in absorbed THEN acc.frames[p]
                             ELSE @[p]],
                     !.frames = [p \in DOMAIN @ |->
                       IF p \in absorbed THEN [status |-> "noise", by |-> "verify"] ELSE @[p]]]
<1>1. CASE leaving = {} \/ leaving = held
  <2>1. Shrunk(i, d, acc) = acc
    BY <1>1 DEF Shrunk
  <2>2. QED
    BY <2>1
<1>2. CASE ~(leaving = {} \/ leaving = held)
  <2>1. Shrunk(i, d, acc) = now
    BY <1>2, Zenon DEF Shrunk
  <2>2. DOMAIN acc = {"review", "frames", "claimed", "saved"} /\ DOMAIN acc.review = ReviewFields
    BY DEF Surgery, Cutting
  <2>3. /\ DOMAIN now = {"review", "frames", "claimed", "saved"} /\ now.frames = left
        /\ now.claimed = acc.claimed /\ now.saved = kept
        /\ now.review = [acc.review EXCEPT !.working = w, !.surgical = TRUE]
    <3>1. now.frames = left
      BY <2>2
    <3>2. now.saved = kept
      BY <2>2
    <3>3. now.review = [acc.review EXCEPT !.working = w, !.surgical = TRUE]
      BY <2>2
    <3>4. DOMAIN now = {"review", "frames", "claimed", "saved"} /\ now.claimed = acc.claimed
      BY <2>2
    <3>5. QED
      BY <3>1, <3>2, <3>3, <3>4
  <2>4. /\ Cutting(batch[i], acc.review, acc.saved, acc.frames, acc.claimed)
        /\ DOMAIN acc.frames = Positions
        /\ \A p \in Positions : acc.frames[p] =
             IF p \in own \ held THEN [status |-> "noise", by |-> "verify"] ELSE all.frames[p]
        /\ \A p \in own : all.frames[p].status = "absorbed"
        /\ \A p \in Positions : all.frames[p] \in FrameStates
    BY DEF Surgery, Before
  <2> HIDE DEF now
  <2>5. held \subseteq own /\ held \subseteq Positions
    BY <2>4, HeldPositions
  <2> HIDE DEF held, own
  <2>6. \A p \in held : acc.frames[p].status = "absorbed" /\ acc.frames[p] \in FrameStates
    BY <2>4, <2>5
  <2>7. absorbed = leaving
    BY <2>6
  <2>8. w \in Seq(Positions) /\ Range(w) = held \ leaving
    BY <2>5, InOrderOf
  <2> HIDE DEF w
  <2>9. /\ DOMAIN now.review = ReviewFields /\ now.review.working = w
        /\ now.review.claims = acc.review.claims /\ now.review.surgical = TRUE
    BY <2>2, <2>3 DEF ReviewFields
  <2>10. /\ DOMAIN acc.saved = own \ held
         /\ \A p \in DOMAIN acc.saved : acc.saved[p] \in FrameStates /\ acc.saved[p].status = "absorbed"
              /\ acc.frames[p] = [status |-> "noise", by |-> "verify"]
         /\ \A p \in Range(acc.review.claims) : p \in acc.claimed /\ p \in DOMAIN acc.frames
              /\ acc.frames[p].status = "noise" /\ acc.frames[p].by # "verify"
         /\ acc.review.claims \in Seq(Positions)
    BY <2>4 DEF Cutting, own, held
  <2>11. \A p \in Positions : left[p] = IF p \in leaving THEN [status |-> "noise", by |-> "verify"]
             ELSE acc.frames[p]
    BY <2>4, <2>7
  <2>12. /\ DOMAIN kept = (own \ held) \union leaving
         /\ \A p \in DOMAIN kept : kept[p] = IF p \in leaving THEN acc.frames[p] ELSE acc.saved[p]
    BY <2>7, <2>10
  <2>13. leaving \subseteq held /\ DOMAIN left = Positions /\ left = [p \in Positions |-> left[p]]
    BY <2>4
  <2> HIDE DEF left, kept, leaving, absorbed
  <2>14. own \ Range(w) = (own \ held) \union leaving /\ Range(w) \subseteq own
    BY <2>5, <2>8, <2>13
  <2>15. \A p \in DOMAIN kept : kept[p] \in FrameStates /\ kept[p].status = "absorbed"
                                /\ left[p] = [status |-> "noise", by |-> "verify"]
    <3> SUFFICES ASSUME NEW p \in DOMAIN kept
                 PROVE  kept[p] \in FrameStates /\ kept[p].status = "absorbed"
                        /\ left[p] = [status |-> "noise", by |-> "verify"]
      OBVIOUS
    <3>1. CASE p \in leaving
      BY <2>5, <2>6, <2>11, <2>12, <2>13, <3>1
    <3>2. CASE p \notin leaving
      <4>1. p \in DOMAIN acc.saved /\ kept[p] = acc.saved[p]
        BY <2>10, <2>12, <3>2
      <4>2. p \in Positions
        BY <2>10, <4>1 DEF Before, own
      <4>3. QED
        BY <2>10, <2>11, <3>2, <4>1, <4>2
    <3>3. QED
      BY <3>1, <3>2
  <2>16. \A p \in Range(acc.review.claims) : left[p] = acc.frames[p] /\ p \in DOMAIN left
    BY <2>4, <2>6, <2>10, <2>11, <2>13
  <2>17. Cutting(batch[i], now.review, now.saved, now.frames, now.claimed)
    BY <2>3, <2>8, <2>9, <2>10, <2>12, <2>14, <2>15, <2>16 DEF Cutting, own
  <2>18. \A p \in Positions : left[p] =
           IF p \in own \ Range(w) THEN [status |-> "noise", by |-> "verify"] ELSE all.frames[p]
    BY <2>4, <2>11, <2>14
  <2>19. /\ acc.claimed = all.claimed \union Range(acc.review.claims) /\ acc.claimed \subseteq Positions
         /\ all.claimed \intersect Range(acc.review.claims) = {}
    BY DEF Surgery
  <2>20. Surgery(i, now, all)
    BY <2>3, <2>9, <2>13, <2>17, <2>18, <2>19 DEF Surgery, own
  <2>21. QED
    BY <2>1, <2>20
<1>3. QED
  BY <1>1, <1>2

\* So each defect is routed soundly,
LEMMA RoutedSurgery ==
  ASSUME ProjectSound, NEW i, NEW d, NEW acc, NEW all, Surgery(i, acc, all), Before(i, all)
  PROVE  Surgery(i, Routed(i, d, acc), all)
<1>1. CASE d.kind = "label_mismatch"
  BY <1>1, RelabelSurgery DEF Routed
<1>2. CASE d.kind # "label_mismatch" /\ (d.kind = "wrong_stitch" \/ ~IsAnchor(batch[i]))
  BY <1>2 DEF Routed
<1>3. CASE d.kind = "off_task_members" /\ IsAnchor(batch[i])
  <2>1. Routed(i, d, acc) = Shrunk(i, d, acc)
    BY <1>3 DEF Routed
  <2>2. QED
    BY <1>3, <2>1, ShrinkSurgery
<1>4. CASE /\ d.kind \notin {"label_mismatch", "wrong_stitch", "off_task_members"} /\ IsAnchor(batch[i])
           /\ Candidates(i, d, acc) = {}
  BY <1>4 DEF Routed
<1>5. CASE /\ d.kind \notin {"label_mismatch", "wrong_stitch", "off_task_members"} /\ IsAnchor(batch[i])
           /\ Candidates(i, d, acc) # {}
  <2> DEFINE C == Candidates(i, d, acc)
             p == Min(C)
  <2>1. C \subseteq DOMAIN acc.frames /\ \A q \in C : Reclaimable(q, acc)
    BY DEF Candidates
  <2>2. DOMAIN acc.frames = Positions
    BY DEF Surgery
  <2>3. Positions \subseteq Int /\ IsFiniteSet(Positions)
    <3>1. project.session \in Nat
      BY DEF ProjectSound
    <3>2. IsFiniteSet(0 .. project.session - 1)
      BY <3>1, FS_Interval
    <3>3. QED
      BY <3>1, <3>2 DEF Positions
  <2>4. Routed(i, d, acc) = [acc EXCEPT !.review.claims = Append(@, p), !.claimed = @ \union {p}]
    BY <1>5, Zenon DEF Routed
  <2> HIDE DEF C
  <2>5. IsFiniteSet(C) /\ C \in SUBSET Int /\ C # {}
    <3>1. C \in SUBSET Positions
      BY <2>1, <2>2
    <3>2. QED
      BY <1>5, <2>3, <3>1, SubsetSizes DEF C
  <2>6. p \in C
    <3>1. Min(C) \in C
      BY <2>5, Extremes, Zenon
    <3>2. QED
      BY <3>1
  <2> HIDE DEF p
  <2>7. p \in Positions /\ Reclaimable(p, acc)
    BY <2>1, <2>2, <2>6
  <2>8. Surgery(i, [acc EXCEPT !.review.claims = Append(@, p), !.claimed = @ \union {p}], all)
    BY <1>5, <2>7, ClaimSurgery, Zenon
  <2>9. QED
    BY <2>4, <2>8, Zenon
<1>6. QED
  <2>1. CASE d.kind = "label_mismatch" \/ d.kind = "wrong_stitch" \/ ~IsAnchor(batch[i])
    BY <1>1, <1>2, <2>1
  <2>2. CASE d.kind # "label_mismatch" /\ d.kind # "wrong_stitch" /\ IsAnchor(batch[i])
    BY <1>3, <1>4, <1>5, <2>2
  <2>3. QED
    BY <2>1, <2>2, Zenon

\* and all of them are.
LEMMA DefectsSurgery ==
  ASSUME ProjectSound, NEW i, NEW defects, NEW acc, NEW all, Surgery(i, acc, all), Before(i, all)
  PROVE  Surgery(i, RouteDefects(i, defects, acc), all)
<1>1a. PICK F : DefectsRun(F, i, defects, acc)
  BY RouteDefectsIs
<1>1. /\ F[0] = acc /\ F[Len(DefectKinds)] = RouteDefects(i, defects, acc)
      /\ \A n \in 1 .. Len(DefectKinds) : F[n] = DefectStep(i, defects, F[n - 1], n)
  BY <1>1a DEF DefectsRun
<1>2. Len(DefectKinds) = 6
  BY DEF DefectKinds
<1>3. ASSUME NEW n \in 1 .. 6, Surgery(i, F[n - 1], all) PROVE Surgery(i, F[n], all)
  <2>1. F[n] = DefectStep(i, defects, F[n - 1], n)
    BY <1>1, <1>2
  <2>2. \A s : DefectStep(i, defects, s, n) = s \/ \E d : DefectStep(i, defects, s, n) = Routed(i, d, s)
    BY Zenon DEF DefectStep
  <2>3. QED
    BY <1>3, <2>1, <2>2, RoutedSurgery
<1> DEFINE P(n) == Surgery(i, F[n], all)
<1>4. P(0)
  BY <1>1
<1>5. \A n \in 1 .. 6 : P(n - 1) => P(n)
  BY <1>3
<1> HIDE DEF P
<1>6. P(1) /\ P(2) /\ P(3) /\ P(4) /\ P(5) /\ P(6)
  <2>1. P(1)
    BY <1>4, <1>5
  <2>2. P(2)
    BY <2>1, <1>5
  <2>3. P(3)
    BY <2>2, <1>5
  <2>4. P(4)
    BY <2>3, <1>5
  <2>5. P(5)
    BY <2>4, <1>5
  <2>6. QED
    BY <2>1, <2>2, <2>3, <2>4, <2>5, <1>5
<1>7. QED
  BY <1>1, <1>2, <1>6 DEF P

\* What a review changes in the ledger.
LEMMA ReviewedIs ==
  ASSUME NEW i, DOMAIN reviews[i] = ReviewFields, NEW report
  PROVE  LET r == Reviewed(i, report).review
         IN DOMAIN r = ReviewFields /\ r.working = batch[i].members /\ r.claims = <<>>
<1> DEFINE defects == IF report.verdict = "fail" /\ report.defects = {}
                 THEN {[kind |-> "label_mismatch", members |-> {}]} ELSE report.defects
           real == {d \in defects : ~Suspicious(i, d)}
           v == IF defects # {} /\ real = {} THEN "pass" ELSE report.verdict
           r == [reviews[i] EXCEPT !.rounds = @ + 1, !.working = batch[i].members,
                    !.surgical = FALSE, !.relabel = FALSE, !.claims = <<>>, !.verdict = v]
<1>1. Reviewed(i, report).review = r
  BY DEF Reviewed
<1> HIDE DEF v
<1>2. DOMAIN r = ReviewFields /\ r.working = batch[i].members /\ r.claims = <<>>
  BY DEF ReviewFields
<1>3. QED
  BY <1>1, <1>2

\* Surgery begins with what the review found, and nothing changed.
LEMMA SurgeryBegins ==
  ASSUME BatchSound(batch), NEW i \in DOMAIN batch, DOMAIN reviews[i] = ReviewFields,
         NEW report, NEW all, Before(i, all), NEW acc,
         acc =
             [review |-> Reviewed(i, report).review, frames |-> all.frames, claimed |-> all.claimed,
                 saved |-> <<>>]
  PROVE  Surgery(i, acc, all)
<1> DEFINE r == Reviewed(i, report).review
<1>1. DOMAIN r = ReviewFields /\ r.working = batch[i].members /\ r.claims = <<>>
  BY ReviewedIs
<1> HIDE DEF r
<1>2. batch[i].members \in Seq(Positions)
  BY DEF BatchSound, EnvelopeSound
<1>3. /\ DOMAIN acc = {"review", "frames", "claimed", "saved"} /\ acc.review = r /\ acc.frames =
          all.frames
      /\ acc.claimed = all.claimed /\ acc.saved = <<>>
  BY DEF r
<1>4. Range(r.claims) = {} /\ r.claims \in Seq(Positions) /\ DOMAIN acc.saved = {}
  BY <1>1, <1>3 DEF Range
<1>5. Range(r.working) = Range(batch[i].members) /\ r.working \in Seq(Positions)
  BY <1>1, <1>2
<1>6. Cutting(batch[i], r, acc.saved, acc.frames, acc.claimed)
  BY <1>1, <1>4, <1>5 DEF Cutting
<1>7. QED
  BY <1>3, <1>4, <1>5, <1>6 DEF Surgery, Before

-------------------------------------------------------------------------------
(* The stream: the reviews of a round                                      *)

\* What has come of a round when the sequences "done" were routed.
Round(done, s, reports) ==
  /\ DOMAIN s = {"frames", "claimed", "reviews", "saved"}
  /\ DOMAIN s.reviews = DOMAIN reviews /\ DOMAIN s.saved = DOMAIN reviews
  /\ DOMAIN s.frames = Positions /\ s.frames = [p \in Positions |-> s.frames[p]]
  /\ \A p \in Positions : s.frames[p] \in FrameStates
  /\ s.claimed \subseteq Positions
  /\ \A i \in done : Cutting(batch[i], s.reviews[i], s.saved[i], s.frames, s.claimed)
  /\ \A i, j \in done : i # j => Range(s.reviews[i].claims) \intersect Range(s.reviews[j].claims) = {}
  /\ \A i \in DOMAIN reviews \ done : s.reviews[i] = reviews[i]
  /\ Owned(batch, Holding(batch, s.reviews, done), s.frames)
  /\ \A i \in done : ~Repairable(Reviewed(i, reports[i]).review) =>
       Range(s.reviews[i].working) = Range(batch[i].members)

\* Routing one review is sound surgery, and none at all if nothing can be repaired.
LEMMA RouteReviewIs ==
  ASSUME NEW i, NEW report, NEW all, Before(i, all), i \in DOMAIN batch, BatchSound(batch),
      ProjectSound,
         DOMAIN reviews[i] = ReviewFields
  PROVE  \E r : /\ Surgery(i, r, all)
                /\ RouteReview(i, report, all) =
                     [frames |-> r.frames, claimed |-> r.claimed,
                      reviews |-> [all.reviews EXCEPT ![i] = r.review],
                      saved |-> [all.saved EXCEPT ![i] = r.saved]]
                /\ ~Repairable(Reviewed(i, report).review) =>
                     Range(r.review.working) = Range(batch[i].members)
<1> DEFINE done == Reviewed(i, report)
           acc == [review |-> done.review, frames |-> all.frames, claimed |-> all.claimed,
               saved |-> <<>>]
           r == IF Repairable(done.review) THEN RouteDefects(i, done.defects, acc) ELSE acc
<1>1. RouteReview(i, report, all) = [frames |-> r.frames, claimed |-> r.claimed,
                      reviews |-> [all.reviews EXCEPT ![i] = r.review],
                      saved |-> [all.saved EXCEPT ![i] = r.saved]]
  BY Zenon DEF RouteReview
<1>2. Surgery(i, acc, all)
  BY SurgeryBegins
<1>3. acc.review = done.review /\ done.review.working = batch[i].members
  BY ReviewedIs
<1> HIDE DEF acc, done
<1>4. Surgery(i, r, all)
  BY <1>2, DefectsSurgery
<1>5. ~Repairable(done.review) => Range(r.review.working) = Range(batch[i].members)
  BY <1>3
<1> HIDE DEF r
<1>6. QED
  BY <1>1, <1>4, <1>5, Zenon DEF done

\* The round stays sound when one more review is routed.
LEMMA RoundStep ==
  ASSUME ProjectSound, BatchSound(batch), ReviewsSound, NEW reports,
         NEW done \in SUBSET pending, NEW all, Round(done, all, reports), NEW i \in pending \ done,
         NEW r, Surgery(i, r, all),
         ~Repairable(Reviewed(i, reports[i]).review) => Range(r.review.working) =
             Range(batch[i].members),
         NEW now, now = [frames |-> r.frames, claimed |-> r.claimed,
                         reviews |-> [all.reviews EXCEPT ![i] = r.review],
                         saved |-> [all.saved EXCEPT ![i] = r.saved]],
         Apart(batch, Members(batch))
  PROVE  Round(done \union {i}, now, reports)
<1> DEFINE own == Range(batch[i].members)
           held == Range(r.review.working)
           off == [status |-> "noise", by |-> "verify"]
           A == Anchors(batch)
           old == Holding(batch, all.reviews, done)
           new == Holding(batch, now.reviews, done \union {i})
<1>1. /\ DOMAIN reviews \subseteq DOMAIN batch /\ pending \subseteq DOMAIN reviews
          /\ i \in DOMAIN batch /\ i \notin done
      /\ i \in DOMAIN reviews
  BY DEF ReviewsSound
<1>2. /\ DOMAIN now = {"frames", "claimed", "reviews", "saved"} /\ now.frames = r.frames
          /\ now.claimed = r.claimed
      /\ now.reviews = [all.reviews EXCEPT ![i] = r.review] /\ now.saved =
          [all.saved EXCEPT ![i] = r.saved]
  OBVIOUS
<1>3. /\ DOMAIN all.reviews = DOMAIN reviews /\ DOMAIN all.saved = DOMAIN reviews
      /\ \A p \in Positions : all.frames[p] \in FrameStates
      /\ \A j \in done : Cutting(batch[j], all.reviews[j], all.saved[j], all.frames, all.claimed)
      /\ \A j, k \in done : j # k =>
          Range(all.reviews[j].claims) \intersect Range(all.reviews[k].claims) = {}
      /\ \A j \in DOMAIN reviews \ done : all.reviews[j] = reviews[j]
      /\ \A j \in done : ~Repairable(Reviewed(j, reports[j]).review) =>
           Range(all.reviews[j].working) = Range(batch[j].members)
  BY DEF Round
<1>4. /\ Cutting(batch[i], r.review, r.saved, r.frames, r.claimed)
      /\ r.claimed = all.claimed \union Range(r.review.claims) /\ r.claimed \subseteq Positions
      /\ all.claimed \intersect Range(r.review.claims) = {}
      /\ DOMAIN r.frames = Positions
      /\ \A p \in Positions : r.frames[p] = IF p \in own \ held THEN off ELSE all.frames[p]
  BY DEF Surgery
<1>5. held \subseteq own /\ own \subseteq Positions /\ (i \notin A => held = own)
  <2>1. held \subseteq own /\ (~IsAnchor(batch[i]) => held = own)
    BY <1>4 DEF Cutting
  <2>2. batch[i].members \in Seq(Positions)
    BY <1>1 DEF BatchSound, EnvelopeSound
  <2>3. own \subseteq Positions
    BY <2>2, ElementOfSeq DEF Range
  <2>4. QED
    BY <1>1, <2>1, <2>3 DEF Anchors
<1>6. /\ \A j, k \in A : j # k => old[j] \intersect old[k] = {}
      /\ \A p \in Positions : all.frames[p].status = "absorbed" <=> \E j \in A : p \in old[j]
      /\ old[i] = own /\ DOMAIN all.frames = Positions
  <2>1. old[i] = own
    BY <1>1 DEF Holding
  <2>2. QED
    BY <2>1 DEF Round, Owned, Apart
<1>7. \A j \in DOMAIN batch : new[j] = IF j = i THEN held ELSE old[j]
  BY <1>1, <1>2, <1>3 DEF Holding
<1>8. ASSUME NEW j \in done PROVE now.reviews[j] = all.reviews[j] /\ now.saved[j] = all.saved[j]
  BY <1>1, <1>2, <1>3
<1>9. now.reviews[i] = r.review /\ now.saved[i] = r.saved /\ DOMAIN now.reviews = DOMAIN reviews
      /\ DOMAIN now.saved = DOMAIN reviews
  BY <1>1, <1>2, <1>3
<1>10. A \subseteq DOMAIN batch
  BY DEF Anchors
<1> HIDE DEF own, held, old, new, A
<1>11. off.status = "noise" /\ off.by = "verify" /\ off \in FrameStates
  BY DEF FrameStates
<1>12. \A p \in own \ held : i \in A /\ p \in old[i] /\ all.frames[p].status = "absorbed"
  BY <1>5, <1>6
<1>13. ASSUME NEW j \in done
           PROVE Cutting(batch[j], now.reviews[j], now.saved[j], now.frames, now.claimed)
  <2>1. Cutting(batch[j], all.reviews[j], all.saved[j], all.frames, all.claimed)
    BY <1>3
  <2>2. all.claimed \subseteq r.claimed
    BY <1>4
  <2>3. \A p \in Positions : all.frames[p] = off => r.frames[p] = off
    BY <1>4
  <2>4. \A p \in Positions : all.frames[p].status = "noise" => r.frames[p] = all.frames[p]
    BY <1>4, <1>12
  <2>5. Range(batch[j].members) \subseteq Positions
    <3>1. j \in DOMAIN batch
      BY <1>1
    <3>2. batch[j].members \in Seq(Positions)
      BY <3>1 DEF BatchSound, EnvelopeSound
    <3>3. QED
      BY <3>2, ElementOfSeq DEF Range
  <2>6. DOMAIN all.saved[j] \subseteq Positions
    BY <2>1, <2>5 DEF Cutting
  <2>7. Cutting(batch[j], all.reviews[j], all.saved[j], r.frames, r.claimed)
    BY <1>4, <1>6, <2>1, <2>2, <2>3, <2>4, <2>6 DEF Cutting
  <2>8. QED
    BY <1>2, <1>8, <2>7
<1>14. \A j \in done : Range(now.reviews[j].claims) \subseteq all.claimed
  <2> SUFFICES ASSUME NEW j \in done PROVE Range(all.reviews[j].claims) \subseteq all.claimed
    BY <1>8
  <2>1. Cutting(batch[j], all.reviews[j], all.saved[j], all.frames, all.claimed)
    BY <1>3
  <2>2. QED
    BY <2>1 DEF Cutting
<1>15. Owned(batch, new, now.frames)
  <2>1. ASSUME NEW j \in A, NEW k \in A, j # k PROVE new[j] \intersect new[k] = {}
    BY <1>5, <1>6, <1>7, <1>10, <2>1
  <2>2. ASSUME NEW p \in Positions PROVE r.frames[p].status = "absorbed" <=> \E j \in A : p \in new[j]
    <3>1. CASE p \in own \ held
      <4>1. r.frames[p].status = "noise" /\ i \in A /\ p \in old[i]
        BY <1>4, <1>11, <1>12, <3>1
      <4>2. \A j \in A : p \notin new[j]
        BY <1>6, <1>7, <1>10, <3>1, <4>1
      <4>3. QED
        BY <4>1, <4>2
    <3>2. CASE p \notin own \ held
      <4>1. r.frames[p] = all.frames[p]
        BY <1>4, <3>2
      <4>2. \A j \in A : p \in new[j] <=> p \in old[j]
        BY <1>5, <1>6, <1>7, <1>10, <3>2
      <4>3. QED
        BY <1>6, <4>1, <4>2
    <3>3. QED
      BY <3>1, <3>2
  <2>3. QED
    BY <1>2, <1>4, <2>1, <2>2 DEF Owned, Apart, A
<1>16. r.frames = [p \in Positions |-> r.frames[p]]
  BY DEF Surgery
<1>17. \A j \in done : Range(now.reviews[j].claims) \intersect Range(now.reviews[i].claims) = {}
  BY <1>4, <1>9, <1>14
<1>18. Cutting(batch[i], now.reviews[i], now.saved[i], now.frames, now.claimed)
  BY <1>2, <1>4, <1>9
<1>19. \A p \in Positions : r.frames[p] \in FrameStates
  BY <1>3, <1>4, <1>11
<1>20. \A j \in DOMAIN reviews \ (done \union {i}) : now.reviews[j] = reviews[j]
  BY <1>1, <1>2, <1>3
<1>21. \A j \in done : ~Repairable(Reviewed(j, reports[j]).review) =>
           Range(now.reviews[j].working) = Range(batch[j].members)
  BY <1>3, <1>8
<1>22. ~Repairable(Reviewed(i, reports[i]).review) => Range(now.reviews[i].working) =
           Range(batch[i].members)
  BY <1>9
<1>23. \A j, k \in done \union {i} : j # k =>
           Range(now.reviews[j].claims) \intersect Range(now.reviews[k].claims) = {}
  <2>1. \A j, k \in done : j # k =>
            Range(now.reviews[j].claims) \intersect Range(now.reviews[k].claims) = {}
    BY <1>3, <1>8
  <2>2. QED
    BY <1>17, <2>1
<1>24. QED
  BY <1>2, <1>4, <1>9, <1>13, <1>15, <1>16, <1>18, <1>19, <1>20, <1>21, <1>22, <1>23 DEF Round, new

\* Where a round begins.
RoundStart == [frames |-> frames, claimed |-> {}, reviews |-> reviews,
    saved |-> [i \in DOMAIN reviews |-> <<>>]]

\* The loop over the sequences of a round, and that it can be run.
ReviewsRouted(F, order, reports, m) ==
  F = [k \in 0 .. m |-> IF k = 0 THEN RoundStart
      ELSE RouteReview(order[k], reports[order[k]], F[k - 1])]

\* The loop can be run over as many sequences as there are.
LEMMA ReviewsRoutedExists ==
  ASSUME NEW order, NEW reports, NEW m \in Nat
  PROVE  \E F : ReviewsRouted(F, order, reports, m)
<1> DEFINE Q == {n \in Nat : \E F : ReviewsRouted(F, order, reports, n)}
           start == RoundStart
           Next1(s, k) == RouteReview(order[k], reports[order[k]], s)
<1>1. 0 \in Q
  <2> DEFINE F == [k \in 0 .. 0 |-> start]
  <2>1. \A k \in 0 .. 0 : k = 0
    OBVIOUS
  <2>2. F = [k \in 0 .. 0 |-> IF k = 0 THEN start ELSE Next1(F[k - 1], k)]
    <3> HIDE DEF start, Next1
    <3>1. QED
      BY <2>1
  <2>3. ReviewsRouted(F, order, reports, 0)
    BY <2>2, Zenon DEF ReviewsRouted
  <2>4. QED
    BY <2>3
<1>2. ASSUME NEW n \in Q PROVE n + 1 \in Q
  <2>1. PICK F : ReviewsRouted(F, order, reports, n)
    OBVIOUS
  <2> DEFINE G == [k \in 0 .. n + 1 |-> IF k = 0 THEN start ELSE Next1(F[k - 1], k)]
  <2>2. F = [k \in 0 .. n |-> IF k = 0 THEN start ELSE Next1(F[k - 1], k)]
    BY <2>1, Zenon DEF ReviewsRouted
  <2> HIDE DEF Next1, start
  <2>3. n \in Nat
    OBVIOUS
  <2>4. \A k \in 0 .. n : k \in 0 .. n + 1 /\ G[k] = F[k]
    BY <2>2, <2>3
  <2>5. \A k \in 0 .. n + 1 : k # 0 => k - 1 \in 0 .. n
    BY <2>3
  <2>6. G = [k \in 0 .. n + 1 |-> IF k = 0 THEN start ELSE Next1(G[k - 1], k)]
    BY <2>4, <2>5
  <2>7. ReviewsRouted(G, order, reports, n + 1)
    BY <2>6, Zenon DEF ReviewsRouted, Next1, start
  <2>8. QED
    BY <2>3, <2>7
<1>3. Q = Nat
  <2> HIDE DEF Q
  <2>1. Q \in SUBSET Nat
    BY DEF Q
  <2>2. QED
    BY <1>1, <1>2, <2>1, SetInduction
<1>4. QED
  BY <1>3

\* The loop over all sequences of a round.
RoundRun(F, order, reports, end) ==
  /\ F[0] = RoundStart /\ F[Len(order)] = end
  /\ \A n \in 1 .. Len(order) : F[n] = RouteReview(order[n], reports[order[n]], F[n - 1])

\* Routing a round is that loop.
LEMMA RouteRoundIs ==
  ASSUME NEW judged, NEW reports, Len(InOrder(judged)) \in Nat
  PROVE  \E F : RoundRun(F, InOrder(judged), reports, RouteRound(judged, reports))
<1> DEFINE order == InOrder(judged)
           F == CHOOSE f : ReviewsRouted(f, order, reports, Len(order))
<1>1. ReviewsRouted(F, order, reports, Len(order))
  <2> HIDE DEF order
  <2>1. Len(order) \in Nat
    BY DEF order
  <2>2. QED
    BY <2>1, ReviewsRoutedExists
<1>2. RouteRound(judged, reports) = F[Len(order)]
  BY Zenon DEF RouteRound, ReviewsRouted, RoundStart
<1>3. Len(order) \in Nat
  OBVIOUS
<1> HIDE DEF F, order
<1>4. F[0] = RoundStart /\ \A n \in 1 .. Len(order) : F[n] =
          RouteReview(order[n], reports[order[n]], F[n - 1])
  BY <1>1, <1>3 DEF ReviewsRouted
<1>5. QED
  BY <1>2, <1>4 DEF RoundRun, order

\* A round begins soundly.
LEMMA RoundBegins ==
  ASSUME ProjectSound, BatchSound(batch), ReviewsSound, FramesSound(batch, frames),
         Owned(batch, Members(batch), frames), DOMAIN batch # {}, NEW reports
  PROVE  Round({}, RoundStart, reports)
<1> DEFINE s == RoundStart
<1>1. /\ DOMAIN s = {"frames", "claimed", "reviews", "saved"} /\ s.frames = frames /\ s.claimed = {}
      /\ s.reviews = reviews /\ DOMAIN s.saved = DOMAIN reviews
  BY DEF RoundStart
<1> HIDE DEF s
<1>2. /\ DOMAIN frames = Positions /\ frames = [p \in Positions |-> frames[p]]
      /\ \A p \in Positions : frames[p] \in FrameStates
  BY DEF FramesSound
<1>3. Holding(batch, s.reviews, {}) = Members(batch)
  BY DEF Holding, Members
<1>4. Round({}, s, reports)
  BY <1>1, <1>2, <1>3 DEF Round
<1>5. QED
  BY <1>4 DEF s

\* What a review that is not routed yet can rely on.
LEMMA BeforeRound ==
  ASSUME BatchSound(batch), NEW done, NEW all, NEW reports, Round(done, all, reports),
      NEW i \in DOMAIN batch \ done
  PROVE  Before(i, all)
<1>1. Holding(batch, all.reviews, done)[i] = Range(batch[i].members)
  BY DEF Holding
<1>2. IsAnchor(batch[i]) => i \in Anchors(batch)
  BY DEF Anchors
<1>3. batch[i].members \in Seq(Positions)
  BY DEF BatchSound, EnvelopeSound
<1>4. Range(batch[i].members) \subseteq Positions
  BY <1>3, ElementOfSeq DEF Range
<1>5. /\ DOMAIN all.frames = Positions /\ all.frames = [p \in Positions |-> all.frames[p]]
      /\ \A p \in Positions : all.frames[p] \in FrameStates
      /\ all.claimed \subseteq Positions
      /\ \A p \in Positions : all.frames[p].status = "absorbed"
            <=> \E j \in Anchors(batch) : p \in Holding(batch, all.reviews, done)[j]
  BY DEF Round, Owned
<1>6. QED
  BY <1>1, <1>2, <1>4, <1>5 DEF Before

\* A round is routed soundly.
LEMMA RoundSound ==
  ASSUME ProjectSound, BatchSound(batch), ReviewsSound, FramesSound(batch, frames),
         Owned(batch, Members(batch), frames), NEW reports, NEW judged \in SUBSET pending, pending # {}
  PROVE  Round(judged, RouteRound(judged, reports), reports)
<1> DEFINE order == InOrder(judged)
           done(n) == {order[k] : k \in 1 .. n}
<1>1. pending \subseteq DOMAIN batch /\ pending \subseteq DOMAIN reviews
      /\ \A i \in DOMAIN reviews : DOMAIN reviews[i] = ReviewFields
  BY DEF ReviewsSound
<1>2. IsFiniteSet(judged) /\ judged \in SUBSET Int
  <2>1. PICK m \in Nat : DOMAIN batch = 1 .. m
    BY DEF BatchSound
  <2>2. IsFiniteSet(1 .. m) /\ 1 .. m \subseteq Int
    BY <2>1, FS_Interval
  <2>3. judged \in SUBSET (1 .. m)
    BY <1>1, <2>1
  <2>4. QED
    BY <2>2, <2>3, SubsetSizes
<1> HIDE DEF order
<1>3. /\ order \in Seq(judged) /\ Len(order) = Cardinality(judged) /\ Cardinality(judged) \in Nat
      /\ \A i, j \in 1 .. Cardinality(judged) : i < j => order[i] < order[j]
      /\ \A x \in judged : \E i \in 1 .. Cardinality(judged) : order[i] = x
  BY <1>2, OrderedInts DEF order
<1> DEFINE m == Len(order)
<1>4. /\ m \in Nat /\ m <= m /\ \A k \in 1 .. m : order[k] \in judged
      /\ \A i, j \in 1 .. m : i < j => order[i] < order[j]
      /\ done(m) = judged
  <2>1. \A k \in 1 .. m : order[k] \in judged
    BY <1>3, ElementOfSeq
  <2>2. QED
    BY <1>3, <2>1
<1>5. PICK F : RoundRun(F, order, reports, RouteRound(judged, reports))
  BY <1>4, RouteRoundIs DEF order
<1>6. /\ F[0] = RoundStart /\ F[m] = RouteRound(judged, reports)
      /\ \A n \in 1 .. m : F[n] = RouteReview(order[n], reports[order[n]], F[n - 1])
  BY <1>5 DEF RoundRun
<1> HIDE DEF m
<1> DEFINE Q == {n \in Nat : n <= m => Round(done(n), F[n], reports)}
<1>7. 0 \in Q
  <2>1. done(0) = {}
    OBVIOUS
  <2>2. DOMAIN batch # {}
    BY <1>1
  <2>3. Round({}, RoundStart, reports)
    BY <2>2, RoundBegins
  <2>4. QED
    BY <1>6, <2>1, <2>3
<1>8. ASSUME NEW n \in Q PROVE n + 1 \in Q
  <2> SUFFICES ASSUME n + 1 <= m PROVE Round(done(n + 1), F[n + 1], reports)
    OBVIOUS
  <2>1. n \in Nat /\ n + 1 \in 1 .. m /\ Round(done(n), F[n], reports)
    BY <1>4
  <2> DEFINE i == order[n + 1]
             all == F[n]
  <2>2. F[n + 1] = RouteReview(i, reports[i], all)
    <3>1. n + 1 - 1 = n
      BY <2>1
    <3>2. QED
      BY <1>6, <2>1, <3>1
  <2>3. i \in judged
    BY <1>4, <2>1
  <2>4. i \notin done(n)
    <3> SUFFICES ASSUME NEW k \in 1 .. n PROVE order[k] # i
      OBVIOUS
    <3>1. k \in 1 .. m /\ n + 1 \in 1 .. m /\ k < n + 1
      BY <1>4, <2>1
    <3>2. order[k] < order[n + 1]
      BY <1>4, <3>1
    <3>3. order[k] \in Int
      BY <1>2, <1>4, <3>1
    <3>4. QED
      BY <3>2, <3>3
  <2>5. done(n) \in SUBSET pending
    BY <1>4, <2>1
  <2>6. done(n + 1) = done(n) \union {i}
    <3>1. 1 .. n + 1 = (1 .. n) \union {n + 1}
      BY <2>1
    <3>2. QED
      BY <3>1
  <2> HIDE DEF done, all, i
  <2>7. Before(i, all)
    BY <1>1, <2>1, <2>3, <2>4, BeforeRound DEF all
  <2>8. DOMAIN reviews[i] = ReviewFields /\ i \in DOMAIN batch
    BY <1>1, <2>3
  <2>9. PICK r : /\ Surgery(i, r, all)
                 /\ RouteReview(i, reports[i], all) =
                     [frames |-> r.frames, claimed |-> r.claimed,
                      reviews |-> [all.reviews EXCEPT ![i] = r.review],
                      saved |-> [all.saved EXCEPT ![i] = r.saved]]
                 /\ ~Repairable(Reviewed(i, reports[i]).review) =>
                     Range(r.review.working) = Range(batch[i].members)
    BY <2>7, <2>8, RouteReviewIs, Zenon
  <2>10. Apart(batch, Members(batch))
    BY DEF Owned
  <2>11. i \in pending \ done(n) /\ Round(done(n), all, reports)
    BY <2>1, <2>3, <2>4 DEF all
  <2>12. Round(done(n) \union {i}, RouteReview(i, reports[i], all), reports)
    BY <2>5, <2>9, <2>10, <2>11, RoundStep
  <2>13. QED
    BY <2>2, <2>6, <2>12
<1>9. Q = Nat
  <2> HIDE DEF Q
  <2>1. Q \in SUBSET Nat
    BY DEF Q
  <2>2. QED
    BY <1>7, <1>8, <2>1, SetInduction
<1>10. QED
  <2> HIDE DEF done
  <2>1. Round(done(m), F[m], reports)
    BY <1>4, <1>9
  <2>2. QED
    BY <1>4, <1>6, <2>1

\* A round of reviews preserves the invariant.
LEMMA StreamReviewKeeps ==
  ASSUME ChainInv, Heirs' = Heirs, StreamReview PROVE ChainInv'
<1>1. turn = "stream" /\ turn' = "claims" /\ pending # {} /\ UNCHANGED <<project, stage, fresh,
          snapshot>>
  BY DEF StreamReview, ratedVars, generateVars
<1>2. Underway /\ Owned(batch, Members(batch), frames)
  BY <1>1 DEF ChainInv, Underway, Grounds, Streaming
<1>3. PICK reports \in [pending -> project.reports] :
       LET judged == {i \in pending : reports[i].verdict # "error"}
           done(i) == Reviewed(i, reports[i])
           routed == {i \in judged : Repairable(done(i).review)}
           end == RouteRound(judged, reports)
       IN /\ reviews' = end.reviews /\ frames' = end.frames /\ saved' = end.saved
          /\ batch' = [i \in DOMAIN batch |->
               IF i \in pending \ judged THEN Fail(batch[i], "verify") ELSE batch[i]]
          /\ pending' = routed /\ settled' = judged \ routed
  BY Zenon DEF StreamReview
<1> DEFINE judged == {i \in pending : reports[i].verdict # "error"}
           routed == {i \in judged : Repairable(Reviewed(i, reports[i]).review)}
           end == RouteRound(judged, reports)
<1>4. /\ reviews' = end.reviews /\ frames' = end.frames /\ saved' = end.saved
      /\ batch' = [i \in DOMAIN batch |->
           IF i \in pending \ judged THEN Fail(batch[i], "verify") ELSE batch[i]]
      /\ pending' = routed /\ settled' = judged \ routed
  BY <1>3
<1>5. judged \in SUBSET pending /\ routed \subseteq judged
  OBVIOUS
<1>6. /\ ProjectSound /\ BatchSound(batch) /\ ReviewsSound /\ FramesSound(batch, frames)
      /\ pending \subseteq DOMAIN reviews /\ DOMAIN reviews \subseteq DOMAIN batch
      /\ \A i \in DOMAIN reviews : DOMAIN reviews[i] = ReviewFields
  BY <1>2 DEF Underway, Grounds, ReviewsSound
<1>7. Round(judged, end, reports)
  BY <1>1, <1>2, <1>5, <1>6, RoundSound
<1> HIDE DEF end
<1>8. /\ DOMAIN reviews' = DOMAIN reviews /\ DOMAIN saved' = DOMAIN reviews
      /\ DOMAIN frames' = Positions /\ frames' = [p \in Positions |-> frames'[p]]
      /\ \A p \in Positions : frames'[p] \in FrameStates
      /\ end.claimed \subseteq Positions
      /\ \A i \in judged : Cutting(batch[i], reviews'[i], saved'[i], frames', end.claimed)
      /\ \A i, j \in judged : i # j =>
          Range(reviews'[i].claims) \intersect Range(reviews'[j].claims) = {}
      /\ \A i \in DOMAIN reviews \ judged : reviews'[i] = reviews[i]
      /\ Owned(batch, Holding(batch, reviews', judged), frames')
      /\ \A i \in judged \ routed : Range(reviews'[i].working) = Range(batch[i].members)
  BY <1>4, <1>7 DEF Round
<1>9. SameShape(batch, batch')
  <2> SUFFICES ASSUME NEW i \in DOMAIN batch PROVE SameOwner(batch[i], batch'[i])
    BY <1>4, OwnersSame
  <2>1. DOMAIN batch[i] = EnvelopeFields
    BY <1>6, EnvelopeDomains
  <2>2. SameOwner(batch[i], Fail(batch[i], "verify")) /\ SameOwner(batch[i], batch[i])
    BY <2>1, FailSame DEF SameOwner
  <2>3. QED
    BY <1>4, <2>2
<1> HIDE DEF judged, routed
<1>10. /\ DOMAIN batch' = DOMAIN batch /\ Anchors(batch') = Anchors(batch) /\ Members(batch') =
           Members(batch)
       /\ \A i \in DOMAIN batch : batch'[i].members = batch[i].members /\ batch'[i].class =
           batch[i].class
  BY <1>9, ShapeMembers DEF SameShape
<1>11. Grounds'
  <2>1. BatchSound(batch')
    BY <1>2, <1>6, <1>9, ShapeKeeps
  <2>2. FramesSound(batch', frames')
    BY <1>8 DEF FramesSound
  <2>3. QED
    BY <1>1, <1>2, <2>1, <2>2, GroundsFrom DEF Underway, Grounds
<1>12. ReviewsSound'
  <2>1. \A i \in DOMAIN reviews : DOMAIN reviews'[i] = ReviewFields
    BY <1>6, <1>8 DEF Cutting
  <2>2. QED
    BY <1>4, <1>5, <1>6, <1>8, <1>10, <2>1 DEF ReviewsSound
<1>13. Claiming(batch', reviews', saved', frames', routed)
  <2>1. Apart(batch', Members(batch'))
    BY <1>2, <1>10 DEF Owned, Apart
  <2>2. Holding(batch', reviews', routed) = Holding(batch, reviews', judged)
    <3>1. \A i \in DOMAIN batch :
              (IF i \in routed THEN Range(reviews'[i].working) ELSE Range(batch'[i].members)) =
                                  (IF i \in judged THEN Range(reviews'[i].working)
                                      ELSE Range(batch[i].members))
      BY <1>5, <1>8, <1>10
    <3>2. QED
      BY <1>10, <3>1 DEF Holding
  <2>3. Owned(batch', Holding(batch', reviews', routed), frames')
    BY <1>8, <1>10, <2>2 DEF Owned, Apart
  <2>4. ASSUME NEW i \in routed PROVE Cutting(batch'[i], reviews'[i], saved'[i], frames', Positions)
    <3>1. Cutting(batch[i], reviews'[i], saved'[i], frames', end.claimed) /\ i \in DOMAIN batch
      BY <1>5, <1>6, <1>8
    <3>2. batch'[i].members = batch[i].members /\ (IsAnchor(batch'[i]) <=> IsAnchor(batch[i]))
      BY <1>10, <3>1 DEF IsAnchor
    <3>3. QED
      BY <1>8, <3>1, <3>2 DEF Cutting
  <2>5. QED
    BY <1>5, <1>8, <2>1, <2>3, <2>4 DEF Claiming
<1>14. Claiming(batch, reviews, saved, frames, pending)'
  <2>1. Claiming(batch', reviews', saved', frames', pending')
    BY <1>4, <1>13
  <2>2. Positions' = Positions
    BY <1>1 DEF Positions
  <2>3. QED
    BY <2>1, <2>2, Zenon DEF Claiming, Cutting, Apart, Owned, Holding, Members
<1>15. settled' \subseteq DOMAIN reviews'
  BY <1>4, <1>5, <1>6, <1>8
<1>16. QED
  BY <1>1, <1>2, <1>11, <1>12, <1>14, <1>15, SnapshotStays DEF ChainInv, Grounds, Underway, Streaming

\* The sequences that hold a frame, in the terms of the invariant.
LEMMA HoldersAre == \A p : Holders(p) = {i \in Anchors(batch) : p \in Members(batch)[i]}
BY DEF Holders, Anchors, Members

\* The invariant says that each frame has one owner,
LEMMA OwnedByOne ==
  ASSUME Owned(batch, Members(batch), frames), NEW p \in DOMAIN frames
  PROVE  Cardinality(Holders(p)) = IF frames[p].status = "absorbed" THEN 1 ELSE 0
<1>1. CASE frames[p].status = "absorbed"
  <2>1. PICK i \in Anchors(batch) : p \in Members(batch)[i]
    BY <1>1 DEF Owned
  <2>2. Holders(p) = {i}
    BY <2>1, HoldersAre DEF Owned, Apart
  <2>3. QED
    BY <1>1, <2>2, FS_Singleton
<1>2. CASE frames[p].status # "absorbed"
  <2>1. Holders(p) = {}
    BY <1>2, HoldersAre DEF Owned
  <2>2. QED
    BY <1>2, <2>1, FS_EmptySet
<1>3. QED
  BY <1>1, <1>2

\* and what a torn wave of claims has left of that.
LEMMA TornOwned ==
  ASSUME Claiming(batch, reviews, saved, frames, pending), pending \subseteq DOMAIN batch,
         NEW p \in DOMAIN frames
  PROVE  /\ Cardinality(Holders(p)) <= 1
         /\ frames[p].status = "absorbed" => Holders(p) # {}
         /\ Holders(p) # {} => frames[p].status = "absorbed" \/ frames[p] = [status |-> "noise", by |-> "verify"]
<1> DEFINE own(i) == Range(batch[i].members)
           held(i) == Range(reviews[i].working)
           H == Holding(batch, reviews, pending)
<1>1. \A i \in Anchors(batch) : i \in DOMAIN batch /\ Members(batch)[i] = own(i)
        /\ H[i] = IF i \in pending THEN held(i) ELSE own(i)
  BY DEF Anchors, Members, Holding
<1>2. \A i \in pending : held(i) \subseteq own(i)
  BY DEF Claiming, Cutting
<1>3. \A i, j \in Anchors(batch) : i # j => own(i) \intersect own(j) = {}
  BY <1>1 DEF Claiming, Apart
<1>4. frames[p].status = "absorbed" <=> \E i \in Anchors(batch) : p \in H[i]
  BY DEF Claiming, Owned
<1> HIDE DEF H
<1>5. Holders(p) = {i \in Anchors(batch) : p \in own(i)}
  BY <1>1, HoldersAre
<1>6. Cardinality(Holders(p)) <= 1
  <2>1. CASE Holders(p) = {}
    BY <2>1, FS_EmptySet
  <2>2. CASE Holders(p) # {}
    <3>1. PICK i : i \in Holders(p)
      BY <2>2
    <3>2. Holders(p) = {i}
      BY <1>3, <1>5, <3>1
    <3>3. Cardinality({i}) = 1
      BY FS_Singleton
    <3>4. QED
      BY <3>2, <3>3
  <2>3. QED
    BY <2>1, <2>2
<1>7. frames[p].status = "absorbed" => Holders(p) # {}
  BY <1>1, <1>2, <1>4, <1>5
<1>8. ASSUME NEW i \in Holders(p), frames[p].status # "absorbed"
      PROVE  frames[p] = [status |-> "noise", by |-> "verify"]
  <2>1. i \in Anchors(batch) /\ p \in own(i) /\ p \notin H[i]
    BY <1>4, <1>5, <1>8
  <2>2. i \in pending /\ p \in own(i) \ held(i)
    BY <1>1, <2>1
  <2>3. Cutting(batch[i], reviews[i], saved[i], frames, Positions)
    BY <2>2 DEF Claiming
  <2>4. p \in DOMAIN saved[i]
    BY <2>2, <2>3 DEF Cutting
  <2>5. QED
    BY <2>3, <2>4 DEF Cutting
<1>9. QED
  BY <1>6, <1>7, <1>8

\* So the invariant has what is to be shown.
LEMMA FrameOwnedHolds == ChainInv => FrameOwned
<1> SUFFICES ASSUME ChainInv PROVE FrameOwned
  OBVIOUS
<1>1. ASSUME turn = "stream" \/ After({"done", "discarded", "tripped"}), NEW p \in DOMAIN frames
      PROVE  Cardinality(Holders(p)) = IF frames[p].status = "absorbed" THEN 1 ELSE 0
  <2>1. Owned(batch, Members(batch), frames)
    BY <1>1 DEF ChainInv, After, Streaming
  <2>2. QED
    BY <1>1, <2>1, OwnedByOne
<1>2. ASSUME turn = "torn", NEW p \in DOMAIN frames
      PROVE  /\ Cardinality(Holders(p)) <= 1
             /\ frames[p].status = "absorbed" => Holders(p) # {}
             /\ Holders(p) # {} => frames[p].status = "absorbed" \/ frames[p] = [status |-> "noise", by |-> "verify"]
  <2>1. Claiming(batch, reviews, saved, frames, pending) /\ pending \subseteq DOMAIN batch
    BY <1>2 DEF ChainInv, ReviewsSound
  <2>2. QED
    BY <2>1, TornOwned
<1>3. QED
  BY <1>1, <1>2 DEF FrameOwned

-------------------------------------------------------------------------------
(* Classification, and the siblings that join the batch                    *)

\* Classes picked by a set of names: each once, and some if the set has one.
LEMMA DeclaredSound ==
  ASSUME ProjectSound, NEW hit
  PROVE  /\ Declared(hit) \in Seq(Range(project.classes)) /\ IsInjective(Declared(hit))
         /\ hit \intersect Range(project.classes) # {} => Declared(hit) # <<>>
         /\ \A k \in DOMAIN Declared(hit) : Declared(hit)[k] \in hit
<1> DEFINE C == project.classes
           at == {n \in DOMAIN C : C[n] \in hit}
           spot == InOrder(at)
           d == Picked(C, at)
<1>1. C \in Seq(STRING) /\ IsInjective(C) /\ DOMAIN C = 1 .. Len(C) /\ Len(C) \in Nat
  BY LenProperties DEF ProjectSound
<1>2. C \in Seq(Range(C))
  BY <1>1 DEF Range
<1>3. at \in SUBSET DOMAIN C
  OBVIOUS
<1>4. PickedAs(Range(C), C, at, spot)
  <2> HIDE DEF C, at
  <2>1. QED
    BY <1>2, <1>3, PickedElements
<1>5. Declared(hit) = d
  BY DEF Declared
<1> HIDE DEF spot, d, C
<1>6. /\ d \in Seq(Range(C)) /\ DOMAIN d = 1 .. Len(spot) /\ Len(d) = Len(spot) /\ Len(spot) \in Nat
      /\ \A k \in 1 .. Len(spot) : spot[k] \in at /\ d[k] = C[spot[k]]
      /\ \A k, l \in 1 .. Len(spot) : k < l => spot[k] < spot[l]
      /\ \A p \in at : \E k \in 1 .. Len(spot) : spot[k] = p
  BY <1>4 DEF PickedAs, d
<1>7. IsInjective(d)
  <2> SUFFICES ASSUME NEW a \in 1 .. Len(spot), NEW b \in 1 .. Len(spot), d[a] = d[b] PROVE a = b
    BY <1>6 DEF IsInjective
  <2>1. spot[a] = spot[b] /\ spot[a] \in Nat
    BY <1>1, <1>6 DEF IsInjective
  <2>2. ~ a < b /\ ~ b < a
    BY <1>6, <2>1
  <2>3. QED
    BY <1>6, <2>2
<1>8. ASSUME hit \intersect Range(C) # {} PROVE d # <<>>
  <2>1. PICK n \in DOMAIN C : C[n] \in hit
    BY <1>8 DEF Range
  <2>2. PICK k \in 1 .. Len(spot) : spot[k] = n
    BY <1>6, <2>1
  <2>3. QED
    BY <1>6, <2>2
<1>9. \A k \in DOMAIN d : d[k] \in hit
  BY <1>6
<1>10. QED
  BY <1>5, <1>6, <1>7, <1>8, <1>9 DEF C

\* Labels of the project, each once.
LabelsSound(labels) == labels \in Seq(Range(project.classes)) /\ Distinct(labels)

\* So are the labels of an answer,
LEMMA NormalizedSound ==
  ASSUME ProjectSound, NEW raw \in RawHits
  PROVE  LabelsSound(Normalized(raw))
<1>1. /\ raw \subseteq Range(project.classes) /\ Cardinality(raw) \in 1 .. project.max_labels
      /\ project.max_labels \in Nat /\ project.fallback \in Range(project.classes)
  BY DEF RawHits, ProjectSound
<1> DEFINE left == IF Cardinality(raw) > 1 THEN raw \ {project.fallback} ELSE raw
<1>3. left # {} /\ left \subseteq Range(project.classes)
  <2>1. CASE Cardinality(raw) > 1
    <3>1. raw # {project.fallback}
      BY <2>1, FS_Singleton
    <3>2. raw # {}
      BY <2>1, FS_EmptySet
    <3>3. QED
      BY <1>1, <2>1, <3>1, <3>2
  <2>2. CASE ~ Cardinality(raw) > 1
    <3>1. raw # {}
      BY <1>1, FS_EmptySet
    <3>2. QED
      BY <1>1, <2>2, <3>1
  <2>3. QED
    BY <2>1, <2>2
<1>4. Normalized(raw) = Declared(left)
  BY DEF Normalized
<1> HIDE DEF left
<1>5. QED
  BY <1>3, <1>4, DeclaredSound DEF LabelsSound, Distinct

\* the fallback,
LEMMA FallbackSound ==
  ASSUME ProjectSound
  PROVE  LabelsSound(<<project.fallback>>)
BY DEF ProjectSound, LabelsSound, Distinct, IsInjective

\* and what the samples vote for.
LEMMA VoteSound ==
  ASSUME ProjectSound, NEW sets
  PROVE  LabelsSound(Vote(sets))
<1> DEFINE votes(c) == Cardinality({k \in DOMAIN sets : c \in Range(sets[k])})
           hit == {c \in Range(project.classes) : 2 * votes(c) > Sampled}
<1>1. Vote(sets) = IF Declared(hit) = <<>> THEN <<project.fallback>> ELSE Declared(hit)
  BY Zenon DEF Vote
<1> HIDE DEF hit
<1>2. QED
  BY <1>1, DeclaredSound, FallbackSound DEF LabelsSound, Distinct

\* The answers among the outcomes of some calls.
LEMMA AnswersAre ==
  ASSUME NEW values, NEW failures, NEW got \in Seq(Got(values, failures))
  PROVE  Answers(got) \in Seq(values)
<1> DEFINE T == Got(values, failures)
           at == {k \in DOMAIN got : IsOk(got[k])}
           spot == InOrder(at)
           ok == Picked(got, at)
<1>1. PickedAs(T, got, at, spot)
  <2>1. at \in SUBSET DOMAIN got
    OBVIOUS
  <2> HIDE DEF T, at
  <2>2. QED
    BY <2>1, PickedElements DEF T
<1>2. Answers(got) = [k \in DOMAIN ok |-> ok[k].ok]
  BY DEF Answers
<1> HIDE DEF ok, spot
<1>3. /\ DOMAIN ok = 1 .. Len(spot) /\ Len(spot) \in Nat
      /\ \A k \in 1 .. Len(spot) : spot[k] \in at /\ ok[k] = got[spot[k]]
  BY <1>1 DEF PickedAs, ok
<1>4. ASSUME NEW k \in 1 .. Len(spot) PROVE ok[k].ok \in values
  <2>1. spot[k] \in DOMAIN got /\ IsOk(got[spot[k]]) /\ ok[k] = got[spot[k]]
    BY <1>3
  <2>2. got[spot[k]] \in T
    BY <2>1, ElementOfSeq, LenProperties
  <2>3. QED
    BY <2>1, <2>2 DEF Got, IsOk
<1>5. QED
  BY <1>2, <1>3, <1>4

\* How many places a list of a length has.
LEMMA PlacesFinite ==
  ASSUME NEW n \in Nat
  PROVE  IsFiniteSet(1 .. n) /\ Cardinality(1 .. n) = n
<1>1. 1 \in Int /\ n \in Int
  OBVIOUS
<1>2. Cardinality(1 .. n) = IF 1 > n THEN 0 ELSE n - 1 + 1
  BY <1>1, FS_Interval
<1>3. IsFiniteSet(1 .. n)
  BY <1>1, FS_Interval
<1>4. QED
  BY <1>2, <1>3

\* Two majorities of the same samples have one in common.
LEMMA Majorities ==
  ASSUME NEW D, IsFiniteSet(D), NEW n \in Nat, Cardinality(D) <= n,
         NEW A \in SUBSET D, NEW B \in SUBSET D, 2 * Cardinality(A) > n, 2 * Cardinality(B) > n
  PROVE  A \intersect B # {}
<1> SUFFICES ASSUME A \intersect B = {} PROVE FALSE
  OBVIOUS
<1>1. /\ IsFiniteSet(A) /\ IsFiniteSet(B)
      /\ Cardinality(A) \in Nat /\ Cardinality(B) \in Nat /\ Cardinality(D) \in Nat
  BY SubsetSizes
<1>2. Cardinality(A \union B) = Cardinality(A) + Cardinality(B)
  <2>1. Cardinality(A \intersect B) = 0
    <3>1. Cardinality({}) = 0
      BY FS_EmptySet
    <3>2. QED
      BY <3>1, Zenon
  <2>2. Cardinality(A \union B) = Cardinality(A) + Cardinality(B) - Cardinality(A \intersect B)
    BY <1>1, FS_Union
  <2>3. QED
    BY <1>1, <2>1, <2>2
<1>3. Cardinality(A \union B) <= Cardinality(D)
  BY FS_Subset
<1>4. QED
  BY <1>1, <1>2, <1>3

\* A list that has each element once, and only equal ones, has one.
LEMMA OnlyOne ==
  ASSUME NEW T, NEW l \in Seq(T), IsInjective(l), l # <<>>, \A i, j \in DOMAIN l : l[i] = l[j]
  PROVE  Len(l) = 1
<1>1. DOMAIN l = 1 .. Len(l) /\ Len(l) \in Nat /\ Len(l) # 0
  BY LenProperties, EmptySeq
<1>2. CASE Len(l) > 1
  <2>1. 1 \in DOMAIN l /\ 2 \in DOMAIN l
    BY <1>1, <1>2
  <2>2. 1 = 2
    BY <2>1 DEF IsInjective
  <2>3. QED
    BY <2>2
<1>3. QED
  BY <1>1, <1>2

\* A list has finitely many elements.
LEMMA ElementsFinite ==
  ASSUME NEW T, NEW l \in Seq(T)
  PROVE  IsFiniteSet(Range(l))
<1>1. Len(l) \in Nat /\ DOMAIN l = 1 .. Len(l) /\ l \in [1 .. Len(l) -> T]
  BY LenProperties
<1>2. l \in Surjection(1 .. Len(l), Range(l))
  BY <1>1 DEF Surjection, Range
<1>3. IsFiniteSet(1 .. Len(l))
  BY <1>1, FS_Interval
<1>4. QED
  BY <1>2, <1>3, FS_Surjection

\* The fallback stands alone, and so does a label of a project that wants one.
Polling(labels) ==
  project.fallback \in Range(labels) \/ project.max_labels <= 1 => Len(labels) = 1

\* It does in what a sample says,
LEMMA NormalizedPolls ==
  ASSUME ProjectSound, NEW raw \in RawHits
  PROVE  Polling(Normalized(raw))
<1> DEFINE left == IF Cardinality(raw) > 1 THEN raw \ {project.fallback} ELSE raw
           l == Normalized(raw)
<1>1. l \in Seq(Range(project.classes)) /\ IsInjective(l) /\ l # <<>>
  BY NormalizedSound DEF LabelsSound, Distinct
<1>2. \A k \in DOMAIN l : l[k] \in left
  BY DeclaredSound DEF Normalized
<1>3. /\ raw \subseteq Range(project.classes) /\ Cardinality(raw) \in 1 .. project.max_labels
      /\ project.max_labels \in Nat
  BY DEF RawHits, ProjectSound
<1> HIDE DEF l
<1> SUFFICES ASSUME project.fallback \in Range(l) \/ project.max_labels <= 1 PROVE Len(l) = 1
  BY DEF Polling, l
<1>4. Cardinality(raw) = 1
  <2>1. CASE project.fallback \in Range(l)
    <3>1. project.fallback \in left
      BY <1>2, <2>1 DEF Range
    <3>2. ~ Cardinality(raw) > 1
      BY <3>1
    <3>3. QED
      BY <1>3, <3>2
  <2>2. CASE project.max_labels <= 1
    BY <1>3, <2>2
  <2>3. QED
    BY <2>1, <2>2
<1>5. IsFiniteSet(raw)
  <2>1. IsFiniteSet(Range(project.classes))
    BY ElementsFinite DEF ProjectSound
  <2>2. QED
    BY <1>3, <2>1, FS_Subset
<1>6. PICK x : raw = {x}
  BY <1>4, <1>5, FS_Singleton
<1>7. \A k \in DOMAIN l : l[k] = x
  BY <1>2, <1>4, <1>6
<1>8. QED
  BY <1>1, <1>7, OnlyOne

\* and in what samples vote for.
LEMMA VotePolls ==
  ASSUME ProjectSound, NEW n \in Nat, n <= Sampled, NEW sets, DOMAIN sets = 1 .. n,
         \A k \in 1 .. n : Polling(sets[k]) /\ sets[k] \in Seq(Range(project.classes))
  PROVE  Polling(Vote(sets))
<1> DEFINE votes(c) == Cardinality({k \in DOMAIN sets : c \in Range(sets[k])})
           hit == {c \in Range(project.classes) : 2 * votes(c) > Sampled}
           l == Vote(sets)
<1>1. l = IF Declared(hit) = <<>> THEN <<project.fallback>> ELSE Declared(hit)
  BY Zenon DEF Vote
<1>2. Sampled \in Nat
  BY DEF Sampled, ProjectSound
<1>3. ASSUME NEW c \in hit, NEW d \in hit, c = project.fallback \/ project.max_labels <= 1
      PROVE  c = d
  <2> DEFINE A == {k \in DOMAIN sets : c \in Range(sets[k])}
             B == {k \in DOMAIN sets : d \in Range(sets[k])}
  <2>1. A \in SUBSET (1 .. n) /\ B \in SUBSET (1 .. n) /\ 2 * Cardinality(A) > Sampled /\ 2 * Cardinality(B) > Sampled
    OBVIOUS
  <2>2. IsFiniteSet(1 .. n) /\ Cardinality(1 .. n) <= Sampled
    BY PlacesFinite
  <2> HIDE DEF A, B
  <2>3. A \intersect B # {}
    BY <1>2, <2>1, <2>2, Majorities
  <2>4. PICK k \in 1 .. n : c \in Range(sets[k]) /\ d \in Range(sets[k])
    BY <2>1, <2>3 DEF A, B
  <2>5. Len(sets[k]) = 1 /\ DOMAIN sets[k] = 1 .. Len(sets[k])
    BY <1>3, <2>4, LenProperties DEF Polling
  <2>6. DOMAIN sets[k] = {1}
    BY <2>5
  <2>7. QED
    BY <2>4, <2>6 DEF Range
<1> HIDE DEF hit, l
<1> SUFFICES ASSUME project.fallback \in Range(l) \/ project.max_labels <= 1 PROVE Len(l) = 1
  BY DEF Polling, l
<1>4. CASE Declared(hit) = <<>>
  <2>1. \A x : Len(<<x>>) = 1
    OBVIOUS
  <2>2. QED
    BY <1>1, <1>4, <2>1
<1>5. CASE Declared(hit) # <<>>
  <2>1. /\ l \in Seq(Range(project.classes)) /\ IsInjective(l) /\ l # <<>>
        /\ \A k \in DOMAIN l : l[k] \in hit
    BY <1>1, <1>5, DeclaredSound
  <2>2. ASSUME NEW i \in DOMAIN l, NEW j \in DOMAIN l PROVE l[i] = l[j]
    <3>1. CASE project.max_labels <= 1
      BY <1>3, <2>1, <3>1
    <3>2. CASE project.fallback \in Range(l)
      <4>1. project.fallback \in hit
        BY <2>1, <3>2 DEF Range
      <4>2. QED
        BY <1>3, <2>1, <4>1
    <3>3. QED
      BY <3>1, <3>2
  <2>3. QED
    BY <2>1, <2>2, OnlyOne
<1>6. QED
  BY <1>4, <1>5

\* There are no more answers than calls.
LEMMA AnswersFew ==
  ASSUME NEW T, NEW got \in Seq(T)
  PROVE  Len(Answers(got)) \in Nat /\ Len(Answers(got)) <= Len(got) /\ DOMAIN Answers(got) = 1 .. Len(Answers(got))
<1> DEFINE at == {k \in DOMAIN got : IsOk(got[k])}
           spot == InOrder(at)
           ok == Picked(got, at)
<1>1. at \in SUBSET DOMAIN got /\ DOMAIN got = 1 .. Len(got) /\ Len(got) \in Nat
  BY LenProperties
<1>2. PickedAs(T, got, at, spot)
  <2> HIDE DEF at
  <2>1. QED
    BY <1>1, PickedElements
<1>3. IsFiniteSet(at) /\ Cardinality(at) <= Len(got) /\ at \in SUBSET Int
  <2>1. IsFiniteSet(1 .. Len(got)) /\ Cardinality(1 .. Len(got)) = Len(got)
    BY <1>1, PlacesFinite
  <2> HIDE DEF at
  <2>2. QED
    BY <1>1, <2>1, FS_Subset
<1>4. Answers(got) = [k \in DOMAIN ok |-> ok[k].ok]
  BY DEF Answers
<1> HIDE DEF at
<1>5. Len(spot) = Cardinality(at)
  BY <1>3, OrderedInts
<1> HIDE DEF spot, ok
<1>6. DOMAIN ok = 1 .. Len(spot) /\ Len(spot) \in Nat
  BY <1>2 DEF PickedAs, ok
<1> DEFINE a == Answers(got)
<1>7. DOMAIN a = 1 .. Len(spot)
  BY <1>4, <1>6
<1> HIDE DEF a
<1>8. Len(a) = Len(spot)
  BY <1>4, <1>6, <1>7 DEF a
<1>9. QED
  BY <1>3, <1>5, <1>6, <1>7, <1>8 DEF a

\* A classification fails, or comes to labels of the project.
LEMMA ClassifiedAs ==
  ASSUME ProjectSound, NEW e, NEW got \in [1 .. Sampled -> Got(RawHits, project.failures)]
  PROVE  \/ \E kind : Classified(e, got) = Fail(e, kind)
         \/ \E labels, source :
              /\ Classified(e, got) = [e EXCEPT !.class = LabelledBy(labels, source)]
              /\ LabelsSound(labels) /\ Polling(labels) /\ source \in {"llm", "fallback"}
<1> DEFINE hard == HardErrors(got)
           valid == Answers(got)
           sets == [k \in DOMAIN valid |-> Normalized(valid[k])]
           c == Classified(e, got)
<1>1. Sampled \in Nat
  BY DEF Sampled, ProjectSound
<1>2. got \in Seq(Got(RawHits, project.failures)) /\ Len(got) = Sampled
  BY <1>1
<1>3. /\ valid \in Seq(RawHits)
      /\ Len(valid) \in Nat /\ Len(valid) <= Sampled /\ DOMAIN valid = 1 .. Len(valid)
  <2> HIDE DEF valid
  <2>1. valid \in Seq(RawHits)
    BY <1>2, AnswersAre DEF valid
  <2>2. Len(valid) \in Nat /\ Len(valid) <= Len(got) /\ DOMAIN valid = 1 .. Len(valid)
    BY <1>2, AnswersFew DEF valid
  <2>3. QED
    BY <1>2, <2>1, <2>2
<1>4. c = IF hard # <<>> THEN Fail(e, hard[1].failed)
     ELSE IF valid # <<>> THEN
       [e EXCEPT !.class = LabelledBy(IF project.samples = 0 THEN sets[1] ELSE Vote(sets), "llm")]
     ELSE IF project.classify_on_error = "fail" THEN Fail(e, "classification_invalid")
     ELSE [e EXCEPT !.class = LabelledBy(<<project.fallback>>, "fallback")]
  BY Zenon DEF Classified
<1> HIDE DEF hard, valid, c
<1>5. DOMAIN sets = 1 .. Len(valid)
        /\ \A k \in 1 .. Len(valid) : LabelsSound(sets[k]) /\ Polling(sets[k])
  <2>1. ASSUME NEW k \in 1 .. Len(valid) PROVE LabelsSound(sets[k]) /\ Polling(sets[k])
    <3>1. valid[k] \in RawHits /\ sets[k] = Normalized(valid[k])
      BY <1>3, ElementOfSeq
    <3> HIDE DEF sets
    <3>2. QED
      BY <3>1, NormalizedSound, NormalizedPolls
  <2>2. QED
    BY <1>3, <2>1
<1> HIDE DEF sets
<1> DEFINE voted == IF project.samples = 0 THEN sets[1] ELSE Vote(sets)
<1>6. ASSUME valid # <<>> PROVE LabelsSound(voted) /\ Polling(voted)
  <2>1. 1 \in 1 .. Len(valid)
    BY <1>3, <1>6, EmptySeq
  <2>2. \A k \in 1 .. Len(valid) : Polling(sets[k]) /\ sets[k] \in Seq(Range(project.classes))
    BY <1>5 DEF LabelsSound
  <2>3. LabelsSound(Vote(sets)) /\ Polling(Vote(sets))
    BY <1>3, <1>5, <2>2, VoteSound, VotePolls
  <2>4. QED
    BY <1>5, <2>1, <2>3
<1>7. LabelsSound(<<project.fallback>>) /\ Polling(<<project.fallback>>)
  <2>1. \A x : Len(<<x>>) = 1
    OBVIOUS
  <2>2. QED
    BY <2>1, FallbackSound DEF Polling
<1> HIDE DEF voted
<1>8. CASE hard # <<>> \/ (valid = <<>> /\ project.classify_on_error = "fail")
  BY <1>4, <1>8 DEF c
<1>9. CASE hard = <<>> /\ valid # <<>>
  <2>1. c = [e EXCEPT !.class = LabelledBy(voted, "llm")]
    BY <1>4, <1>9 DEF voted
  <2>2. QED
    BY <1>6, <1>9, <2>1 DEF c
<1>10. CASE hard = <<>> /\ valid = <<>> /\ project.classify_on_error # "fail"
  <2>1. c = [e EXCEPT !.class = LabelledBy(<<project.fallback>>, "fallback")]
    BY <1>4, <1>10
  <2>2. QED
    BY <1>7, <2>1 DEF c
<1>11. QED
  BY <1>8, <1>9, <1>10

\* An envelope that was classified: it stands for its record as before.
LEMMA ClassifiedSound ==
  ASSUME ProjectSound, NEW e, EnvelopeSound(e), e.class = None,
         NEW got \in [1 .. Sampled -> Got(RawHits, project.failures)], NEW c,
         c = Classified(e, got) \/ c = Fail(e, "overflow")
  PROVE  /\ EnvelopeSound(c) /\ c.record = e.record /\ c.members = e.members /\ IsAnchor(c)
         /\ c.class # None => Distinct(c.class.labels)
<1>1. DOMAIN e = EnvelopeFields /\ None \notin Labelled(project.classes)
  BY DEF EnvelopeSound, ProjectSound
<1>2. (\E kind : c = Fail(e, kind)) \/
        \E labels, source : c = [e EXCEPT !.class = LabelledBy(labels, source)] /\ LabelsSound(labels)
                              /\ source \in {"llm", "fallback", "inherited"}
  <2>1. CASE c = Fail(e, "overflow")
    BY <2>1
  <2>2. CASE c = Classified(e, got)
    BY <2>2, ClassifiedAs
  <2>3. QED
    BY <2>1, <2>2
<1>3. CASE \E kind : c = Fail(e, kind)
  <2>1. PICK kind : c = Fail(e, kind)
    BY <1>3
  <2>2. SameOwner(e, c) /\ DOMAIN c = EnvelopeFields
    BY <1>1, <2>1, FailSame
  <2>3. QED
    BY <2>2 DEF SameOwner, EnvelopeSound, IsAnchor
<1>4. CASE \E labels, source : c = [e EXCEPT !.class = LabelledBy(labels, source)]
          /\ LabelsSound(labels)
                                 /\ source \in {"llm", "fallback", "inherited"}
  <2>1. PICK labels, source : c = [e EXCEPT !.class = LabelledBy(labels, source)] /\ LabelsSound(labels)
                                /\ source \in {"llm", "fallback", "inherited"}
    BY <1>4
  <2>2. labels \in Seq(Range(project.classes)) /\ Distinct(labels)
            /\ labels[1] \in Range(project.classes)
    BY <2>1, EmptySeq, LenProperties, ElementOfSeq DEF LabelsSound, Distinct
  <2> DEFINE l == LabelledBy(labels, source)
  <2>3. l \in Labelled(project.classes) /\ l.label = l.labels[1] /\ l.labels = labels
    BY <2>1, <2>2 DEF LabelledBy, Labelled
  <2> HIDE DEF l
  <2>4. c = [e EXCEPT !.class = l]
    BY <2>1 DEF l
  <2>5. DOMAIN c = EnvelopeFields /\ c.class = l /\ c.record = e.record /\ c.members = e.members
    BY <1>1, <2>4 DEF EnvelopeFields
  <2>6. QED
    BY <2>2, <2>3, <2>5 DEF EnvelopeSound, IsAnchor
<1>5. QED
  BY <1>2, <1>3, <1>4

\* Classification preserves the invariant.
LEMMA ClassifyKeeps ==
  ASSUME ChainInv, Heirs' = Heirs, ClassifyWave, UNCHANGED <<ratedVars, verifyVars, streamVars>> PROVE ChainInv'
<1>1. /\ stage = "classify" /\ stage' = "frames" /\ UNCHANGED <<project, frames, fresh, turn>>
  BY DEF ClassifyWave, ratedVars, generateVars, verifyVars, streamVars
<1>2. turn = "idle" /\ project # Off /\ project' # Off /\ Grounds /\ Unparted
          /\ Owned(batch, Members(batch), frames)
  BY <1>1 DEF ChainInv, Grounds
<1>3. PICK got \in [{i \in Unclassified :
          batch[i].record \notin project.oversized} -> [1 .. Sampled -> Got(RawHits,
              project.failures)]] :
       batch' = [i \in DOMAIN batch |->
            IF i \notin Unclassified THEN batch[i]
            ELSE IF batch[i].record \in project.oversized THEN Fail(batch[i], "overflow")
            ELSE Classified(batch[i], got[i])]
  BY <1>1 DEF ClassifyWave
<1>4. ProjectSound /\ BatchSound(batch) /\ FramesSound(batch, frames)
  BY <1>2 DEF Grounds
<1>5. DOMAIN batch' = DOMAIN batch
  BY <1>3
<1>6. ASSUME NEW i \in DOMAIN batch
      PROVE  /\ EnvelopeSound(batch'[i]) /\ batch'[i].record = batch[i].record
             /\ batch'[i].members = batch[i].members /\ IsAnchor(batch'[i])
             /\ batch'[i].class # None => Distinct(batch'[i].class.labels)
  <2>1. EnvelopeSound(batch[i]) /\ IsAnchor(batch[i])
            /\ (batch[i].class # None => Distinct(batch[i].class.labels))
    BY <1>2, <1>4 DEF BatchSound, Unparted
  <2>2. CASE i \notin Unclassified
    <3>1. batch'[i] = batch[i]
      BY <1>3, <2>2
    <3>2. QED
      BY <2>1, <3>1
  <2>3. CASE i \in Unclassified /\ batch[i].record \in project.oversized
    <3>1. batch'[i] = Fail(batch[i], "overflow")
      BY <1>3, <2>3
    <3>2. SameOwner(batch[i], batch'[i]) /\ DOMAIN batch'[i] = EnvelopeFields
      BY <2>1, <3>1, FailSame DEF EnvelopeSound
    <3>3. QED
      BY <2>1, <3>2 DEF SameOwner, EnvelopeSound, IsAnchor
  <2>4. CASE i \in Unclassified /\ batch[i].record \notin project.oversized
    <3>1. batch'[i] = Classified(batch[i], got[i])
      BY <1>3, <2>4
    <3>2. got[i] \in [1 .. Sampled -> Got(RawHits, project.failures)] /\ batch[i].class = None
      BY <2>4 DEF Unclassified
    <3>3. QED
      BY <1>4, <2>1, <3>1, <3>2, ClassifiedSound
  <2>5. QED
    BY <2>2, <2>3, <2>4
<1>7. \A i \in DOMAIN batch : IsAnchor(batch[i])
  BY <1>2 DEF Unparted
<1>8. BatchSound(batch')
  BY <1>4, <1>5, <1>6, <1>7 DEF BatchSound
<1>9. Anchors(batch') = Anchors(batch) /\ Members(batch') = Members(batch)
  BY <1>5, <1>6, <1>7 DEF Anchors, Members
<1>10. Grounds'
  <2>1. FramesSound(batch', frames')
    BY <1>1, <1>4, <1>5 DEF FramesSound
  <2>2. QED
    BY <1>1, <1>2, <1>8, <2>1, GroundsFrom DEF Grounds
<1>11. Owned(batch, Members(batch), frames)'
  <2>1. Owned(batch', Members(batch'), frames')
    BY <1>1, <1>2, <1>9 DEF Owned, Apart
  <2>2. QED
    BY <2>1, Zenon DEF Owned, Apart, Members, Anchors
<1>12. Unparted'
  <2>1. \A i \in DOMAIN batch' : IsAnchor(batch'[i])
            /\ (batch'[i].class # None => Distinct(batch'[i].class.labels))
    BY <1>5, <1>6
  <2>2. QED
    BY <2>1, Zenon DEF Unparted, IsAnchor, Distinct
<1>13. QED
  BY <1>1, <1>2, <1>10, <1>11, <1>12 DEF ChainInv, Grounds, Streaming

\* Joined sequences have the elements of the sequences.
LEMMA FlattenType ==
  ASSUME NEW T, NEW q \in Seq(Seq(T))
  PROVE  FlattenSeq(q) \in Seq(T)
<1> DEFINE n == Len(q)
<1>1. n \in Nat /\ DOMAIN q = 1 .. n /\ \A i \in 1 .. n : q[i] \in Seq(T)
  BY LenProperties, ElementOfSeq
<1>2. CASE n = 0
  <2>1. FlattenSeq(q) = q
    BY <1>2 DEF FlattenSeq
  <2>2. QED
    BY <1>1, <1>2, <2>1
<1>3. CASE n # 0
  <2> DEFINE f == CHOOSE f : Flattening(f, q, n)
  <2>1. FlattenSeq(q) = f[n]
    BY <1>3 DEF FlattenSeq, Flattening
  <2>2. Flattening(f, q, n)
    BY <1>1, FlatteningExists
  <2> HIDE DEF f, n
  <2>3. \A i \in 1 .. n : f[i] = IF i = 1 THEN q[i] ELSE f[i - 1] \o q[i]
    BY <2>2, Zenon DEF Flattening
  <2> DEFINE Q == {i \in Nat : i \in 1 .. n => f[i] \in Seq(T)}
  <2>4. 0 \in Q
    OBVIOUS
  <2>5. ASSUME NEW i \in Q PROVE i + 1 \in Q
    <3> SUFFICES ASSUME i + 1 \in 1 .. n PROVE f[i + 1] \in Seq(T)
      OBVIOUS
    <3>1. q[i + 1] \in Seq(T)
      BY <1>1
    <3>2. CASE i = 0
      BY <2>3, <3>1, <3>2
    <3>3. CASE i # 0
      <4>1. i \in 1 .. n /\ i + 1 # 1 /\ i + 1 - 1 = i
        BY <1>1, <3>3
      <4>2. f[i] \in Seq(T)
        BY <4>1
      <4>3. f[i + 1] = f[i] \o q[i + 1]
        <5>1. f[i + 1] = IF i + 1 = 1 THEN q[i + 1] ELSE f[i + 1 - 1] \o q[i + 1]
          BY <2>3
        <5>2. QED
          BY <5>1, <4>1
      <4>4. f[i] \o q[i + 1] \in Seq(T)
        BY <4>2, <3>1, ConcatProperties
      <4>5. QED
        BY <4>3, <4>4
    <3>4. QED
      BY <3>2, <3>3
  <2>6. Q = Nat
    <3> HIDE DEF Q
    <3>1. Q \in SUBSET Nat
      BY DEF Q
    <3>2. QED
      BY <2>4, <2>5, <3>1, SetInduction
  <2>7. f[n] \in Seq(T)
    BY <2>6, <1>1, <1>3, SMTT(20)
  <2>8. QED
    BY <2>1, <2>7
<1>4. QED
  BY <1>2, <1>3

\* The empty sequence has no places.
LEMMA NoPlaces == \A s : s = <<>> => DOMAIN s = 1 .. 0
<1> TAKE s
<1> HAVE s = <<>>
<1>1. s \in Seq({}) /\ Len(s) = 0
  OBVIOUS
<1>2. QED
  BY <1>1, LenProperties

\* The members of a record are frames of the session.
LEMMA MembersOf ==
  ASSUME ProjectSound, NEW r \in DOMAIN project.members
  PROVE  project.members[r] \in Seq(Positions)
<1>1. project.members \in Seq(Seq(Nat)) /\ Range(project.members[r]) \subseteq Positions
  BY DEF ProjectSound
<1>2. project.members[r] \in Seq(Nat)
  BY <1>1, ElementOfSeq, LenProperties
<1> DEFINE m == project.members[r]
<1>3. m \in Seq(Nat) /\ Range(m) \subseteq Positions
  BY <1>1, <1>2
<1> HIDE DEF m
<1>4. Len(m) \in Nat /\ m = [k \in 1 .. Len(m) |-> m[k]] /\ \A k \in 1 .. Len(m) : m[k] \in Positions
  BY <1>3 DEF Range
<1>5. m \in Seq(Positions)
  BY <1>4
<1>6. QED
  BY <1>5 DEF m

\* The envelope of a sibling: sound, and not the one its record stands by.
Beside(e) == EnvelopeSound(e) /\ ~ IsAnchor(e)

\* The siblings of an envelope stand beside it.
LEMMA SiblingsBeside ==
  ASSUME ProjectSound, NEW e, EnvelopeSound(e), e.class # None => Distinct(e.class.labels)
  PROVE  \E n \in Nat : DOMAIN Siblings(e) = 1 .. n /\ \A k \in 1 .. n : Beside(Siblings(e)[k])
<1>1. CASE e.class = None
  <2>1. Siblings(e) = <<>>
    BY <1>1 DEF Siblings
  <2>2. DOMAIN Siblings(e) = 1 .. 0 /\ 0 \in Nat
    BY <2>1, NoPlaces
  <2>3. QED
    BY <2>2
<1>2. CASE e.class # None
  <2> DEFINE n == Len(e.class.labels) - 1
             s == Siblings(e)
             f(k) == [Envelope(e.record) EXCEPT !.class =
                 [e.class EXCEPT !.label = e.class.labels[k + 1]],
                                    !.seams = e.seams, !.shared = Pinned(e)]
  <2>1. s = [k \in 1 .. n |-> f(k)]
    BY <1>2, Zenon DEF Siblings
  <2>2. /\ e.class \in Labelled(project.classes) /\ e.record \in DOMAIN project.members
        /\ None \notin Labelled(project.classes) /\ IsInjective(e.class.labels) /\ e.class.labels # <<>>
    BY <1>2 DEF EnvelopeSound, Distinct, ProjectSound
  <2>3. e.class.labels \in Seq(Range(project.classes))
    BY <2>2 DEF Labelled
  <2>4. n \in Nat /\ DOMAIN e.class.labels = 1 .. n + 1
    BY <2>2, <2>3
  <2>10. n > 0 => Heirs[e.record] = None
    <3>1. ASSUME Heirs[e.record] # None PROVE n = 0
      <4>1. e.class.labels = <<Heirs[e.record]>>
        BY <3>1 DEF EnvelopeSound, LabelledBy
      <4>2. \A x : Len(<<x>>) = 1
        OBVIOUS
      <4>3. Len(e.class.labels) = 1
        BY <4>1, <4>2
      <4>4. QED
        BY <4>3
    <3> HIDE DEF n
    <3>2. n = 0 => ~ (n > 0)
      OBVIOUS
    <3>3. QED
      BY <3>1, <3>2
  <2>5. ASSUME NEW k \in 1 .. n PROVE Beside(f(k))
    <3> DEFINE c == [e.class EXCEPT !.label = e.class.labels[k + 1]]
    <3>1. e.class.labels[k + 1] \in Range(project.classes)
      BY <2>3, <2>4
    <3>2. e.class.labels[k + 1] # e.class.labels[1]
      <4>1. k + 1 \in DOMAIN e.class.labels /\ 1 \in DOMAIN e.class.labels /\ k + 1 # 1
        BY <2>4
      <4>2. QED
        BY <2>2, <4>1 DEF IsInjective
    <3>3. /\ c \in Labelled(project.classes) /\ c # None
          /\ c.label # c.labels[1]
      BY <2>2, <3>1, <3>2 DEF Labelled
    <3> HIDE DEF c
    <3>4. /\ DOMAIN f(k) = EnvelopeFields /\ f(k).record = e.record
          /\ f(k).class = c /\ f(k).members = project.members[e.record]
      <4> DEFINE base == Envelope(e.record)
      <4>1. DOMAIN base = EnvelopeFields /\ base.record = e.record /\ base.members =
                project.members[e.record]
        BY DEF Envelope, EnvelopeFields
      <4> HIDE DEF base
      <4>2. f(k) = [base EXCEPT !.class = c, !.seams = e.seams, !.shared = Pinned(e)]
        BY DEF base, c
      <4> HIDE DEF f
      <4>3. QED
        BY <4>1, <4>2 DEF EnvelopeFields
    <3> HIDE DEF f
    <3>5. Heirs[e.record] = None
      BY <2>4, <2>10
    <3>6. QED
      BY <2>2, <3>3, <3>4, <3>5, MembersOf DEF Beside, EnvelopeSound, IsAnchor
  <2> HIDE DEF f
  <2>6. \A k \in 1 .. n : Beside(s[k])
    BY <2>1, <2>5
  <2>7. QED
    BY <2>1, <2>4, <2>6
<1>3. QED
  BY <1>1, <1>2

\* The siblings join at the end; the envelopes before them stay as they were.
Joined(b, c) ==
  \E n, m \in Nat :
    /\ DOMAIN b = 1 .. n /\ DOMAIN c = 1 .. n + m
    /\ \A i \in 1 .. n : SameOwner(b[i], c[i])
    /\ \A i \in n + 1 .. n + m : Beside(c[i])

\* What joins are the envelopes of some list of lists, each beside the one of its record.
LEMMA SiblingsListed ==
  ASSUME ProjectSound, BatchSound(batch), Unparted, NEW q,
         q = [i \in DOMAIN batch |-> IF batch[i].status = "active" THEN Siblings(batch[i]) ELSE <<>>]
  PROVE  \E T : /\ q \in Seq(Seq(T))
               /\ \A x \in T : Beside(x) /\ \E i \in DOMAIN batch : x \in Range(Siblings(batch[i]))
<1> DEFINE T == UNION {Range(q[i]) : i \in DOMAIN q}
<1>1. PICK n \in Nat : DOMAIN batch = 1 .. n
  BY DEF BatchSound
<1>2. \A i \in 1 .. n : EnvelopeSound(batch[i])
          /\ (batch[i].class # None => Distinct(batch[i].class.labels))
  BY <1>1 DEF BatchSound, Unparted
<1>3. ASSUME NEW i \in 1 .. n
      PROVE  \E l \in Nat : DOMAIN q[i] = 1 .. l /\ \A k \in 1 .. l : Beside(q[i][k])
  <2>1. CASE batch[i].status = "active"
    <3>1. q[i] = Siblings(batch[i])
      BY <1>1, <2>1
    <3>2. QED
      BY <1>2, <3>1, SiblingsBeside
  <2>2. CASE batch[i].status # "active"
    <3>1. q[i] = <<>>
      BY <1>1, <2>2
    <3>2. DOMAIN q[i] = 1 .. 0
      BY <3>1, NoPlaces
    <3>3. 0 \in Nat /\ \A k \in 1 .. 0 : Beside(q[i][k])
      OBVIOUS
    <3>4. QED
      BY <3>2, <3>3
  <2>3. QED
    BY <2>1, <2>2
<1>4. DOMAIN q = 1 .. n /\ q = [i \in 1 .. n |-> q[i]]
  BY <1>1
<1>5. \A x \in T : Beside(x) /\ \E i \in DOMAIN batch : x \in Range(Siblings(batch[i]))
  <2> SUFFICES ASSUME NEW i \in 1 .. n, NEW x \in Range(q[i]) PROVE Beside(x) /\ x \in Range(Siblings(batch[i]))
    BY <1>1, <1>4
  <2>1. PICK l \in Nat : DOMAIN q[i] = 1 .. l /\ \A k \in 1 .. l : Beside(q[i][k])
    BY <1>3
  <2>2. Beside(x) /\ DOMAIN q[i] # {}
    BY <2>1 DEF Range
  <2>3. CASE batch[i].status = "active"
    BY <1>1, <2>2, <2>3
  <2>4. CASE batch[i].status # "active"
    <3>1. q[i] = <<>>
      BY <1>1, <2>4
    <3>2. DOMAIN q[i] = 1 .. 0
      BY <3>1, NoPlaces
    <3>3. QED
      BY <2>2, <3>2
  <2>5. QED
    BY <2>3, <2>4
<1>6. ASSUME NEW i \in 1 .. n PROVE q[i] \in Seq(T)
  <2>1. PICK l \in Nat : DOMAIN q[i] = 1 .. l
    BY <1>3
  <2>2. \A k \in 1 .. l : q[i][k] \in T
    BY <1>4, <2>1 DEF Range
  <2> HIDE DEF T
  <2>3. q[i] = [k \in 1 .. l |-> q[i][k]]
    <3>1. CASE batch[i].status = "active" /\ batch[i].class # None
      BY <2>1, <3>1, <1>1 DEF Siblings
    <3>2. CASE ~ (batch[i].status = "active" /\ batch[i].class # None)
      <4>1. q[i] = <<>>
        BY <3>2, <1>1 DEF Siblings
      <4>2. QED
        BY <2>1, <4>1
    <3>3. QED
      BY <3>1, <3>2
  <2> DEFINE x == q[i]
  <2>4. x = [k \in 1 .. l |-> x[k]] /\ \A k \in 1 .. l : x[k] \in T
    BY <2>2, <2>3
  <2> HIDE DEF x
  <2>5. x \in Seq(T)
    BY <2>4
  <2>6. QED
    BY <2>5 DEF x
<1> HIDE DEF T
<1>7. q \in Seq(Seq(T))
  BY <1>4, <1>6
<1>8. QED
  BY <1>5, <1>7

\* When all siblings have joined, one envelope still stands for each record.
LEMMA FanOutJoins ==
  ASSUME ProjectSound, BatchSound(batch), Unparted
  PROVE  Joined(batch, FanOut(batch))
<1> DEFINE pinned == [i \in DOMAIN batch |-> [batch[i] EXCEPT !.shared = @ \/ Pinned(batch[i])]]
           q == [i \in DOMAIN batch |-> IF batch[i].status = "active" THEN Siblings(batch[i]) ELSE <<>>]
           all == FanOut(batch)
           rest == FlattenSeq(q)
<1>1. all = pinned \o rest
  BY DEF FanOut
<1>2. PICK n \in Nat : DOMAIN batch = 1 .. n
  BY DEF BatchSound
<1>3. \A i \in 1 .. n : EnvelopeSound(batch[i])
          /\ (batch[i].class # None => Distinct(batch[i].class.labels))
  BY <1>2 DEF BatchSound, Unparted
<1>4. PICK T : q \in Seq(Seq(T)) /\ \A x \in T : Beside(x)
  <2> HIDE DEF q
  <2>1. q = [i \in DOMAIN batch |-> IF batch[i].status = "active" THEN Siblings(batch[i]) ELSE <<>>]
    BY DEF q
  <2>2. PICK T : /\ q \in Seq(Seq(T))
                 /\ \A x \in T : Beside(x) /\ \E i \in DOMAIN batch : x \in Range(Siblings(batch[i]))
    BY <2>1, SiblingsListed
  <2>3. QED
    BY <2>2
<1>5. ASSUME NEW i \in 1 .. n PROVE SameOwner(batch[i], pinned[i])
  <2>1. DOMAIN batch[i] = EnvelopeFields
    BY <1>3 DEF EnvelopeSound
  <2>2. pinned[i] = [batch[i] EXCEPT !.shared = @ \/ Pinned(batch[i])]
    BY <1>2
  <2>3. QED
    BY <2>1, <2>2 DEF SameOwner, EnvelopeFields
<1>6. DOMAIN pinned = 1 .. n
  BY <1>2
<1>7. rest \in Seq(T)
  <2> HIDE DEF q
  <2>1. QED
    BY <1>4, FlattenType
<1> DEFINE P == {pinned[i] : i \in 1 .. n}
           m == Len(rest)
<1>8. pinned \in Seq(P) /\ Len(pinned) = n
  BY <1>6
<1> HIDE DEF pinned, q, all, rest, P
<1>9. m \in Nat /\ \A i \in 1 .. m : rest[i] \in T
  BY <1>7, LenProperties, ElementOfSeq
<1>10. /\ DOMAIN all = 1 .. n + m
       /\ \A i \in 1 .. n : all[i] = pinned[i]
       /\ \A i \in n + 1 .. n + m : all[i] = rest[i - n]
  <2>1. pinned \in Seq(P \union T) /\ rest \in Seq(P \union T)
    BY <1>7, <1>8, SeqMonotonic
  <2>2. /\ pinned \o rest \in Seq(P \union T) /\ Len(pinned \o rest) = n + m
        /\ \A i \in 1 .. n + m : (pinned \o rest)[i] = IF i <= n THEN pinned[i] ELSE rest[i - n]
    BY <1>8, <2>1, ConcatProperties
  <2>3. QED
    BY <1>1, <1>9, <2>2, LenProperties
<1>11. \A i \in n + 1 .. n + m : Beside(all[i])
  <2>1. \A i \in n + 1 .. n + m : i - n \in 1 .. m
    BY <1>9
  <2>2. QED
    BY <1>4, <1>9, <1>10, <2>1
<1>12. \A i \in 1 .. n : SameOwner(batch[i], all[i])
  BY <1>5, <1>10
<1>13. QED
  BY <1>2, <1>9, <1>10, <1>11, <1>12, Zenon DEF Joined, all

\* What follows for what is owned.
LEMMA JoinedKeeps ==
  ASSUME NEW b, NEW c, Joined(b, c), BatchSound(b), NEW f, FramesSound(b, f), Owned(b, Members(b), f),
         DOMAIN b # {} \/ DOMAIN c = {}
  PROVE  BatchSound(c) /\ FramesSound(c, f) /\ Owned(c, Members(c), f)
<1>1. PICK n \in Nat, m \in Nat :
        /\ DOMAIN b = 1 .. n /\ DOMAIN c = 1 .. n + m
        /\ \A i \in 1 .. n : SameOwner(b[i], c[i])
        /\ \A i \in n + 1 .. n + m : Beside(c[i])
  BY DEF Joined
<1>2. \A i \in 1 .. n + m : i \in 1 .. n \/ i \in n + 1 .. n + m
  OBVIOUS
<1>3. \A i \in 1 .. n : i \in 1 .. n + m
  OBVIOUS
<1>4. \A i \in 1 .. n : EnvelopeSound(c[i]) /\ (IsAnchor(c[i]) <=> IsAnchor(b[i])) /\ c[i].record =
          b[i].record
                        /\ c[i].members = b[i].members
  BY <1>1 DEF BatchSound, EnvelopeSound, SameOwner, IsAnchor
<1>5. \A i \in n + 1 .. n + m : EnvelopeSound(c[i]) /\ ~ IsAnchor(c[i])
  BY <1>1 DEF Beside
<1>6. BatchSound(c)
  <2>1. \A i \in 1 .. n + m : EnvelopeSound(c[i])
    BY <1>2, <1>4, <1>5
  <2>2. \A i, j \in 1 .. n + m :
          IsAnchor(c[i]) /\ IsAnchor(c[j]) /\ c[i].record = c[j].record => i = j
    BY <1>1, <1>2, <1>4, <1>5 DEF BatchSound
  <2>3. n + m \in Nat
    OBVIOUS
  <2>4. QED
    BY <1>1, <2>1, <2>2, <2>3 DEF BatchSound
<1>7. Anchors(c) = Anchors(b)
  BY <1>1, <1>2, <1>3, <1>4, <1>5 DEF Anchors
<1>8. \A i \in Anchors(b) : Members(c)[i] = Members(b)[i]
  BY <1>1, <1>3, <1>4 DEF Anchors, Members
<1>9. Owned(c, Members(c), f)
  BY <1>7, <1>8 DEF Owned, Apart
<1>10. FramesSound(c, f)
  BY DEF FramesSound
<1>11. QED
  BY <1>6, <1>9, <1>10

\* The classification of frames, and the siblings that join, preserve the invariant.
LEMMA FramesWaveKeeps ==
  ASSUME ChainInv, Heirs' = Heirs, FrameWave, UNCHANGED <<ratedVars, verifyVars, streamVars>> PROVE ChainInv'
<1>1. /\ stage = "frames" /\ stage' = "extract" /\ UNCHANGED <<project, frames, fresh, turn>>
  BY DEF FrameWave, ratedVars, generateVars, verifyVars, streamVars
<1>2. turn = "idle" /\ project # Off /\ project' # Off /\ Grounds /\ Unparted
          /\ Owned(batch, Members(batch), frames)
  BY <1>1 DEF ChainInv, Grounds
<1>3. ProjectSound /\ BatchSound(batch) /\ FramesSound(batch, frames)
  BY <1>2 DEF Grounds
<1>4. batch' = batch \/ batch' = FanOut(batch)
  BY <1>1, Zenon DEF FrameWave
<1>5. BatchSound(batch') /\ FramesSound(batch', frames) /\ Owned(batch', Members(batch'), frames)
  <2>1. CASE batch' = batch
    BY <1>2, <1>3, <2>1
  <2>2. CASE batch' = FanOut(batch)
    <3>1. Joined(batch, batch')
      BY <1>2, <1>3, <2>2, FanOutJoins
    <3>2. DOMAIN batch # {} \/ DOMAIN batch' = {}
      <4>1. SUFFICES ASSUME DOMAIN batch = {} PROVE DOMAIN batch' = {}
        OBVIOUS
      <4>2. QED
        BY <4>1, <2>2 DEF FanOut, FlattenSeq
    <3>3. QED
      BY <1>2, <1>3, <3>1, <3>2, JoinedKeeps
  <2>3. QED
    BY <1>4, <2>1, <2>2
<1>6. Grounds'
  BY <1>1, <1>2, <1>5, GroundsFrom DEF Grounds
<1>7. Owned(batch, Members(batch), frames)'
  <2>1. Owned(batch', Members(batch'), frames')
    BY <1>1, <1>5
  <2>2. QED
    BY <2>1, Zenon DEF Owned, Apart, Members, Anchors
<1>8. QED
  BY <1>1, <1>2, <1>6, <1>7 DEF ChainInv, Grounds, Streaming

-------------------------------------------------------------------------------
(* Generation                                                              *)

\* What is joined from some sequences has their elements.
LEMMA FlattenOf ==
  ASSUME NEW n \in Nat, NEW q, q = [i \in 1 .. n |-> q[i]], \A i \in 1 .. n : q[i] \in Seq(Range(q[i]))
  PROVE  FlattenSeq(q) \in Seq(UNION {Range(q[i]) : i \in 1 .. n})
<1> DEFINE T == UNION {Range(q[i]) : i \in 1 .. n}
<1>1. ASSUME NEW i \in 1 .. n PROVE q[i] \in Seq(T)
  <2>1. Range(q[i]) \subseteq T
    OBVIOUS
  <2> HIDE DEF T
  <2>2. QED
    BY <2>1, SeqMonotonic
<1> HIDE DEF T
<1>2. q \in Seq(Seq(T))
  BY <1>1
<1>3. FlattenSeq(q) \in Seq(T)
  BY <1>2, FlattenType
<1>4. QED
  BY <1>3 DEF T

\* Some positions of the batch in their order.
LEMMA PlacesInOrder ==
  ASSUME NEW n \in Nat, NEW S \in SUBSET (1 .. n)
  PROVE  InOrder(S) \in Seq(S) /\ Len(InOrder(S)) \in Nat /\ Range(InOrder(S)) \subseteq S
<1>1. IsFiniteSet(1 .. n)
  BY FS_Interval
<1>2. IsFiniteSet(S) /\ S \in SUBSET Int
  <2>1. IsFiniteSet(S)
    BY <1>1, FS_Subset
  <2>2. QED
    BY <2>1
<1>3. \A s : s = InOrder(S) => s \in Seq(S) /\ Len(s) = Cardinality(S) /\ Cardinality(S) \in Nat
  BY <1>2, OrderedInts
<1>4. InOrder(S) \in Seq(S)
  BY <1>3
<1>5. QED
  BY <1>4, LenProperties, ElementOfSeq DEF Range

\* The least of two numbers.
LEMMA LeastOfTwo ==
  ASSUME NEW a \in Nat, NEW b \in Nat
  PROVE  Min({a, b}) \in Nat /\ Min({a, b}) <= b
<1>1. {a, b} = {a} \union {b} /\ IsFiniteSet({a}) /\ IsFiniteSet({b})
  BY FS_Singleton
<1>2. IsFiniteSet({a, b})
  BY <1>1, FS_Union
<1> DEFINE S == {a, b}
<1>3. S \in SUBSET Int /\ S # {} /\ IsFiniteSet(S) /\ b \in S /\ S \subseteq Nat
  BY <1>2
<1> HIDE DEF S
<1>4. Min(S) \in S /\ \A x \in S : Min(S) <= x
  BY <1>3, Extremes
<1>5. QED
  BY <1>3, <1>4 DEF S

\* A segment of the seeds.
SegmentSound(s) == s.class \in Labels /\ s.calls \in Int

\* How many calls a segment needs is a number,
LEMMA CallsCount ==
  ASSUME NEW a \in Int, NEW b \in Nat \ {0}
  PROVE  CeilDiv(a, b) \in Int /\ (a \in Nat => CeilDiv(a, b) \in Nat)
<1>1. (a + b - 1) \in Int /\ b \in Int /\ b > 0
  OBVIOUS
<1>2. (a + b - 1) \div b \in Int
  BY <1>1
<1>3. a \in Nat => (a + b - 1) \div b \in Nat
  BY <1>1, <1>2
<1>4. QED
  BY <1>2, <1>3 DEF CeilDiv

\* and so is how many seeds it has.
LEMMA SeedPoolSound ==
  ASSUME ProjectSound, BatchSound(batch), NEW label
  PROVE  Len(SeedPool(label)) \in Nat /\ DOMAIN SeedPool(label) = 1 .. Len(SeedPool(label))
<1>1. PICK n \in Nat : DOMAIN batch = 1 .. n
  BY DEF BatchSound
<1>2. Range(PoolOf(label)) \subseteq 1 .. n
  <2> DEFINE S == {i \in Active : LabelOf(batch[i]) = label}
  <2>1. S \in SUBSET (1 .. n) /\ PoolOf(label) = InOrder(S)
    BY <1>1 DEF Active, PoolOf
  <2> HIDE DEF S
  <2>2. QED
    BY <2>1, PlacesInOrder
<1> DEFINE Y == {i \in Range(PoolOf(label)) : batch[i].score # None}
           scored == InOrder(Y)
           least == IF project.seed_min # None THEN <<project.seed_min, 1>>
               ELSE IF project.threshold # None THEN <<project.threshold, 1>>
               ELSE Median([k \in DOMAIN scored |-> batch[scored[k]].score])
           X == {i \in Range(scored) : AtLeast(batch[i].score, least)}
<1>3. SeedPool(label) = InOrder(X)
  BY Zenon DEF SeedPool
<1>4. Y \in SUBSET (1 .. n)
  BY <1>2
<1> HIDE DEF Y, least
<1>5. Range(scored) \subseteq 1 .. n
  BY <1>4, PlacesInOrder
<1> HIDE DEF scored
<1>6. X \in SUBSET (1 .. n)
  BY <1>5
<1> HIDE DEF X
<1>7. InOrder(X) \in Seq(X) /\ Len(InOrder(X)) \in Nat
  BY <1>6, PlacesInOrder
<1>8. QED
  BY <1>3, <1>7, LenProperties

\* Segments are sound.
LEMMA SegmentsAre ==
  ASSUME ProjectSound, BatchSound(batch)
  PROVE  Segments \in Seq(Range(Segments)) /\ \A s \in Range(Segments) : SegmentSound(s)
<1>1. /\ project.num_per_record \in Nat /\ project.standalone \in Nat
          /\ project.num_per_call \in Nat \ {0}
      /\ project.examples \in Seq(Contents) /\ project.classes \in Seq(STRING)
  BY DEF ProjectSound
<1>2. CASE project.generate = "alone"
  <2> DEFINE asked == IF project.examples # <<>> THEN Len(project.examples) * project.num_per_record
               ELSE project.standalone
             one == Segment(None, <<>>, project.examples, CeilDiv(asked, project.num_per_call))
  <2>1. Segments = <<one>>
    BY <1>2 DEF Segments, OneSegment
  <2>2. asked \in Int
    BY <1>1, LenProperties
  <2> HIDE DEF asked
  <2>3. SegmentSound(one)
    BY <1>1, <2>2, CallsCount DEF SegmentSound, Labels, Segment
  <2> HIDE DEF one
  <2>4. Range(Segments) = {one}
    BY <2>1 DEF Range
  <2>5. QED
    BY <2>1, <2>3, <2>4
<1>3. CASE project.generate # "alone"
  <2> DEFINE all == <<None>> \o project.classes
             at == {n \in DOMAIN all : all[n] \in Pools /\ SeedPool(all[n]) # <<>>}
             named == Picked(all, at)
             seg(k) == LET pool == SeedPool(named[k])
                           ids == [j \in DOMAIN pool |-> batch[pool[j]].record]
                       IN Segment(named[k], ids, [j \in DOMAIN ids |-> project.contents[ids[j]]],
                            CeilDiv(Len(pool) * project.num_per_record, project.num_per_call))
             s == Segments
  <2>1. s = [k \in DOMAIN named |-> seg(k)]
    <3>1. s = ClassSegments
      BY <1>3, Zenon DEF Segments
    <3>2. QED
      BY <3>1, Zenon DEF ClassSegments
  <2>2. all \in Seq(Labels)
    <3>1. project.classes \in Seq(Range(project.classes))
      BY <1>1 DEF Range
    <3>2. project.classes \in Seq(Labels) /\ <<None>> \in Seq(Labels)
      BY <3>1, SeqMonotonic DEF Labels
    <3>3. QED
      BY <3>2, ConcatProperties
  <2>3. \E m \in Nat : DOMAIN named = 1 .. m /\ \A k \in 1 .. m : named[k] \in Labels
    <3> DEFINE spot == InOrder(at)
    <3>1. at \in SUBSET DOMAIN all
      OBVIOUS
    <3> HIDE DEF all, at
    <3>2. PickedAs(Labels, all, at, spot)
      BY <2>2, <3>1, PickedElements
    <3> HIDE DEF spot, named
    <3>3. named \in Seq(Labels)
      BY <3>2 DEF PickedAs, named
    <3>4. QED
      BY <3>3, LenProperties, ElementOfSeq
  <2> HIDE DEF named
  <2>4. PICK m \in Nat : DOMAIN named = 1 .. m /\ \A k \in 1 .. m : named[k] \in Labels
    BY <2>3
  <2>5. ASSUME NEW k \in 1 .. m PROVE SegmentSound(seg(k))
    <3> DEFINE count == Len(SeedPool(named[k])) * project.num_per_record
    <3>1. count \in Int
      BY <1>1, SeedPoolSound
    <3> HIDE DEF count
    <3>2. CeilDiv(count, project.num_per_call) \in Int
      BY <1>1, <3>1, CallsCount
    <3>3. seg(k).class = named[k] /\ seg(k).calls = CeilDiv(count, project.num_per_call)
      BY DEF Segment, count
    <3>4. QED
      BY <2>4, <3>2, <3>3 DEF SegmentSound
  <2> HIDE DEF seg, s
  <2>6. s \in Seq(Range(s)) /\ \A x \in Range(s) : SegmentSound(x)
    BY <2>1, <2>4, <2>5 DEF Range
  <2>7. QED
    BY <2>6 DEF s
<1>4. QED
  BY <1>2, <1>3

\* Every call belongs to a segment.
LEMMA OwnersSound ==
  ASSUME ProjectSound, NEW segments, segments \in Seq(Range(segments)), \A s \in Range(segments) :
      SegmentSound(s)
  PROVE  \E n \in Nat : DOMAIN Owners(segments) = 1 .. n
                          /\ \A k \in 1 .. n : Owners(segments)[k] \in Range(segments)
<1> DEFINE q == [s \in DOMAIN segments |-> [c \in 1 .. segments[s].calls |-> segments[s]]]
           all == FlattenSeq(q)
           most == IF Limit = None THEN Len(all) ELSE CeilDiv(Limit, project.num_per_call)
           last == Min({most, Len(all)})
           T == UNION {Range(q[i]) : i \in 1 .. Len(segments)}
<1>1. Owners(segments) = SubSeq(all, 1, last)
  BY Zenon DEF Owners
<1>2. /\ DOMAIN segments = 1 .. Len(segments) /\ Len(segments) \in Nat
      /\ \A i \in 1 .. Len(segments) : SegmentSound(segments[i])
  BY LenProperties, ElementOfSeq
<1>3. q = [i \in 1 .. Len(segments) |-> q[i]]
  BY <1>2
<1>4. ASSUME NEW i \in 1 .. Len(segments)
      PROVE  q[i] \in Seq(Range(q[i])) /\ \A x \in Range(q[i]) : x \in Range(segments)
  <2>1. q[i] = [c \in 1 .. segments[i].calls |-> segments[i]] /\ segments[i].calls \in Int
    BY <1>2 DEF SegmentSound
  <2>2. \A x \in Range(q[i]) : x = segments[i]
    BY <2>1 DEF Range
  <2>3. q[i] \in Seq(Range(q[i]))
    <3> DEFINE m == IF segments[i].calls >= 0 THEN segments[i].calls ELSE 0
    <3>1. m \in Nat /\ 1 .. segments[i].calls = 1 .. m
      BY <2>1
    <3> HIDE DEF m, q
    <3>2. q[i] = [c \in 1 .. m |-> segments[i]]
      BY <2>1, <3>1
    <3>3. \A c \in 1 .. m : q[i][c] \in Range(q[i])
      BY <3>2 DEF Range
    <3>4. q[i] = [c \in 1 .. m |-> q[i][c]]
      BY <3>2
    <3>5. QED
      BY <3>1, <3>3, <3>4
  <2>4. QED
    BY <1>2, <2>2, <2>3 DEF Range
<1> HIDE DEF q
<1>5. all \in Seq(T)
  BY <1>2, <1>3, <1>4, FlattenOf
<1>6. \A x \in T : x \in Range(segments)
  BY <1>4
<1> HIDE DEF T, all
<1>7. Len(all) \in Nat
  BY <1>5, LenProperties
<1>8. most \in Nat
  <2>1. CASE Limit = None
    BY <1>7, <2>1
  <2>2. CASE Limit # None
    <3>1. Limit \in Nat /\ project.num_per_call \in Nat \ {0}
      BY <2>2 DEF Limit, ProjectSound
    <3>2. Limit \in Int
      BY <3>1
    <3>3. CeilDiv(Limit, project.num_per_call) \in Nat
      BY <3>1, <3>2, CallsCount
    <3>4. QED
      BY <2>2, <3>3
  <2>3. QED
    BY <2>1, <2>2
<1> HIDE DEF most
<1>9. last \in Nat /\ last <= Len(all)
  BY <1>7, <1>8, LeastOfTwo
<1> HIDE DEF last
<1>10. SubSeq(all, 1, last) \in Seq(T)
  <2>1. \A i \in 1 .. last : all[i] \in T
    BY <1>5, <1>7, <1>9, LenProperties, ElementOfSeq
  <2>2. 1 \in Int /\ last \in Int
    BY <1>9
  <2>3. QED
    BY <2>1, <2>2, SubSeqProperties
<1>11. QED
  BY <1>1, <1>6, <1>10, LenProperties, ElementOfSeq

\* What a generated record must be like for the batch it comes back in.
Newcomer(x) == x.content \in Contents /\ x.class \in Labels

\* One candidate: kept if the validator takes it and it is near nothing known.
SurvivorStep(seeds, candidates, kept, n) ==
  LET c == candidates[n]
  IN IF c.content \in project.rejected \/
        ~(\A d \in Range(seeds) \union {kept[m].content : m \in DOMAIN kept} : ~Similar(c.content, d))
     THEN kept ELSE Append(kept, c)

\* The loop over the candidates, and that it can be run.
Surviving(F, seeds, candidates, m) ==
  F = [k \in 0 .. m |-> IF k = 0 THEN <<>> ELSE SurvivorStep(seeds, candidates, F[k - 1], k)]

\* The loop can be run over as many candidates as there are.
LEMMA SurvivingExists ==
  ASSUME NEW seeds, NEW candidates, NEW m \in Nat
  PROVE  \E F : Surviving(F, seeds, candidates, m)
<1> DEFINE Q == {n \in Nat : \E F : Surviving(F, seeds, candidates, n)}
           start == <<>>
           Next1(s, k) == SurvivorStep(seeds, candidates, s, k)
<1>1. 0 \in Q
  <2> DEFINE F == [k \in 0 .. 0 |-> start]
  <2>1. \A k \in 0 .. 0 : k = 0
    OBVIOUS
  <2>2. F = [k \in 0 .. 0 |-> IF k = 0 THEN start ELSE Next1(F[k - 1], k)]
    <3> HIDE DEF start, Next1
    <3>1. QED
      BY <2>1
  <2>3. Surviving(F, seeds, candidates, 0)
    BY <2>2, Zenon DEF Surviving
  <2>4. QED
    BY <2>3
<1>2. ASSUME NEW n \in Q PROVE n + 1 \in Q
  <2>1. PICK F : Surviving(F, seeds, candidates, n)
    OBVIOUS
  <2> DEFINE G == [k \in 0 .. n + 1 |-> IF k = 0 THEN start ELSE Next1(F[k - 1], k)]
  <2>2. F = [k \in 0 .. n |-> IF k = 0 THEN start ELSE Next1(F[k - 1], k)]
    BY <2>1, Zenon DEF Surviving
  <2> HIDE DEF Next1, start
  <2>3. n \in Nat
    OBVIOUS
  <2>4. \A k \in 0 .. n : k \in 0 .. n + 1 /\ G[k] = F[k]
    BY <2>2, <2>3
  <2>5. \A k \in 0 .. n + 1 : k # 0 => k - 1 \in 0 .. n
    BY <2>3
  <2>6. G = [k \in 0 .. n + 1 |-> IF k = 0 THEN start ELSE Next1(G[k - 1], k)]
    BY <2>4, <2>5
  <2>7. Surviving(G, seeds, candidates, n + 1)
    BY <2>6, Zenon DEF Surviving, Next1, start
  <2>8. QED
    BY <2>3, <2>7
<1>3. Q = Nat
  <2> HIDE DEF Q
  <2>1. Q \in SUBSET Nat
    BY DEF Q
  <2>2. QED
    BY <1>1, <1>2, <2>1, SetInduction
<1>4. QED
  BY <1>3

\* The candidates of all calls, in the order of the plans.
Offered(plans, results) ==
  FlattenSeq([k \in DOMAIN plans |->
        IF results[k] = None \/ ~IsOk(results[k]) THEN <<>>
        ELSE [n \in DOMAIN results[k].ok |->
                [content |-> results[k].ok[n], class |-> plans[k].class,
                 seeds |-> plans[k].ids, call |-> k]]])

\* What survives is among the candidates.
LEMMA SurvivorsKept ==
  ASSUME NEW segments, NEW plans, NEW results, NEW T, Offered(plans, results) \in Seq(T)
  PROVE  Survivors(segments, plans, results) \in Seq(T)
<1> DEFINE seeds == FlattenSeq([s \in DOMAIN segments |-> segments[s].texts])
           candidates == Offered(plans, results)
           F == CHOOSE f : Surviving(f, seeds, candidates, Len(candidates))
           n == Len(candidates)
<1>1. Survivors(segments, plans, results) = F[n]
  BY Zenon DEF Survivors, Surviving, SurvivorStep, Offered
<1> HIDE DEF seeds, candidates
<1>2. n \in Nat /\ \A i \in 1 .. n : candidates[i] \in T
  BY LenProperties, ElementOfSeq DEF candidates
<1> HIDE DEF n
<1>3. Surviving(F, seeds, candidates, n)
  <2>1. \E f : Surviving(f, seeds, candidates, n)
    BY <1>2, SurvivingExists
  <2>2. QED
    BY <2>1 DEF n
<1> HIDE DEF F
<1>4. F[0] = <<>> /\ \A i \in 1 .. n : F[i] = SurvivorStep(seeds, candidates, F[i - 1], i)
  BY <1>2, <1>3 DEF Surviving
<1> DEFINE Q == {i \in Nat : i <= n => F[i] \in Seq(T)}
<1>5. 0 \in Q
  <2>1. F[0] \in Seq(T)
    BY <1>4, EmptySeq
  <2>2. QED
    BY <2>1
<1>6. ASSUME NEW i \in Q PROVE i + 1 \in Q
  <2> SUFFICES ASSUME i + 1 <= n PROVE F[i + 1] \in Seq(T)
    OBVIOUS
  <2>1. i + 1 \in 1 .. n /\ i + 1 - 1 = i /\ F[i] \in Seq(T)
    BY <1>2
  <2>2. F[i + 1] = SurvivorStep(seeds, candidates, F[i], i + 1)
    BY <1>4, <2>1
  <2>3. F[i + 1] = F[i] \/ F[i + 1] = Append(F[i], candidates[i + 1])
    BY <2>2 DEF SurvivorStep
  <2>4. QED
    BY <1>2, <2>1, <2>3, AppendProperties, ZenonT(30)
<1>7. Q = Nat
  <2> HIDE DEF Q
  <2>1. Q \in SUBSET Nat
    BY DEF Q
  <2>2. QED
    BY <1>5, <1>6, <2>1, SetInduction
<1>8. QED
  BY <1>1, <1>2, <1>7

\* The outcomes of the calls that were sent, in their order.
Gathered(got, order) == [i \in DOMAIN order |-> got[order[i]]]

\* An outcome of a call, and what it came to for a plan: the answer of the call.
LEMMA AlignedSound ==
  ASSUME NEW n \in Nat, NEW plans, DOMAIN plans = 1 .. n, NEW R,
         NEW got \in [{k \in DOMAIN plans : plans[k].sent} -> R], NEW k \in 1 .. n,
         NEW order, order = InOrder(DOMAIN got)
  PROVE  Aligned(plans, Gathered(got, order))[k] \in R \union {None}
<1> DEFINE sent == {l \in 1 .. n : plans[l].sent}
           dispatched == Gathered(got, order)
           upto == {l \in 1 .. k : plans[l].sent}
<1>1. sent \in SUBSET Int /\ IsFiniteSet(sent) /\ DOMAIN got = sent
  <2>1. IsFiniteSet(1 .. n)
    BY FS_Interval
  <2>2. QED
    BY <2>1, SubsetSizes
<1> HIDE DEF sent
<1>2. order \in Seq(sent) /\ DOMAIN order = 1 .. Cardinality(sent) /\ Cardinality(sent) \in Nat
  BY <1>1, OrderedInts
<1>3. \A i \in DOMAIN order : got[order[i]] \in R
  BY <1>1, <1>2, ElementOfSeq, LenProperties DEF sent
<1>4. CASE ~ plans[k].sent
  BY <1>4 DEF Aligned
<1>5. CASE plans[k].sent
  <2>1. upto \in SUBSET sent /\ k \in upto
    BY <1>5 DEF sent
  <2> HIDE DEF upto
  <2>2. Cardinality(upto) \in DOMAIN order
    <3>1. Cardinality(upto) \in Nat /\ Cardinality(upto) <= Cardinality(sent) /\ Cardinality(upto) # 0
      <4>1. IsFiniteSet(sent)
        BY <1>1
      <4>2. /\ Cardinality(upto) \in Nat /\ Cardinality(upto) <= Cardinality(sent)
            /\ (Cardinality(upto) = 0 <=> upto = {})
        BY <4>1, <2>1, SubsetSizes
      <4>3. QED
        BY <4>2, <2>1
    <3>2. QED
      BY <1>2, <3>1
  <2> HIDE DEF dispatched
  <2>3. Aligned(plans, dispatched)[k] = dispatched[Cardinality(upto)]
    BY <1>5 DEF Aligned, upto
  <2>4. dispatched[Cardinality(upto)] = got[order[Cardinality(upto)]]
    BY <2>2 DEF dispatched, Gathered
  <2>5. QED
    BY <1>3, <2>2, <2>3, <2>4 DEF dispatched
<1>6. QED
  BY <1>4, <1>5

\* Where a candidate is from: an answer of its call, for the class and the seeds of the plan.
Traced(x, plans, results) ==
  LET k == x.call
  IN /\ k \in DOMAIN plans /\ results[k] # None /\ IsOk(results[k]) /\ x.content \in Range(results[k].ok)
     /\ x.class = plans[k].class /\ x.seeds = plans[k].ids

\* Every candidate is content under a label, from a call.
LEMMA OfferedSound ==
  ASSUME ProjectSound, NEW n \in Nat, NEW plans, DOMAIN plans = 1 .. n, NEW results,
         \A k \in 1 .. n : /\ plans[k].class \in Labels
                           /\ results[k] \in Got(project.samples_of, project.generate_failures)
                               \union {None}
  PROVE  \E T : Offered(plans, results) \in Seq(T) /\ \A x \in T : Newcomer(x) /\ Traced(x, plans, results)
<1> DEFINE from(k) == [i \in DOMAIN results[k].ok |->
                [content |-> results[k].ok[i], class |-> plans[k].class,
                 seeds |-> plans[k].ids, call |-> k]]
           q == [k \in DOMAIN plans |-> IF results[k] = None \/ ~IsOk(results[k]) THEN <<>>
               ELSE from(k)]
           T == UNION {Range(q[i]) : i \in 1 .. n}
<1>1. Offered(plans, results) = FlattenSeq(q)
  BY Zenon DEF Offered
<1>2. q = [i \in 1 .. n |-> q[i]]
  OBVIOUS
<1>3. ASSUME NEW k \in 1 .. n
      PROVE  q[k] \in Seq(Range(q[k])) /\ \A x \in Range(q[k]) : Newcomer(x) /\ Traced(x, plans, results)
  <2>1. CASE results[k] = None \/ ~IsOk(results[k])
    <3>1. q[k] = <<>>
      BY <2>1
    <3>2. QED
      BY <3>1 DEF Range
  <2>2. CASE results[k] # None /\ IsOk(results[k])
    <3>1. q[k] = from(k)
      BY <2>2
    <3>2. results[k].ok \in project.samples_of
      BY <2>2 DEF Got, IsOk
    <3>3. results[k].ok \in Seq(Contents)
      BY <3>2 DEF ProjectSound
    <3> DEFINE a == results[k].ok
               s == q[k]
    <3>4. s = [i \in DOMAIN a |-> [content |-> a[i], class |-> plans[k].class,
              seeds |-> plans[k].ids, call |-> k]]
      BY <3>1
    <3>5. Len(a) \in Nat /\ DOMAIN a = 1 .. Len(a) /\ \A i \in 1 .. Len(a) : a[i] \in Contents
      BY <3>3, LenProperties, ElementOfSeq
    <3> HIDE DEF a, s
    <3>6. \A i \in 1 .. Len(a) : Newcomer(s[i]) /\ Traced(s[i], plans, results)
      <4>1. \A i \in 1 .. Len(a) : a[i] \in Range(a)
        BY <3>5 DEF Range
      <4>2. ASSUME NEW i \in 1 .. Len(a) PROVE Newcomer(s[i]) /\ Traced(s[i], plans, results)
        <5>1. s[i].content = a[i] /\ s[i].class = plans[k].class /\ s[i].seeds = plans[k].ids /\ s[i].call = k
          BY <3>4, <3>5
        <5>2. QED
          BY <2>2, <3>5, <4>1, <5>1 DEF Newcomer, Traced, a
      <4>3. QED
        BY <4>2
    <3>7. s \in Seq(Range(s)) /\ \A x \in Range(s) : Newcomer(x) /\ Traced(x, plans, results)
      <4>1. DOMAIN s = 1 .. Len(a) /\ s = [i \in 1 .. Len(a) |-> s[i]]
        BY <3>4, <3>5
      <4>2. \A i \in 1 .. Len(a) : s[i] \in Range(s)
        BY <4>1 DEF Range
      <4>3. s \in Seq(Range(s))
        BY <3>5, <4>1, <4>2
      <4>4. QED
        BY <3>6, <4>1, <4>3 DEF Range
    <3>8. QED
      BY <3>7 DEF s
  <2>3. QED
    BY <2>1, <2>2
<1> HIDE DEF q
<1>4. FlattenSeq(q) \in Seq(T)
  BY <1>2, <1>3, FlattenOf
<1>5. \A x \in T : Newcomer(x) /\ Traced(x, plans, results)
  BY <1>3
<1>6. QED
  BY <1>1, <1>4, <1>5

\* Generation preserves the invariant.
LEMMA GenerateKeeps ==
  ASSUME ChainInv, Heirs' = Heirs, GenerateWave, UNCHANGED <<verifyVars, streamVars>> PROVE ChainInv'
<1>1. /\ stage = "generate" /\ stage' \in {"done", "annotate"} /\ UNCHANGED <<project, frames, turn,
          batch>>
  BY DEF GenerateWave, classifyVars, verifyVars, streamVars
<1>2. turn = "idle" /\ project # Off /\ Grounds /\ ProjectSound /\ BatchSound(batch) /\ FreshSound
  BY <1>1 DEF ChainInv, Grounds
<1>3. SameShape(batch, batch')
  BY <1>1 DEF SameShape
<1>4. CASE UNCHANGED fresh
  <2>1. FreshSound'
    BY <1>1, <1>2, <1>4, FreshStays
  <2>2. QED
    BY <1>1, <1>2, <1>3, <2>1, QuietKeeps
<1>5. CASE ~ UNCHANGED fresh
  <2>1. Spawn(Segments, Owners(Segments))
    BY <1>5 DEF GenerateWave, generateVars
  <2> DEFINE segments == Segments
             owners == Owners(segments)
  <2>2. PICK n \in Nat : DOMAIN owners = 1 .. n /\ \A k \in 1 .. n : owners[k].class \in Labels
    <3>1. segments \in Seq(Range(segments)) /\ \A s \in Range(segments) : SegmentSound(s)
      BY <1>2, SegmentsAre
    <3> HIDE DEF segments
    <3>2. QED
      BY <1>2, <3>1, OwnersSound DEF SegmentSound
  <2> HIDE DEF segments, owners
  <2>3. Spawn(segments, owners)
    BY <2>1 DEF segments, owners
  <2> DEFINE R == Got(project.samples_of, project.generate_failures)
  <2>4. PICK draws \in {d \in [DOMAIN owners -> UNION {Draws(owners[k]) : k \in DOMAIN owners}] :
                 \A k \in DOMAIN owners : d[k] \in Draws(owners[k])},
     rooms \in [DOMAIN owners -> project.rooms] :
    LET plans == [k \in DOMAIN owners |-> Fitted(owners[k], draws[k], rooms[k])]
    IN \E got \in [{k \in DOMAIN plans : plans[k].sent} -> R] :
         LET order == InOrder(DOMAIN got)
             results == Aligned(plans, [m \in DOMAIN order |-> got[order[m]]])
             kept == Survivors(segments, plans, results)
         IN /\ fresh' = IF Limit = None THEN kept ELSE SubSeq(kept, 1, Min({Limit, Len(kept)}))
            /\ spawned' = [segments |-> segments, plans |-> plans, got |-> got]
    BY <2>3, Zenon DEF Spawn
  <2> DEFINE plans == [k \in DOMAIN owners |-> Fitted(owners[k], draws[k], rooms[k])]
  <2>5. PICK got \in [{k \in DOMAIN plans : plans[k].sent} -> R] :
         LET order == InOrder(DOMAIN got)
             results == Aligned(plans, [m \in DOMAIN order |-> got[order[m]]])
             kept == Survivors(segments, plans, results)
         IN /\ fresh' = IF Limit = None THEN kept ELSE SubSeq(kept, 1, Min({Limit, Len(kept)}))
            /\ spawned' = [segments |-> segments, plans |-> plans, got |-> got]
    BY <2>4, Zenon
  <2> DEFINE order == InOrder(DOMAIN got)
             results == Aligned(plans, [i \in DOMAIN order |-> got[order[i]]])
             kept == Survivors(segments, plans, results)
             last == Min({Limit, Len(kept)})
  <2>6. fresh' = IF Limit = None THEN kept ELSE SubSeq(kept, 1, last)
    BY <2>5, Zenon
  <2>7. DOMAIN plans = 1 .. n /\ \A k \in 1 .. n : plans[k].class \in Labels
    BY <2>2 DEF Fitted
  <2> HIDE DEF plans, R, order
  <2>8. ASSUME NEW k \in 1 .. n PROVE results[k] \in R \union {None}
    <3>1. results = Aligned(plans, Gathered(got, order))
      BY Zenon DEF Gathered
    <3> HIDE DEF results
    <3>2. Aligned(plans, Gathered(got, order))[k] \in R \union {None}
      BY <2>7, AlignedSound DEF order
    <3>3. QED
      BY <3>1, <3>2
  <2> HIDE DEF results
  <2>9. PICK T : kept \in Seq(T) /\ \A x \in T : Newcomer(x)
    <3>1. PICK T : Offered(plans, results) \in Seq(T) /\ \A x \in T : Newcomer(x)
      BY <1>2, <2>7, <2>8, OfferedSound DEF R
    <3>2. QED
      BY <3>1, SurvivorsKept
  <2> HIDE DEF kept
  <2>10. fresh' \in Seq(T)
    <3>1. CASE Limit = None
      BY <2>6, <2>9, <3>1
    <3>2. CASE Limit # None
      <4>1. Limit \in Nat /\ Len(kept) \in Nat
        BY <1>2, <2>9, <3>2, LenProperties DEF Limit, ProjectSound
      <4>2. last \in Nat /\ last <= Len(kept)
        BY <4>1, LeastOfTwo
      <4> HIDE DEF last
      <4>3. \A i \in 1 .. last : kept[i] \in T
        BY <2>9, <4>1, <4>2, LenProperties, ElementOfSeq
      <4>4. 1 \in Int /\ last \in Int
        BY <4>2
      <4>5. SubSeq(kept, 1, last) \in Seq(T)
        BY <4>3, <4>4, SubSeqProperties
      <4>6. QED
        BY <2>6, <3>2, <4>5
    <3>3. QED
      BY <3>1, <3>2
  <2>11. FreshSound'
    <3>1. DOMAIN fresh' = 1 .. Len(fresh') /\ Len(fresh') \in Nat /\ \A k \in DOMAIN fresh' :
              Newcomer(fresh'[k])
      BY <2>9, <2>10, LenProperties, ElementOfSeq
    <3>2. Labels' = Labels
      BY <1>1 DEF Labels
    <3>3. QED
      BY <3>1, <3>2 DEF FreshSound, Newcomer
  <2>12. QED
    BY <1>1, <1>2, <1>3, <2>11, QuietKeeps
<1>6. QED
  BY <1>4, <1>5

-------------------------------------------------------------------------------
(* What is generated                                                       *)

\* What is joined from some sequences has all the elements of each of them.
LEMMA FlattenHas ==
  ASSUME NEW n \in Nat, NEW q, q = [i \in 1 .. n |-> q[i]], \A i \in 1 .. n : q[i] \in Seq(Range(q[i])),
         NEW k \in 1 .. n
  PROVE  Range(q[k]) \subseteq Range(FlattenSeq(q))
<1> DEFINE T == UNION {Range(q[i]) : i \in 1 .. n}
           f == CHOOSE f : Flattening(f, q, n)
<1>1. ASSUME NEW i \in 1 .. n PROVE q[i] \in Seq(T)
  <2>1. Range(q[i]) \subseteq T
    OBVIOUS
  <2> HIDE DEF T
  <2>2. QED
    BY <2>1, SeqMonotonic
<1> HIDE DEF T
<1>2. Len(q) = n /\ n # 0
  <2>1. q \in Seq(Seq(T))
    BY <1>1
  <2>2. DOMAIN q = 1 .. n
    OBVIOUS
  <2>3. QED
    BY <2>1, <2>2, LenProperties
<1>3. FlattenSeq(q) = f[n]
  BY <1>2 DEF FlattenSeq, Flattening
<1>4. Flattening(f, q, n)
  BY FlatteningExists
<1> HIDE DEF f
<1>5. \A i \in 1 .. n : f[i] = IF i = 1 THEN q[i] ELSE f[i - 1] \o q[i]
  BY <1>4, Zenon DEF Flattening
<1> DEFINE Has(i) == f[i] \in Seq(T) /\ \A j \in 1 .. i : Range(q[j]) \subseteq Range(f[i])
           Q == {i \in Nat : i \in 1 .. n => Has(i)}
<1>6. 0 \in Q
  OBVIOUS
<1>7. ASSUME NEW i \in Q PROVE i + 1 \in Q
  <2> SUFFICES ASSUME i + 1 \in 1 .. n PROVE Has(i + 1)
    OBVIOUS
  <2>1. q[i + 1] \in Seq(T)
    BY <1>1
  <2>2. CASE i = 0
    <3>1. f[1] = q[1]
      BY <1>5, <2>2
    <3>2. \A j \in 1 .. 1 : j = 1
      OBVIOUS
    <3>3. QED
      BY <2>1, <2>2, <3>1, <3>2
  <2>3. CASE i # 0
    <3>1. i \in 1 .. n /\ i + 1 # 1 /\ i + 1 - 1 = i
      BY <2>3
    <3>2. Has(i)
      BY <3>1
    <3>3. f[i + 1] = f[i] \o q[i + 1]
      <4>1. f[i + 1] = IF i + 1 = 1 THEN q[i + 1] ELSE f[i + 1 - 1] \o q[i + 1]
        BY <1>5
      <4>2. QED
        BY <4>1, <3>1
    <3>4. f[i + 1] \in Seq(T)
      BY <2>1, <3>2, <3>3, ConcatProperties
    <3>5. Range(f[i + 1]) = Range(f[i]) \union Range(q[i + 1])
      BY <2>1, <3>2, <3>3, RangeConcatenation
    <3>6. \A j \in 1 .. i + 1 : j \in 1 .. i \/ j = i + 1
      BY <3>1
    <3>7. QED
      BY <3>2, <3>4, <3>5, <3>6
  <2>4. QED
    BY <2>2, <2>3
<1>8. Q = Nat
  <2> HIDE DEF Q
  <2>1. Q \in SUBSET Nat
    BY DEF Q
  <2>2. QED
    BY <1>6, <1>7, <2>1, SetInduction
<1>9. Has(n)
  <2>1. n \in Q
    BY <1>8
  <2> HIDE DEF Has
  <2>2. QED
    BY <1>2, <2>1
<1>10. QED
  BY <1>3, <1>9

\* In the order of numbers, the place of a number is how many there are up to it.
LEMMA PlaceOf ==
  ASSUME NEW S \in SUBSET Int, IsFiniteSet(S), NEW s, s = InOrder(S), NEW x \in S, NEW U,
         U = {y \in S : y <= x}
  PROVE  Cardinality(U) \in 1 .. Cardinality(S) /\ s[Cardinality(U)] = x
<1> DEFINE n == Cardinality(S)
<1>1. /\ s \in Seq(S) /\ Len(s) = n /\ DOMAIN s = 1 .. n /\ n \in Nat
      /\ \A i, j \in 1 .. n : i < j => s[i] < s[j]
      /\ \A y \in S : \E i \in 1 .. n : s[i] = y
  <2>1. \A z : z = InOrder(S) =>
      /\ z \in Seq(S) /\ Len(z) = n /\ DOMAIN z = 1 .. n /\ n \in Nat
      /\ \A i, j \in 1 .. n : i < j => z[i] < z[j]
      /\ \A y \in S : \E i \in 1 .. n : z[i] = y
    BY OrderedInts
  <2>2. QED
    BY <2>1
<1> HIDE DEF n
<1>2. PICK k \in 1 .. n : s[k] = x
  BY <1>1
<1>3. \A i \in 1 .. n : s[i] \in S /\ s[i] \in Int
  BY <1>1, ElementOfSeq
<1> DEFINE t == [i \in 1 .. k |-> s[i]]
<1>4. k \in Nat /\ U \in SUBSET Int
  <2>1. k \in Nat
    BY <1>1
  <2>2. U \in SUBSET S
    OBVIOUS
  <2>3. QED
    BY <2>1, <2>2
<1>5. \A i \in 1 .. k : i \in 1 .. n /\ (i # k => i < k)
  BY <1>1
<1>6. t \in [1 .. k -> U]
  <2>1. \A i \in 1 .. k : s[i] \in S /\ s[i] <= x
    BY <1>1, <1>2, <1>3, <1>5
  <2>2. QED
    BY <2>1
<1>7. \A i, j \in 1 .. k : i < j => t[i] < t[j]
  BY <1>1, <1>5
<1>8. \A y \in U : \E i \in 1 .. k : t[i] = y
  <2> SUFFICES ASSUME NEW y \in U PROVE \E i \in 1 .. k : s[i] = y
    OBVIOUS
  <2>1. PICK i \in 1 .. n : s[i] = y
    BY <1>1
  <2>2. ~ (k < i)
    BY <1>1, <1>2, <1>3, <2>1
  <2>3. QED
    BY <2>1, <2>2
<1> HIDE DEF t
<1>9. Cardinality(U) = k
  BY <1>4, <1>6, <1>7, <1>8, OneOrder
<1>10. QED
  BY <1>2, <1>9 DEF n

\* A plan that was sent comes to the outcome of its own call, any other to none.
LEMMA AlignedIs ==
  ASSUME NEW n \in Nat, NEW plans, DOMAIN plans = 1 .. n,
         NEW got, DOMAIN got = {k \in DOMAIN plans : plans[k].sent}, NEW k \in 1 .. n,
         NEW order, order = InOrder(DOMAIN got)
  PROVE  Aligned(plans, Gathered(got, order))[k] = IF k \in DOMAIN got THEN got[k] ELSE None
<1> DEFINE sent == {l \in 1 .. n : plans[l].sent}
           dispatched == Gathered(got, order)
           upto == {l \in 1 .. k : plans[l].sent}
<1>1. sent \in SUBSET Int /\ IsFiniteSet(sent) /\ DOMAIN got = sent
  <2>1. IsFiniteSet(1 .. n)
    BY FS_Interval
  <2>2. QED
    BY <2>1, SubsetSizes
<1>2. k \in DOMAIN got <=> plans[k].sent
  OBVIOUS
<1>3. CASE ~ plans[k].sent
  BY <1>2, <1>3 DEF Aligned
<1>4. CASE plans[k].sent
  <2>1. upto = {y \in sent : y <= k} /\ k \in sent
    BY <1>4
  <2> HIDE DEF upto, sent
  <2>2. Cardinality(upto) \in 1 .. Cardinality(sent) /\ order[Cardinality(upto)] = k
    BY <1>1, <2>1, PlaceOf
  <2>3. DOMAIN order = 1 .. Cardinality(sent)
    BY <1>1, OrderedInts
  <2> HIDE DEF dispatched
  <2>4. Aligned(plans, dispatched)[k] = dispatched[Cardinality(upto)]
    BY <1>4 DEF Aligned, upto
  <2>5. dispatched[Cardinality(upto)] = got[k]
    BY <2>2, <2>3 DEF dispatched, Gathered
  <2>6. QED
    BY <1>2, <1>4, <2>4, <2>5 DEF dispatched
<1>5. QED
  BY <1>3, <1>4

\* What survived: near nothing known and near no other, the later to the earlier.
ContentsOf(kept) == {kept[k].content : k \in DOMAIN kept}
NearNothing(kept, known) ==
  \A k \in DOMAIN kept :
    /\ \A d \in known : ~Similar(kept[k].content, d)
    /\ \A l \in 1 .. k - 1 : ~Similar(kept[k].content, kept[l].content)
\* Each of the first n candidates was kept, or rejected, or is near something.
Accounted(kept, known, candidates, n) ==
  \A j \in 1 .. n :
    \/ candidates[j].content \in project.rejected \union ContentsOf(kept)
    \/ \E d \in known \union ContentsOf(kept) : Similar(candidates[j].content, d)

\* A candidate that is near nothing joins those that are near nothing.
LEMMA OneMore ==
  ASSUME NEW T, NEW kept \in Seq(T), NEW c \in T, NEW more, more = Append(kept, c)
  PROVE  /\ DOMAIN more = 1 .. Len(kept) + 1 /\ DOMAIN kept = 1 .. Len(kept) /\ Len(kept) \in Nat
         /\ \A k \in DOMAIN kept : more[k] = kept[k]
         /\ more[Len(kept) + 1] = c /\ ContentsOf(more) = ContentsOf(kept) \union {c.content}
<1>1. /\ more \in Seq(T) /\ Len(more) = Len(kept) + 1 /\ \A i \in 1 .. Len(kept) : more[i] = kept[i]
      /\ more[Len(kept) + 1] = c
  BY AppendProperties
<1>2. DOMAIN more = 1 .. Len(more) /\ DOMAIN kept = 1 .. Len(kept) /\ Len(kept) \in Nat
  BY <1>1, LenProperties
<1>3. ContentsOf(more) = ContentsOf(kept) \union {c.content}
  <2>1. \A k \in DOMAIN more : k \in DOMAIN kept \/ k = Len(kept) + 1
    BY <1>1, <1>2
  <2>2. \A k \in DOMAIN kept : k \in DOMAIN more
    BY <1>1, <1>2
  <2>3. Len(kept) + 1 \in DOMAIN more
    BY <1>1, <1>2
  <2>4. QED
    BY <1>1, <1>2, <2>1, <2>2, <2>3 DEF ContentsOf
<1>4. QED
  BY <1>1, <1>2, <1>3

\* One candidate more is accounted for, and what is kept is near nothing still.
LEMMA SurvivorStepSound ==
  ASSUME NEW T, NEW seeds, NEW candidates, NEW kept \in Seq(T), NEW n \in Nat, candidates[n + 1] \in T,
         NearNothing(kept, Range(seeds)), Accounted(kept, Range(seeds), candidates, n),
         NEW more, more = SurvivorStep(seeds, candidates, kept, n + 1)
  PROVE  NearNothing(more, Range(seeds)) /\ Accounted(more, Range(seeds), candidates, n + 1)
<1> DEFINE c == candidates[n + 1]
           known == Range(seeds)
<1>1. \A j \in 1 .. n + 1 : j \in 1 .. n \/ j = n + 1
  OBVIOUS
<1>2. known \union {kept[m].content : m \in DOMAIN kept} = known \union ContentsOf(kept)
  BY DEF ContentsOf
<1>3. CASE c.content \in project.rejected \/ ~(\A d \in known \union ContentsOf(kept) : ~Similar(c.content, d))
  <2>1. more = kept
    BY <1>2, <1>3 DEF SurvivorStep
  <2>2. Accounted(more, known, candidates, n + 1)
    <3> HIDE DEF known
    <3>1. \A j \in 1 .. n : \/ candidates[j].content \in project.rejected \union ContentsOf(kept)
                            \/ \E d \in known \union ContentsOf(kept) : Similar(candidates[j].content, d)
      BY DEF Accounted, known
    <3>2. \/ c.content \in project.rejected \union ContentsOf(kept)
          \/ \E d \in known \union ContentsOf(kept) : Similar(c.content, d)
      BY <1>3
    <3>3. QED
      BY <1>1, <2>1, <3>1, <3>2 DEF Accounted
  <2>3. QED
    BY <2>1, <2>2
<1>4. CASE ~ (c.content \in project.rejected \/ ~(\A d \in known \union ContentsOf(kept) : ~Similar(c.content, d)))
  <2>1. more = Append(kept, c)
    BY <1>2, <1>4 DEF SurvivorStep
  <2> HIDE DEF known
  <2>2. /\ DOMAIN more = 1 .. Len(kept) + 1 /\ DOMAIN kept = 1 .. Len(kept) /\ Len(kept) \in Nat
        /\ \A k \in DOMAIN kept : more[k] = kept[k]
        /\ more[Len(kept) + 1] = c /\ ContentsOf(more) = ContentsOf(kept) \union {c.content}
    BY <2>1, OneMore
  <2>3. Accounted(more, known, candidates, n + 1)
    <3>1. \A j \in 1 .. n : \/ candidates[j].content \in project.rejected \union ContentsOf(kept)
                            \/ \E d \in known \union ContentsOf(kept) : Similar(candidates[j].content, d)
      BY DEF Accounted, known
    <3>2. QED
      BY <1>1, <2>2, <3>1 DEF Accounted
  <2>4. NearNothing(more, known)
    <3>1. ASSUME NEW k \in DOMAIN more PROVE
        /\ \A d \in known : ~Similar(more[k].content, d)
        /\ \A l \in 1 .. k - 1 : ~Similar(more[k].content, more[l].content)
      <4>1. CASE k \in DOMAIN kept
        <5>1. \A l \in 1 .. k - 1 : l \in DOMAIN kept
          BY <2>2, <4>1
        <5>2. /\ \A d \in known : ~Similar(kept[k].content, d)
              /\ \A l \in 1 .. k - 1 : ~Similar(kept[k].content, kept[l].content)
          BY <4>1 DEF NearNothing, known
        <5>3. QED
          BY <2>2, <4>1, <5>1, <5>2
      <4>2. CASE k = Len(kept) + 1
        <5>1. \A l \in 1 .. k - 1 : l \in DOMAIN kept /\ kept[l].content \in ContentsOf(kept)
          BY <2>2, <4>2 DEF ContentsOf
        <5>2. \A d \in known \union ContentsOf(kept) : ~Similar(c.content, d)
          BY <1>4
        <5> HIDE DEF c
        <5>3. QED
          BY <2>2, <4>2, <5>1, <5>2
      <4>3. QED
        BY <2>2, <4>1, <4>2
    <3>2. QED
      BY <3>1 DEF NearNothing
  <2>5. QED
    BY <2>3, <2>4 DEF known
<1>5. QED
  BY <1>3, <1>4

\* What survives is near nothing, and every candidate is accounted for.
LEMMA SurvivorsSound ==
  ASSUME NEW segments, NEW plans, NEW results, NEW T, Offered(plans, results) \in Seq(T),
         NEW seeds, seeds = FlattenSeq([s \in DOMAIN segments |-> segments[s].texts]),
         NEW kept, kept = Survivors(segments, plans, results)
  PROVE  /\ NearNothing(kept, Range(seeds))
         /\ Accounted(kept, Range(seeds), Offered(plans, results), Len(Offered(plans, results)))
<1> DEFINE candidates == Offered(plans, results)
           n == Len(candidates)
           F == CHOOSE f : Surviving(f, seeds, candidates, n)
<1>1. Survivors(segments, plans, results) = F[n]
  BY Zenon DEF Survivors, Surviving, SurvivorStep, Offered
<1> HIDE DEF candidates
<1>2. n \in Nat /\ \A i \in 1 .. n : candidates[i] \in T
  BY LenProperties, ElementOfSeq DEF candidates
<1> HIDE DEF n
<1>3. Surviving(F, seeds, candidates, n)
  <2>1. \E f : Surviving(f, seeds, candidates, n)
    BY <1>2, SurvivingExists
  <2>2. QED
    BY <2>1 DEF n
<1> HIDE DEF F
<1>4. F[0] = <<>> /\ \A i \in 1 .. n : F[i] = SurvivorStep(seeds, candidates, F[i - 1], i)
  BY <1>2, <1>3 DEF Surviving
<1> DEFINE P(i) == /\ F[i] \in Seq(T) /\ NearNothing(F[i], Range(seeds))
                   /\ Accounted(F[i], Range(seeds), candidates, i)
           Q == {i \in Nat : i <= n => P(i)}
<1>5. 0 \in Q
  <2>1. F[0] \in Seq(T) /\ DOMAIN F[0] = {}
    <3>1. DOMAIN F[0] = 1 .. 0
      BY <1>4, NoPlaces
    <3>2. QED
      BY <1>4, <3>1, EmptySeq
  <2>2. P(0)
    BY <2>1 DEF NearNothing, Accounted
  <2> HIDE DEF P
  <2>3. QED
    BY <2>2
<1>6. ASSUME NEW i \in Q PROVE i + 1 \in Q
  <2> SUFFICES ASSUME i + 1 <= n PROVE P(i + 1)
    OBVIOUS
  <2>1. i + 1 \in 1 .. n /\ i + 1 - 1 = i /\ P(i) /\ i \in Nat
    BY <1>2
  <2>2. F[i + 1] = SurvivorStep(seeds, candidates, F[i], i + 1)
    BY <1>4, <2>1
  <2>3. F[i + 1] \in Seq(T)
    <3>1. F[i + 1] = F[i] \/ F[i + 1] = Append(F[i], candidates[i + 1])
      BY <2>2 DEF SurvivorStep
    <3>2. QED
      BY <1>2, <2>1, <3>1, AppendProperties
  <2>4. candidates[i + 1] \in T
    BY <1>2, <2>1
  <2>5. NearNothing(F[i + 1], Range(seeds)) /\ Accounted(F[i + 1], Range(seeds), candidates, i + 1)
    BY <2>1, <2>2, <2>4, SurvivorStepSound
  <2>6. QED
    BY <2>3, <2>5
<1>7. Q = Nat
  <2> HIDE DEF Q
  <2>1. Q \in SUBSET Nat
    BY DEF Q
  <2>2. QED
    BY <1>5, <1>6, <2>1, SetInduction
<1>8. P(n)
  <2>1. n \in Q
    BY <1>2, <1>7
  <2> HIDE DEF P
  <2>2. QED
    BY <1>2, <2>1
<1>9. QED
  BY <1>1, <1>8 DEF candidates, n

\* The seeds of a segment: texts, and the records they are from if they are from any.
SegmentSeeds(s) == s.texts \in Seq(Range(s.texts)) /\ (s.ids = <<>> \/ DOMAIN s.ids = DOMAIN s.texts)

\* No two segments are of one class.
LEMMA SegmentsDiffer ==
  ASSUME ProjectSound, BatchSound(batch)
  PROVE  /\ \A s \in Range(Segments) : SegmentSeeds(s)
         /\ \A s, t \in Range(Segments) : s.class = t.class => s = t
<1>1. CASE project.generate = "alone"
  <2> DEFINE asked == IF project.examples # <<>> THEN Len(project.examples) * project.num_per_record
               ELSE project.standalone
             one == Segment(None, <<>>, project.examples, CeilDiv(asked, project.num_per_call))
  <2>1. Segments = <<one>>
    BY <1>1 DEF Segments, OneSegment
  <2>2. one.texts = project.examples /\ one.ids = <<>>
    BY DEF Segment
  <2>3. SegmentSeeds(one)
    <3>1. project.examples \in Seq(Contents)
      BY DEF ProjectSound
    <3>2. project.examples \in Seq(Range(project.examples))
      BY <3>1, SeqOfRange
    <3> HIDE DEF one
    <3>3. QED
      BY <2>2, <3>2 DEF SegmentSeeds
  <2> HIDE DEF one
  <2>4. Range(Segments) = {one}
    BY <2>1 DEF Range
  <2>5. QED
    BY <2>3, <2>4
<1>2. CASE project.generate # "alone"
  <2> DEFINE all == <<None>> \o project.classes
             at == {n \in DOMAIN all : all[n] \in Pools /\ SeedPool(all[n]) # <<>>}
             named == Picked(all, at)
             seg(k) == LET pool == SeedPool(named[k])
                           ids == [j \in DOMAIN pool |-> batch[pool[j]].record]
                       IN Segment(named[k], ids, [j \in DOMAIN ids |-> project.contents[ids[j]]],
                            CeilDiv(Len(pool) * project.num_per_record, project.num_per_call))
             s == Segments
  <2>1. s = [k \in DOMAIN named |-> seg(k)]
    <3>1. s = ClassSegments
      BY <1>2, Zenon DEF Segments
    <3>2. QED
      BY <3>1, Zenon DEF ClassSegments
  <2>2. all \in Seq(Labels) /\ \A i, j \in DOMAIN all : all[i] = all[j] => i = j
    <3> DEFINE C == project.classes
    <3>1. C \in Seq(Range(C)) /\ IsInjective(C) /\ None \notin Range(C) /\ Len(C) \in Nat
          /\ DOMAIN C = 1 .. Len(C) /\ <<None>> \in Seq({None}) /\ Len(<<None>>) = 1
      <4>1. C \in Seq(STRING) /\ IsInjective(C) /\ None \notin Range(C)
        BY DEF ProjectSound
      <4>2. QED
        BY <4>1, SeqOfRange, LenProperties
    <3>2. C \in Seq(Labels) /\ <<None>> \in Seq(Labels) /\ Labels = Range(C) \union {None}
      BY <3>1, SeqMonotonic DEF Labels
    <3> HIDE DEF C
    <3>3. /\ all \in Seq(Labels) /\ Len(all) = 1 + Len(C)
          /\ \A i \in 1 .. 1 + Len(C) : all[i] = IF i <= 1 THEN <<None>>[i] ELSE C[i - 1]
      BY <3>1, <3>2, ConcatProperties DEF C
    <3>4. DOMAIN all = 1 .. 1 + Len(C)
      BY <3>3, LenProperties
    <3> HIDE DEF all
    <3>5. all[1] = None /\ \A i \in 2 .. 1 + Len(C) : i - 1 \in DOMAIN C /\ all[i] = C[i - 1] /\ all[i] # None
      <4>1. \A i \in DOMAIN C : C[i] # None
        BY <3>1 DEF Range
      <4>2. QED
        BY <3>1, <3>3, <4>1
    <3>6. ASSUME NEW i \in DOMAIN all, NEW j \in DOMAIN all, all[i] = all[j] PROVE i = j
      <4>1. i \in 1 .. 1 + Len(C) /\ j \in 1 .. 1 + Len(C)
        BY <3>4
      <4>2. CASE i = 1 \/ j = 1
        BY <3>1, <3>5, <3>6, <4>1, <4>2
      <4>3. CASE i # 1 /\ j # 1
        <5>1. i \in 2 .. 1 + Len(C) /\ j \in 2 .. 1 + Len(C)
          BY <3>1, <4>1, <4>3
        <5>2. C[i - 1] = C[j - 1] /\ i - 1 \in DOMAIN C /\ j - 1 \in DOMAIN C
          BY <3>5, <3>6, <5>1
        <5>3. i - 1 = j - 1
          BY <3>1, <5>2 DEF IsInjective
        <5>4. QED
          BY <3>1, <5>1, <5>3
      <4>4. QED
        BY <4>2, <4>3
    <3>7. QED
      BY <3>3, <3>6
  <2>3. \E m \in Nat : DOMAIN named = 1 .. m /\ \A k, l \in 1 .. m : named[k] = named[l] => k = l
    <3> DEFINE spot == InOrder(at)
    <3>1. at \in SUBSET DOMAIN all
      OBVIOUS
    <3> HIDE DEF all, at
    <3>2. PickedAs(Labels, all, at, spot)
      BY <2>2, <3>1, PickedElements
    <3> HIDE DEF spot, named
    <3>3. /\ DOMAIN named = 1 .. Len(spot) /\ Len(spot) \in Nat
          /\ \A k \in 1 .. Len(spot) : spot[k] \in DOMAIN all /\ named[k] = all[spot[k]]
          /\ \A k, l \in 1 .. Len(spot) : k < l => spot[k] < spot[l]
      BY <3>1, <3>2 DEF PickedAs, named
    <3>4. \A k \in 1 .. Len(spot) : spot[k] \in Int
      BY <2>2, <3>3, LenProperties
    <3>5. \A k, l \in 1 .. Len(spot) : spot[k] = spot[l] => k = l
      BY <3>3, <3>4
    <3>6. QED
      BY <2>2, <3>3, <3>5
  <2> HIDE DEF named
  <2>4. PICK m \in Nat : DOMAIN named = 1 .. m /\ \A k, l \in 1 .. m : named[k] = named[l] => k = l
    BY <2>3
  <2>5. \A k : seg(k).class = named[k]
    BY DEF Segment
  <2>6. ASSUME NEW k \in 1 .. m PROVE SegmentSeeds(seg(k))
    <3> DEFINE pool == SeedPool(named[k])
               ids == [j \in DOMAIN pool |-> batch[pool[j]].record]
               texts == [j \in DOMAIN ids |-> project.contents[ids[j]]]
    <3>1. Len(pool) \in Nat /\ DOMAIN pool = 1 .. Len(pool)
      BY SeedPoolSound
    <3>2. seg(k).ids = ids /\ seg(k).texts = texts
      BY DEF Segment
    <3> HIDE DEF pool
    <3>3. DOMAIN ids = 1 .. Len(pool)
      BY <3>1
    <3> HIDE DEF ids
    <3>4. texts = [j \in 1 .. Len(pool) |-> texts[j]] /\ DOMAIN texts = 1 .. Len(pool)
          /\ \A j \in 1 .. Len(pool) : texts[j] \in Range(texts)
      BY <3>3 DEF Range
    <3> HIDE DEF texts
    <3>5. texts \in Seq(Range(texts))
      BY <3>1, <3>4
    <3> HIDE DEF seg
    <3>6. QED
      BY <3>2, <3>3, <3>4, <3>5 DEF SegmentSeeds
  <2> HIDE DEF seg, s
  <2>7. \A x \in Range(s) : \E k \in 1 .. m : x = seg(k)
    BY <2>1, <2>4 DEF Range
  <2>8. (\A x \in Range(s) : SegmentSeeds(x)) /\ \A x, y \in Range(s) : x.class = y.class => x = y
    <3>1. \A x \in Range(s) : SegmentSeeds(x)
      BY <2>6, <2>7
    <3>2. ASSUME NEW x \in Range(s), NEW y \in Range(s), x.class = y.class PROVE x = y
      <4>1. PICK k \in 1 .. m : x = seg(k)
        BY <2>7
      <4>2. PICK l \in 1 .. m : y = seg(l)
        BY <2>7
      <4>3. named[k] = named[l]
        BY <2>5, <3>2, <4>1, <4>2
      <4>4. QED
        BY <2>4, <4>1, <4>2, <4>3
    <3>3. QED
      BY <3>1, <3>2
  <2>9. QED
    BY <2>8 DEF s
<1>3. QED
  BY <1>1, <1>2

\* A plan has the class of its segment and shows seeds of it.
LEMMA FittedSound ==
  ASSUME ProjectSound, NEW owner, SegmentSeeds(owner), NEW draw \in Draws(owner), NEW room \in project.rooms
  PROVE  /\ Fitted(owner, draw, room).class = owner.class
         /\ Range(Fitted(owner, draw, room).ids) \subseteq Range(owner.ids)
<1> DEFINE n == Len(owner.texts)
           m == Min({project.seeds_per_call, n})
           fits == room >= Min({Len(draw), 1})
           high == Max({room, 0})
           last == Min({Len(draw), high})
           kept == IF fits THEN SubSeq(draw, 1, last) ELSE draw
           plan == Fitted(owner, draw, room)
<1>1. plan.class = owner.class
      /\ plan.ids = IF owner.ids = <<>> THEN <<>> ELSE [k \in DOMAIN kept |-> owner.ids[kept[k]]]
  BY DEF Fitted
<1> HIDE DEF plan
<1>2. n \in Nat /\ DOMAIN owner.texts = 1 .. n
  BY LenProperties DEF SegmentSeeds
<1>3. m \in Nat
  <2>1. project.seeds_per_call \in Nat
    BY DEF ProjectSound
  <2> HIDE DEF n
  <2>2. QED
    BY <1>2, <2>1, LeastOfTwo
<1>4. draw \in [1 .. m -> 1 .. n]
  BY DEF Draws
<1> HIDE DEF m, n
<1>5. draw \in Seq(1 .. n) /\ Len(draw) = m /\ DOMAIN draw = 1 .. m
  <2> DEFINE S == 1 .. n
  <2>1. draw \in [1 .. m -> S]
    BY <1>4
  <2> HIDE DEF S
  <2>2. draw \in Seq(S)
    BY <1>3, <2>1
  <2>3. QED
    BY <1>3, <2>1, <2>2, LenProperties DEF S
<1>6. kept \in Seq(1 .. n)
  <2>1. CASE ~ fits
    BY <1>5, <2>1
  <2>2. CASE fits
    <3>1. high \in Nat
      <4>1. room \in Int
        BY DEF ProjectSound
      <4> DEFINE S == {room, 0}
      <4>2. S = {room} \union {0} /\ IsFiniteSet({room}) /\ IsFiniteSet({0})
        BY FS_Singleton
      <4>3. IsFiniteSet(S)
        <5> HIDE DEF S
        <5>1. QED
          BY <4>2, FS_Union
      <4>4. S \in SUBSET Int /\ S # {} /\ 0 \in S
        BY <4>1
      <4> HIDE DEF S
      <4>5. Max(S) \in S /\ \A x \in S : Max(S) >= x
        BY <4>3, <4>4, Extremes
      <4>6. QED
        BY <4>1, <4>4, <4>5 DEF S
    <3> HIDE DEF high
    <3>2. Min({Len(draw), high}) = Min({high, Len(draw)})
      <4>1. {Len(draw), high} = {high, Len(draw)}
        OBVIOUS
      <4>2. QED
        BY <4>1
    <3>3. last \in Nat /\ last <= m
      BY <1>3, <1>5, <3>1, <3>2, LeastOfTwo
    <3> HIDE DEF last, fits
    <3>4. \A i \in 1 .. last : draw[i] \in 1 .. n
      BY <1>3, <1>4, <3>3
    <3>5. 1 \in Int /\ last \in Int
      BY <3>3
    <3>6. SubSeq(draw, 1, last) \in Seq(1 .. n)
      BY <3>4, <3>5, SubSeqProperties
    <3>7. QED
      BY <2>2, <3>6
  <2>3. QED
    BY <2>1, <2>2
<1> HIDE DEF kept
<1>7. \A k \in DOMAIN kept : kept[k] \in 1 .. n
  BY <1>6, LenProperties, ElementOfSeq
<1>8. CASE owner.ids = <<>>
  <2>1. plan.ids = <<>>
    BY <1>1, <1>8
  <2>2. Range(plan.ids) = {}
    BY <2>1 DEF Range
  <2>3. QED
    BY <1>1, <2>2 DEF plan
<1>9. CASE owner.ids # <<>>
  <2>1. DOMAIN owner.ids = 1 .. n
    BY <1>2, <1>9 DEF SegmentSeeds
  <2>2. plan.ids = [k \in DOMAIN kept |-> owner.ids[kept[k]]]
    BY <1>1, <1>9
  <2>3. Range(plan.ids) \subseteq Range(owner.ids)
    BY <1>7, <2>1, <2>2 DEF Range
  <2>4. QED
    BY <1>1, <2>3 DEF plan
<1>10. QED
  BY <1>8, <1>9

\* Every answer of every call is among the candidates.
LEMMA OfferedAll ==
  ASSUME ProjectSound, NEW n \in Nat, NEW plans, DOMAIN plans = 1 .. n, NEW results,
         \A k \in 1 .. n : results[k] \in Got(project.samples_of, project.generate_failures) \union {None},
         NEW k \in 1 .. n, results[k] # None, IsOk(results[k]), NEW c \in Range(results[k].ok)
  PROVE  c \in ContentsOf(Offered(plans, results))
<1> DEFINE from(l) == [i \in DOMAIN results[l].ok |->
                [content |-> results[l].ok[i], class |-> plans[l].class,
                 seeds |-> plans[l].ids, call |-> l]]
           q == [l \in DOMAIN plans |-> IF results[l] = None \/ ~IsOk(results[l]) THEN <<>>
               ELSE from(l)]
<1>1. Offered(plans, results) = FlattenSeq(q)
  BY Zenon DEF Offered
<1>2. q = [i \in 1 .. n |-> q[i]]
  OBVIOUS
<1>3. ASSUME NEW l \in 1 .. n PROVE q[l] \in Seq(Range(q[l]))
  <2>1. CASE results[l] = None \/ ~IsOk(results[l])
    <3>1. q[l] = <<>>
      BY <2>1
    <3>2. QED
      BY <3>1, EmptySeq
  <2>2. CASE results[l] # None /\ IsOk(results[l])
    <3>1. q[l] = from(l)
      BY <2>2
    <3>2. results[l].ok \in project.samples_of
      BY <2>2 DEF Got, IsOk
    <3>3. results[l].ok \in Seq(Contents)
      BY <3>2 DEF ProjectSound
    <3> DEFINE a == results[l].ok
               s == q[l]
    <3>4. DOMAIN s = DOMAIN a /\ s = [i \in DOMAIN a |-> s[i]]
      BY <3>1
    <3>5. Len(a) \in Nat /\ DOMAIN a = 1 .. Len(a)
      BY <3>3, LenProperties
    <3> HIDE DEF a, s
    <3>6. \A i \in 1 .. Len(a) : s[i] \in Range(s)
      BY <3>4, <3>5 DEF Range
    <3>7. s \in Seq(Range(s))
      BY <3>4, <3>5, <3>6
    <3>8. QED
      BY <3>7 DEF s
  <2>3. QED
    BY <2>1, <2>2
<1>4. q[k] = from(k)
  OBVIOUS
<1>5. PICK i \in DOMAIN results[k].ok : results[k].ok[i] = c
  BY DEF Range
<1>6. \E x \in Range(q[k]) : x.content = c
  <2>1. q[k][i] \in Range(q[k]) /\ q[k][i].content = c
    BY <1>4, <1>5 DEF Range
  <2>2. QED
    BY <2>1
<1> HIDE DEF q
<1>7. Range(q[k]) \subseteq Range(FlattenSeq(q))
  BY <1>2, <1>3, FlattenHas
<1>8. PICK x \in Range(Offered(plans, results)) : x.content = c
  BY <1>1, <1>6, <1>7
<1>9. QED
  BY <1>8 DEF Range, ContentsOf

\* The texts of all segments, and the segment of a class.
SeedsOf(segments) == UNION {Range(segments[s].texts) : s \in DOMAIN segments}
OwnerOf(segments, l) == CHOOSE s \in Range(segments) : s.class = l

\* Each survivor is an answer of its call, which was shown seeds of its class.
Earned(kept, segments, plans, got) ==
  \A k \in DOMAIN kept :
    LET x == kept[k]
    IN /\ x.call \in DOMAIN got /\ IsOk(got[x.call]) /\ x.content \in Range(got[x.call].ok)
       /\ x.seeds = plans[x.call].ids
       /\ Range(x.seeds) \subseteq Range(OwnerOf(segments, x.class).ids)

\* Each answer was kept, or rejected, or is near something.
Complete(kept, known, got) ==
  \A n \in DOMAIN got : IsOk(got[n]) =>
    \A c \in Range(got[n].ok) \ (project.rejected \union ContentsOf(kept)) :
      \E d \in known \union ContentsOf(kept) : Similar(c, d)

\* What was generated is new, earned, and all there is.
Novelty ==
  spawned # None =>
    /\ NearNothing(fresh, SeedsOf(spawned.segments))
    /\ Earned(fresh, spawned.segments, spawned.plans, spawned.got)
    /\ project.limit = None => Complete(fresh, SeedsOf(spawned.segments), spawned.got)

\* The seeds of the filter are the texts of all segments.
LEMMA SeedsJoined ==
  ASSUME NEW segments, segments \in Seq(Range(segments)), \A s \in Range(segments) : SegmentSeeds(s),
         NEW seeds, seeds = FlattenSeq([s \in DOMAIN segments |-> segments[s].texts])
  PROVE  Range(seeds) = SeedsOf(segments)
<1> DEFINE n == Len(segments)
           q == [s \in DOMAIN segments |-> segments[s].texts]
<1>1. n \in Nat /\ DOMAIN segments = 1 .. n /\ \A s \in 1 .. n : SegmentSeeds(segments[s])
  BY LenProperties, ElementOfSeq
<1> HIDE DEF n
<1>2. q = [i \in 1 .. n |-> q[i]]
  BY <1>1
<1>3. \A i \in 1 .. n : q[i] = segments[i].texts /\ q[i] \in Seq(Range(q[i]))
  BY <1>1 DEF SegmentSeeds
<1>4. SeedsOf(segments) = UNION {Range(q[i]) : i \in 1 .. n}
  BY <1>1, <1>3 DEF SeedsOf
<1>5. seeds = FlattenSeq(q)
  OBVIOUS
<1> HIDE DEF q
<1>6. seeds \in Seq(SeedsOf(segments))
  <2>1. FlattenSeq(q) \in Seq(UNION {Range(q[i]) : i \in 1 .. n})
    BY <1>1, <1>2, <1>3, FlattenOf
  <2>2. QED
    BY <1>4, <1>5, <2>1
<1>7. \A i \in 1 .. n : Range(q[i]) \subseteq Range(seeds)
  BY <1>1, <1>2, <1>3, <1>5, FlattenHas
<1>8. Range(seeds) \subseteq SeedsOf(segments)
  BY <1>6, RangeOfSeq
<1>9. QED
  BY <1>4, <1>7, <1>8

\* The first of what is near nothing are near nothing, and as much earned.
LEMMA FirstOnes ==
  ASSUME NEW T, NEW kept \in Seq(T), NEW last \in Nat, last <= Len(kept),
         NEW first, first = SubSeq(kept, 1, last)
  PROVE  DOMAIN first = 1 .. last /\ \A k \in 1 .. last : k \in DOMAIN kept /\ first[k] = kept[k]
<1>1. Len(kept) \in Nat /\ DOMAIN kept = 1 .. Len(kept)
  BY LenProperties
<1>2. \A i \in 1 .. last : i \in DOMAIN kept /\ kept[i] \in T
  BY <1>1, ElementOfSeq
<1>3. 1 \in Int /\ last \in Int
  OBVIOUS
<1>4. /\ first \in Seq(T) /\ Len(first) = IF 1 <= last THEN last - 1 + 1 ELSE 0
      /\ \A i \in 1 .. last - 1 + 1 : first[i] = kept[1 + i - 1]
  BY <1>2, <1>3, SubSeqProperties
<1>5. Len(first) = last /\ \A i \in 1 .. last : first[i] = kept[i]
  BY <1>4
<1>6. DOMAIN first = 1 .. last
  BY <1>4, <1>5, LenProperties
<1>7. QED
  BY <1>2, <1>5, <1>6

\* What a wave of calls comes to is new.
LEMMA SpawnNovel ==
  ASSUME ProjectSound, BatchSound(batch), UNCHANGED project, Spawn(Segments, Owners(Segments))
  PROVE  Novelty'
<1> DEFINE segments == Segments
           owners == Owners(segments)
           R == Got(project.samples_of, project.generate_failures)
<1>1. segments \in Seq(Range(segments)) /\ \A s \in Range(segments) : SegmentSound(s)
  BY SegmentsAre
<1>2. /\ \A s \in Range(segments) : SegmentSeeds(s)
      /\ \A s, t \in Range(segments) : s.class = t.class => s = t
  BY SegmentsDiffer
<1>3. Spawn(segments, owners)
  OBVIOUS
<1> HIDE DEF segments
<1>4. PICK n \in Nat : DOMAIN owners = 1 .. n /\ \A k \in 1 .. n : owners[k] \in Range(segments)
  BY <1>1, OwnersSound
<1> HIDE DEF owners
<1>5. PICK draws \in {d \in [DOMAIN owners -> UNION {Draws(owners[k]) : k \in DOMAIN owners}] :
                 \A k \in DOMAIN owners : d[k] \in Draws(owners[k])},
     rooms \in [DOMAIN owners -> project.rooms] :
    LET plans == [k \in DOMAIN owners |-> Fitted(owners[k], draws[k], rooms[k])]
    IN \E got \in [{k \in DOMAIN plans : plans[k].sent} -> R] :
         LET order == InOrder(DOMAIN got)
             results == Aligned(plans, [m \in DOMAIN order |-> got[order[m]]])
             kept == Survivors(segments, plans, results)
         IN /\ fresh' = IF Limit = None THEN kept ELSE SubSeq(kept, 1, Min({Limit, Len(kept)}))
            /\ spawned' = [segments |-> segments, plans |-> plans, got |-> got]
  BY <1>3, Zenon DEF Spawn
<1> DEFINE plans == [k \in DOMAIN owners |-> Fitted(owners[k], draws[k], rooms[k])]
<1>6. PICK got \in [{k \in DOMAIN plans : plans[k].sent} -> R] :
         LET order == InOrder(DOMAIN got)
             results == Aligned(plans, [m \in DOMAIN order |-> got[order[m]]])
             kept == Survivors(segments, plans, results)
         IN /\ fresh' = IF Limit = None THEN kept ELSE SubSeq(kept, 1, Min({Limit, Len(kept)}))
            /\ spawned' = [segments |-> segments, plans |-> plans, got |-> got]
  BY <1>5, Zenon
<1> DEFINE order == InOrder(DOMAIN got)
           results == Aligned(plans, [i \in DOMAIN order |-> got[order[i]]])
           kept == Survivors(segments, plans, results)
           last == Min({Limit, Len(kept)})
           seeds == FlattenSeq([s \in DOMAIN segments |-> segments[s].texts])
           all == Offered(plans, results)
<1>7. fresh' = (IF Limit = None THEN kept ELSE SubSeq(kept, 1, last))
      /\ spawned' = [segments |-> segments, plans |-> plans, got |-> got]
  BY <1>6, Zenon
<1>8. DOMAIN plans = 1 .. n /\ \A k \in 1 .. n : /\ plans[k].class = owners[k].class
                                                  /\ Range(plans[k].ids) \subseteq Range(owners[k].ids)
  <2>1. ASSUME NEW k \in 1 .. n
        PROVE  /\ plans[k].class = owners[k].class /\ Range(plans[k].ids) \subseteq Range(owners[k].ids)
    <3>1. draws[k] \in Draws(owners[k]) /\ rooms[k] \in project.rooms /\ SegmentSeeds(owners[k])
      BY <1>2, <1>4
    <3>2. plans[k] = Fitted(owners[k], draws[k], rooms[k])
      BY <1>4
    <3> HIDE DEF plans
    <3>3. /\ Fitted(owners[k], draws[k], rooms[k]).class = owners[k].class
          /\ Range(Fitted(owners[k], draws[k], rooms[k]).ids) \subseteq Range(owners[k].ids)
      BY <3>1, FittedSound
    <3>4. QED
      BY <3>2, <3>3
  <2>2. QED
    BY <1>4, <2>1
<1>9. ASSUME NEW k \in 1 .. n PROVE plans[k].class \in Labels
  BY <1>1, <1>4, <1>8 DEF SegmentSound
<1> HIDE DEF plans, R, order
<1>10. DOMAIN got \subseteq 1 .. n /\ \A k \in DOMAIN got : got[k] \in R
  BY <1>8
<1>11. ASSUME NEW k \in 1 .. n
       PROVE  results[k] = (IF k \in DOMAIN got THEN got[k] ELSE None) /\ results[k] \in R \union {None}
  <2>1. results = Aligned(plans, Gathered(got, order))
    BY Zenon DEF Gathered
  <2> HIDE DEF results
  <2>2. Aligned(plans, Gathered(got, order))[k] = IF k \in DOMAIN got THEN got[k] ELSE None
    <3>1. DOMAIN plans = 1 .. n /\ DOMAIN got = {l \in DOMAIN plans : plans[l].sent}
          /\ order = InOrder(DOMAIN got)
      BY <1>8 DEF order
    <3>2. QED
      BY <3>1, AlignedIs
  <2>3. QED
    BY <1>10, <2>1, <2>2
<1> HIDE DEF results
<1>12. PICK T : all \in Seq(T) /\ \A x \in T : Newcomer(x) /\ Traced(x, plans, results)
  BY <1>8, <1>9, <1>11, OfferedSound DEF R
<1>13. kept \in Seq(T)
  BY <1>12, SurvivorsKept
<1>14. NearNothing(kept, Range(seeds)) /\ Accounted(kept, Range(seeds), all, Len(all))
  BY <1>12, SurvivorsSound
<1>15. Range(seeds) = SeedsOf(segments)
  BY <1>1, <1>2, SeedsJoined
<1> HIDE DEF kept, all, seeds
<1>16. \E size \in Nat : /\ DOMAIN fresh' = 1 .. size
                         /\ \A k \in 1 .. size : k \in DOMAIN kept /\ fresh'[k] = kept[k] /\ kept[k] \in T
  <2>1. Len(kept) \in Nat /\ DOMAIN kept = 1 .. Len(kept) /\ \A k \in DOMAIN kept : kept[k] \in T
    BY <1>13, LenProperties, ElementOfSeq
  <2>2. CASE Limit = None
    BY <1>7, <2>1, <2>2
  <2>3. CASE Limit # None
    <3>1. Limit \in Nat
      BY <2>3 DEF Limit, ProjectSound
    <3>2. last \in Nat /\ last <= Len(kept)
      BY <2>1, <3>1, LeastOfTwo
    <3> HIDE DEF last
    <3>3. fresh' = SubSeq(kept, 1, last)
      BY <1>7, <2>3
    <3>4. DOMAIN fresh' = 1 .. last /\ \A k \in 1 .. last : k \in DOMAIN kept /\ fresh'[k] = kept[k]
      BY <1>13, <3>2, <3>3, FirstOnes
    <3>5. QED
      BY <2>1, <3>2, <3>4
  <2>4. QED
    BY <2>2, <2>3
<1>17. PICK size \in Nat : /\ DOMAIN fresh' = 1 .. size
                           /\ \A k \in 1 .. size : k \in DOMAIN kept /\ fresh'[k] = kept[k] /\ kept[k] \in T
  BY <1>16
<1>18. NearNothing(fresh', SeedsOf(segments))
  <2>1. ASSUME NEW k \in DOMAIN fresh'
        PROVE  /\ \A d \in SeedsOf(segments) : ~Similar(fresh'[k].content, d)
               /\ \A l \in 1 .. k - 1 : ~Similar(fresh'[k].content, fresh'[l].content)
    <3>1. /\ \A d \in SeedsOf(segments) : ~Similar(kept[k].content, d)
          /\ \A l \in 1 .. k - 1 : ~Similar(kept[k].content, kept[l].content)
      BY <1>14, <1>15, <1>17 DEF NearNothing
    <3>2. \A l \in 1 .. k - 1 : l \in 1 .. size
      BY <1>17
    <3>3. QED
      BY <1>17, <3>1, <3>2
  <2>2. QED
    BY <2>1 DEF NearNothing
<1>19. Earned(fresh', segments, plans, got)
  <2> SUFFICES ASSUME NEW k \in DOMAIN fresh', NEW x, x = fresh'[k]
               PROVE  /\ x.call \in DOMAIN got /\ IsOk(got[x.call]) /\ x.content \in Range(got[x.call].ok)
                      /\ x.seeds = plans[x.call].ids
                      /\ Range(x.seeds) \subseteq Range(OwnerOf(segments, x.class).ids)
    BY DEF Earned
  <2>1. Traced(x, plans, results)
    BY <1>12, <1>17
  <2>2. /\ x.call \in 1 .. n /\ results[x.call] # None /\ IsOk(results[x.call])
        /\ x.content \in Range(results[x.call].ok)
        /\ x.class = plans[x.call].class /\ x.seeds = plans[x.call].ids
    BY <1>8, <2>1 DEF Traced
  <2>3. x.call \in DOMAIN got /\ results[x.call] = got[x.call]
    BY <1>11, <2>2
  <2>4. OwnerOf(segments, x.class) = owners[x.call]
    <3>1. owners[x.call] \in Range(segments) /\ owners[x.call].class = x.class
      BY <1>4, <1>8, <2>2
    <3>2. QED
      BY <1>2, <3>1 DEF OwnerOf
  <2>5. QED
    BY <1>8, <2>2, <2>3, <2>4
<1>20. project.limit = None => Complete(fresh', SeedsOf(segments), got)
  <2> SUFFICES ASSUME project.limit = None, NEW k \in DOMAIN got, IsOk(got[k]),
                      NEW c \in Range(got[k].ok) \ (project.rejected \union ContentsOf(fresh'))
               PROVE  \E d \in SeedsOf(segments) \union ContentsOf(fresh') : Similar(c, d)
    BY DEF Complete
  <2>1. fresh' = kept
    BY <1>7 DEF Limit
  <2>2. k \in 1 .. n /\ results[k] = got[k] /\ results[k] # None
    <3>1. got[k] # None
      BY <1>10 DEF ProjectSound, R
    <3>2. QED
      BY <1>10, <1>11, <3>1
  <2>3. c \in ContentsOf(all)
    <3>1. \A l \in 1 .. n :
            results[l] \in Got(project.samples_of, project.generate_failures) \union {None}
      BY <1>11 DEF R
    <3>2. DOMAIN plans = 1 .. n /\ IsOk(results[k]) /\ c \in Range(results[k].ok)
      BY <1>8, <2>2
    <3>3. c \in ContentsOf(Offered(plans, results))
      BY <2>2, <3>1, <3>2, OfferedAll
    <3>4. QED
      BY <3>3 DEF all
  <2>4. PICK j \in 1 .. Len(all) : all[j].content = c
    BY <1>12, <2>3, LenProperties DEF ContentsOf
  <2>5. \/ all[j].content \in project.rejected \union ContentsOf(kept)
        \/ \E d \in Range(seeds) \union ContentsOf(kept) : Similar(all[j].content, d)
    BY <1>14 DEF Accounted
  <2>6. QED
    BY <1>15, <2>1, <2>4, <2>5
<1>21. spawned'.segments = segments /\ spawned'.plans = plans /\ spawned'.got = got
  BY <1>7
<1>22. project'.limit = project.limit /\ project'.rejected = project.rejected
  OBVIOUS
<1>23. Complete(fresh, SeedsOf(spawned.segments), spawned.got)' <=> Complete(fresh', SeedsOf(segments), got)
  BY <1>21, <1>22 DEF Complete
<1>24. QED
  BY <1>18, <1>19, <1>20, <1>21, <1>22, <1>23 DEF Novelty

-------------------------------------------------------------------------------
(* Batches that enter the chain                                            *)

\* Generated records enter with the classes of their seeds: one each.
Inheriting ==
  project # Off /\ project.generate = "off" /\ spawned # None =>
    DOMAIN project.contents = DOMAIN fresh /\ DOMAIN project.members = DOMAIN fresh

\* What a generated record inherits is a label of the project.
LEMMA InheritedSound ==
  ASSUME Inheriting, ProjectSound, FreshSound, project # Off, NEW i \in 1 .. Len(project.contents)
  PROVE  Inherited(i) = None \/
           \E labels : Inherited(i) = LabelledBy(labels, "inherited") /\ LabelsSound(labels)
<1> SUFFICES ASSUME Inherited(i) # None
             PROVE  \E labels : Inherited(i) = LabelledBy(labels, "inherited") /\ LabelsSound(labels)
  OBVIOUS
<1> DEFINE labels == <<fresh[i].class>>
<1>1. /\ spawned # None /\ project.generate = "off" /\ fresh[i].class # None
      /\ Inherited(i) = LabelledBy(labels, "inherited")
  BY DEF Inherited
<1>2. i \in DOMAIN fresh
  <2>1. project.contents \in Seq(Contents)
    BY DEF ProjectSound
  <2>2. i \in DOMAIN project.contents
    BY <2>1, LenProperties
  <2>3. QED
    BY <1>1, <2>2 DEF Inheriting
<1>3. fresh[i].class \in Range(project.classes)
  BY <1>1, <1>2 DEF FreshSound, Labels
<1>4. LabelsSound(labels)
  BY <1>3 DEF LabelsSound, Distinct, IsInjective
<1>5. QED
  BY <1>1, <1>4

\* An envelope as it is admitted.
Admitted(i, status, class, seams) ==
  [Envelope(i) EXCEPT !.status = status, !.class = class, !.seams = seams]

\* What was generated keeps its classes while nothing else is generated.
LEMMA HeirsSame == UNCHANGED <<project, fresh, spawned>> => Heirs' = Heirs
BY Zenon DEF Heirs

\* An envelope that enters the chain is sound.
LEMMA AdmittedSound ==
  ASSUME ProjectSound, NEW i \in DOMAIN project.members, NEW status, NEW class, NEW seams, NEW e,
         e = Admitted(i, status, class, seams),
         class = None \/ \E labels : class = LabelledBy(labels, "inherited") /\ LabelsSound(labels),
         Heirs[i] # None => class # None /\ class = LabelledBy(<<Heirs[i]>>, "inherited")
  PROVE  /\ EnvelopeSound(e) /\ e.record = i /\ e.members = project.members[i] /\ IsAnchor(e)
         /\ e.class # None => Distinct(e.class.labels)
<1>1. /\ DOMAIN e = EnvelopeFields /\ e.record = i /\ e.members = project.members[i] /\ e.class = class
  <2> DEFINE base == Envelope(i)
  <2>1. DOMAIN base = EnvelopeFields /\ base.record = i /\ base.members = project.members[i]
    BY DEF Envelope, EnvelopeFields
  <2> HIDE DEF base
  <2>2. e = [base EXCEPT !.status = status, !.class = class, !.seams = seams]
    BY DEF base, Admitted
  <2>3. QED
    BY <2>1, <2>2 DEF EnvelopeFields
<1>2. e.members \in Seq(Positions)
  BY <1>1, MembersOf
<1>3. CASE class = None
  BY <1>1, <1>2, <1>3 DEF EnvelopeSound, IsAnchor
<1>4. CASE class # None
  <2>1. PICK labels : class = LabelledBy(labels, "inherited") /\ LabelsSound(labels)
    BY <1>4
  <2>2. labels \in Seq(Range(project.classes)) /\ Distinct(labels)
            /\ labels[1] \in Range(project.classes)
    BY <2>1, EmptySeq, LenProperties, ElementOfSeq DEF LabelsSound, Distinct
  <2>3. class \in Labelled(project.classes) /\ class.label = class.labels[1] /\ class.labels = labels
    BY <2>1, <2>2 DEF LabelledBy, Labelled
  <2>4. QED
    BY <1>1, <1>2, <2>2, <2>3 DEF EnvelopeSound, IsAnchor
<1>5. QED
  BY <1>3, <1>4

\* A batch that enters the chain is sound, and owns the frames it was cut from.
LEMMA AdmitKeeps ==
  ASSUME ChainInv, Inheriting, Admit PROVE ChainInv'
<1>1. /\ stage = "dedup" /\ stage' = "classify" /\ project # Off /\ UNCHANGED <<project, fresh, turn>>
  BY DEF Admit, ratedVars, generateVars, verifyVars
<1>2. turn = "idle" /\ project' # Off /\ ProjectSound /\ FreshSound
  BY <1>1 DEF ChainInv
<1> DEFINE n == Len(project.contents)
           owned == UNION {Range(project.members[r]) : r \in 1 .. n}
<1>3. n \in Nat /\ 1 .. n \subseteq DOMAIN project.members
  BY <1>2, LenProperties DEF ProjectSound
<1>4. \E status, seams :
        batch' = [i \in 1 .. n |->
             [Envelope(i) EXCEPT !.status = status[i], !.class = Inherited(i), !.seams = seams[i]]]
  <2> DEFINE own == SubSeq(log, Len(log) - n + 1, Len(log))
             status(i) == CASE ~project.deduplicate \/ own[i].kind = "unique" -> "active"
                        [] own[i].kind = "failed" -> "failed" [] OTHER -> "dropped_dup"
             holds(r) == [q \in 1 .. n \ {r} |-> Range(project.members[q])]
             seams(i) == IF project.stitch /\ IsSequence(i)
                          THEN ComputeSeams(project.members[i], holds(i)) ELSE <<>>
  <2>1. batch' = [i \in 1 .. n |->
             [Envelope(i) EXCEPT !.status = status(i), !.class = Inherited(i), !.seams = seams(i)]]
    BY Zenon DEF Admit
  <2> DEFINE F == [i \in 1 .. n |-> status(i)]
             G == [i \in 1 .. n |-> seams(i)]
  <2> HIDE DEF status, seams, n
  <2>2. \A i \in 1 .. n : F[i] = status(i) /\ G[i] = seams(i)
    OBVIOUS
  <2>3. batch' = [i \in 1 .. n |->
             [Envelope(i) EXCEPT !.status = F[i], !.class = Inherited(i), !.seams = G[i]]]
    <3> HIDE DEF F, G
    <3>1. QED
      BY <2>1, <2>2
  <2>4. QED
    <3> HIDE DEF F, G
    <3>1. QED
      BY <2>3
<1>5. frames' = [p \in 0 .. project.session - 1 |->
             IF p \in owned THEN [status |-> "absorbed", by |-> None]
             ELSE [status |-> "noise", by |-> "segment"]]
  BY Zenon DEF Admit
<1> HIDE DEF n, owned
<1>6. DOMAIN batch' = 1 .. n
  BY <1>4
<1>7. ASSUME NEW i \in 1 .. n
      PROVE  /\ EnvelopeSound(batch'[i]) /\ batch'[i].record = i /\ batch'[i].members =
                 project.members[i]
             /\ IsAnchor(batch'[i])
             /\ batch'[i].class # None => Distinct(batch'[i].class.labels)
  <2>1. PICK status, seams :
          batch'[i] = [Envelope(i) EXCEPT !.status = status, !.class = Inherited(i), !.seams = seams]
    <3>1. PICK S, G : batch' = [j \in 1 .. n |->
             [Envelope(j) EXCEPT !.status = S[j], !.class = Inherited(j), !.seams = G[j]]]
      BY <1>4
    <3>2. batch'[i] = [Envelope(i) EXCEPT !.status = S[i], !.class = Inherited(i), !.seams = G[i]]
      BY <3>1
    <3>3. QED
      BY <3>2, Zenon
  <2>2. Inherited(i) = None \/
           \E labels : Inherited(i) = LabelledBy(labels, "inherited") /\ LabelsSound(labels)
    BY <1>1, <1>2, InheritedSound DEF n
  <2>3. i \in DOMAIN project.members
    BY <1>3
  <2>4. Heirs[i] # None => Inherited(i) # None /\ Inherited(i) = LabelledBy(<<Heirs[i]>>, "inherited")
    <3> SUFFICES ASSUME Heirs[i] # None
                 PROVE  Inherited(i) # None /\ Inherited(i) = LabelledBy(<<Heirs[i]>>, "inherited")
      OBVIOUS
    <3>1. /\ project.generate = "off" /\ spawned # None /\ Heirs[i] = fresh[i].class
          /\ fresh[i].class # None
      BY <2>3 DEF Heirs
    <3>2. Inherited(i) = LabelledBy(<<Heirs[i]>>, "inherited")
      BY <3>1 DEF Inherited
    <3>3. fresh[i].class \in Range(project.classes) /\ i \in DOMAIN fresh
      BY <1>1, <1>2, <2>3, <3>1 DEF Inheriting, FreshSound, Labels
    <3>4. LabelledBy(<<Heirs[i]>>, "inherited") \in Labelled(project.classes)
      <4> DEFINE ls == <<Heirs[i]>>
      <4>1. ls \in Seq(Range(project.classes)) /\ ls[1] \in Range(project.classes)
        BY <3>1, <3>3
      <4> HIDE DEF ls
      <4>2. LabelledBy(ls, "inherited") \in Labelled(project.classes)
        BY <4>1 DEF LabelledBy, Labelled
      <4>3. QED
        BY <4>2 DEF ls
    <3>5. QED
      BY <1>2, <3>2, <3>4 DEF ProjectSound
  <2>5. QED
    <3> DEFINE e == batch'[i]
               class == Inherited(i)
    <3>1. e = Admitted(i, status, class, seams)
      BY <2>1, Zenon DEF Admitted
    <3>2. class = None \/ \E labels : class = LabelledBy(labels, "inherited") /\ LabelsSound(labels)
      BY <2>2
    <3>3. Heirs[i] # None => class # None /\ class = LabelledBy(<<Heirs[i]>>, "inherited")
      BY <2>4
    <3> HIDE DEF e, class
    <3>4. /\ EnvelopeSound(e) /\ e.record = i /\ e.members = project.members[i] /\ IsAnchor(e)
          /\ e.class # None => Distinct(e.class.labels)
      BY <1>2, <2>3, <3>1, <3>2, <3>3, AdmittedSound
    <3>5. QED
      BY <3>4 DEF e
<1>8. BatchSound(batch')
  BY <1>3, <1>6, <1>7 DEF BatchSound
<1>9. FramesSound(batch', frames')
  BY <1>5 DEF FramesSound, FrameStates, Positions
<1>10. Grounds'
  <2>1. UNCHANGED spawned
    BY DEF Admit, ratedVars, generateVars
  <2>2. Heirs' = Heirs
    BY <1>1, <2>1, HeirsSame
  <2>3. QED
    BY <1>1, <1>2, <1>8, <1>9, <2>2, GroundsFrom
<1>11. Anchors(batch') = 1 .. n /\ \A i \in 1 .. n : Members(batch')[i] = Range(project.members[i])
  BY <1>6, <1>7 DEF Anchors, Members
<1>12. Owned(batch', Members(batch'), frames')
  <2>1. Apart(batch', Members(batch'))
    BY <1>2, <1>3, <1>11 DEF Apart, ProjectSound
  <2>2. \A p \in DOMAIN frames' : frames'[p].status = "absorbed" <=> p \in owned
    BY <1>5
  <2>3. \A p : p \in owned <=> \E i \in 1 .. n : p \in Range(project.members[i])
    BY DEF owned
  <2>4. QED
    BY <1>11, <2>1, <2>2, <2>3 DEF Owned
<1>13. Owned(batch, Members(batch), frames)'
  BY <1>12, Zenon DEF Owned, Apart, Members, Anchors
<1>14. Unparted'
  <2>1. \A i \in DOMAIN batch' : IsAnchor(batch'[i])
            /\ (batch'[i].class # None => Distinct(batch'[i].class.labels))
    BY <1>6, <1>7
  <2>2. QED
    BY <2>1, Zenon DEF Unparted, IsAnchor, Distinct
<1>15. QED
  BY <1>1, <1>2, <1>10, <1>13, <1>14 DEF ChainInv, Grounds, Streaming

\* An empty batch is sound on any frames.
LEMMA EmptyBatch ==
  ASSUME NEW b, b = <<>>, NEW f, f \in [DOMAIN f -> FrameStates]
  PROVE  BatchSound(b) /\ FramesSound(b, f)
<1>1. DOMAIN b = 1 .. 0 /\ DOMAIN b = {} /\ 0 \in Nat
  BY NoPlaces
<1>2. QED
  BY <1>1 DEF BatchSound, FramesSound

\* What was generated enters the chain again under its labels.
LEMMA ReflowKeeps ==
  ASSUME ChainInv, Reflow PROVE ChainInv' /\ Inheriting'
<1>1. /\ stage = "done" /\ stage' = "dedup" /\ project # Off /\ UNCHANGED <<fresh, frames>>
      /\ batch' = <<>> /\ turn' = "idle"
  BY DEF Reflow, generateVars, streamVars
<1> DEFINE contents == [k \in DOMAIN fresh |-> fresh[k].content]
           members == [k \in DOMAIN fresh |-> <<>>]
<1>2. project' = [project EXCEPT !.generate = "off", !.contents = contents, !.degraded = {},
                         !.oversized = {}, !.members = members]
  BY DEF Reflow
<1>3. ProjectSound /\ FreshSound /\ FramesSound(batch, frames)
  BY <1>1 DEF ChainInv
<1>4. PICK n \in Nat : DOMAIN fresh = 1 .. n
  BY <1>3 DEF FreshSound
<1>5. contents \in Seq(Contents) /\ Len(contents) = n /\ DOMAIN contents = 1 .. n
  BY <1>3, <1>4 DEF FreshSound
<1>6. members \in Seq(Seq(Nat)) /\ Len(members) = n /\ DOMAIN members = 1 .. n
      /\ \A k \in 1 .. n : Range(members[k]) = {}
  <2>1. <<>> \in Seq(Nat) /\ Range(<<>>) = {}
    BY EmptySeq DEF Range
  <2>2. QED
    BY <1>4, <2>1
<1> HIDE DEF contents, members
<1>7. /\ DOMAIN project' = Settings /\ project'.contents = contents /\ project'.members = members
      /\ project'.generate = "off"
      /\ \A x \in Settings \ {"generate", "contents", "degraded", "oversized", "members"} :
          project'[x] = project[x]
  BY <1>2, <1>3 DEF ProjectSound, Settings
<1>8. /\ project'.classes = project.classes /\ project'.fallback = project.fallback
      /\ project'.session = project.session /\ project'.examples = project.examples
      /\ project'.samples_of = project.samples_of /\ project'.samples = project.samples
      /\ project'.max_labels = project.max_labels /\ project'.num_per_record = project.num_per_record
      /\ project'.standalone = project.standalone /\ project'.num_per_call = project.num_per_call
      /\ project'.limit = project.limit /\ project'.rejected = project.rejected
      /\ project'.seeds_per_call = project.seeds_per_call /\ project'.rooms = project.rooms
      /\ project'.generate_failures = project.generate_failures
      /\ project'.combinations = project.combinations /\ project'.voted = project.voted
      /\ project'.annotate_sc = project.annotate_sc
  BY <1>7 DEF Settings
<1>9. ProjectSound'
  <2>1. /\ Labelled(project'.classes) = Labelled(project.classes) /\ Positions' = Positions
        /\ Range(project'.classes) = Range(project.classes)
        /\ Got(project'.samples_of, project'.generate_failures)
             = Got(project.samples_of, project.generate_failures)
    BY <1>8, Zenon DEF Positions
  <2>2. \A r \in DOMAIN project'.members :
       /\ Range(project'.members[r]) \subseteq Positions'
       /\ \A q \in DOMAIN project'.members \ {r} :
            Range(project'.members[q]) \intersect Range(project'.members[r]) = {}
    BY <1>6, <1>7
  <2>3. QED
    BY <1>3, <1>5, <1>6, <1>7, <1>8, <2>1, <2>2, SMTT(20) DEF ProjectSound
<1>10. FreshSound'
  <2>1. Labels' = Labels
    BY <1>8 DEF Labels
  <2>2. QED
    BY <1>1, <1>3, <2>1 DEF FreshSound
<1>11. Grounds'
  <2>1. frames' \in [DOMAIN frames' -> FrameStates]
    BY <1>1, <1>3 DEF FramesSound
  <2>2. (BatchSound(batch) /\ FramesSound(batch, frames))'
    <3>1. DOMAIN batch' = {} /\ (\E m \in Nat : DOMAIN batch' = 1 .. m)
      <4>1. DOMAIN batch' = 1 .. 0 /\ 0 \in Nat
        BY <1>1, NoPlaces
      <4>2. QED
        BY <4>1
    <3>2. BatchSound(batch)'
      BY <3>1 DEF BatchSound
    <3>3. FramesSound(batch, frames)'
      BY <2>1, <3>1 DEF FramesSound, FrameStates
    <3>4. QED
      BY <3>2, <3>3
  <2>3. QED
    BY <1>9, <1>10, <2>2 DEF Grounds
<1>12. ChainInv'
  BY <1>1, <1>11 DEF ChainInv, Grounds, Streaming
<1>13. Inheriting'
  BY <1>1, <1>4, <1>5, <1>6, <1>7 DEF Inheriting
<1>14. QED
  BY <1>12, <1>13

\* It leaves what was generated, and what a generated record must be, alone.
LEMMA ReflowLeaves ==
  ASSUME ChainInv, Reflow
  PROVE  /\ UNCHANGED <<fresh, spawned>> /\ project'.limit = project.limit
         /\ project'.rejected = project.rejected
<1>1. UNCHANGED <<fresh, spawned>> /\ project # Off
  BY DEF Reflow, generateVars
<1>2. DOMAIN project = Settings
  BY <1>1 DEF ChainInv, ProjectSound
<1>3. QED
  BY <1>1, <1>2 DEF Reflow, Settings

\* The invariant holds at the start.
LEMMA ChainStarts == ChainInit => ChainInv /\ Inheriting /\ Novelty
<1> SUFFICES ASSUME ChainInit PROVE ChainInv /\ Inheriting /\ Novelty
  OBVIOUS
<1>1. /\ project \in Projects \union {Off} /\ batch = <<>> /\ fresh = <<>> /\ spawned = None
      /\ turn = "idle" /\ frames = <<>> /\ stage \in {"generate", "dedup"}
          /\ (project = Off => stage = "dedup")
  BY DEF ChainInit
<1>2. Inheriting
  BY <1>1 DEF Inheriting
<1>3. DOMAIN batch = 1 .. 0 /\ DOMAIN fresh = 1 .. 0 /\ DOMAIN frames = 1 .. 0 /\ 0 \in Nat
          /\ 1 .. 0 = {}
  BY <1>1, NoPlaces
<1>4. BatchSound(batch)
  BY <1>3 DEF BatchSound
<1>5. FramesSound(batch, frames)
  BY <1>1, <1>3 DEF FramesSound
<1>6. FreshSound
  BY <1>3 DEF FreshSound
<1>7. Owned(batch, Members(batch), frames)
  BY <1>3 DEF Owned, Apart, Anchors
<1>8. project # Off => ProjectSound
  <2> SUFFICES ASSUME project # Off PROVE ProjectSound
    OBVIOUS
  <2>1. ProjectOK(project)
    BY <1>1, ProjectsAssumption
  <2>2. /\ DOMAIN project = Settings /\ ClassifyOK(project) /\ StreamOK(project) /\ GenerateOK(project)
        /\ project.contents \in Seq(Contents) /\ Len(project.contents) <= Len(project.members)
    BY <2>1 DEF ProjectOK
  <2>3. /\ project.classes \in Seq(STRING) /\ IsInjective(project.classes) /\ Len(project.classes) > 0
        /\ None \notin Labelled(project.classes) \union Range(project.classes)
        /\ project.fallback \in Range(project.classes)
        /\ project.samples \in Nat /\ project.max_labels \in 1 .. Len(project.classes)
        /\ project.members \in Seq(Seq(Nat))
    BY <2>2, Zenon DEF ClassifyOK
  <2>4. project.max_labels \in Nat
    BY <2>3, LenProperties
  <2>5. /\ project.session \in Nat
        /\ \A r \in DOMAIN project.members :
             /\ Range(project.members[r]) \subseteq Positions
             /\ \A q \in DOMAIN project.members \ {r} :
                 Range(project.members[q]) \intersect Range(project.members[r]) = {}
    BY <2>2, Zenon DEF StreamOK, Positions
  <2>6. /\ project.examples \in Seq(Contents) /\ project.standalone \in Nat
        /\ project.num_per_record \in Nat \ {0} /\ project.num_per_call \in Nat \ {0}
        /\ project.limit = None \/ project.limit \in Nat \ {0}
        /\ \A s \in project.samples_of : s \in Seq(Contents)
        /\ project.seeds_per_call \in Nat \ {0} /\ project.rooms \subseteq Int
        /\ None \notin Got(project.samples_of, project.generate_failures)
    BY <2>2, Zenon DEF GenerateOK
  <2>7. /\ \A c \in project.combinations : c = [f \in 1 .. project.voted |-> c[f]]
        /\ project.annotate_sc \in Nat \ {1, 2}
    BY <2>1, Zenon DEF ProjectOK, AnnotateOK
  <2>8. QED
    BY <2>2, <2>3, <2>4, <2>5, <2>6, <2>7 DEF ProjectSound
<1>9. ChainInv
  BY <1>1, <1>4, <1>5, <1>6, <1>7, <1>8 DEF ChainInv, Streaming
<1>10. Novelty
  BY <1>1 DEF Novelty
<1>11. QED
  BY <1>2, <1>9, <1>10

\* Nothing changes in what the chain keeps.
LEMMA StillKeeps ==
  ASSUME ChainInv, UNCHANGED chainVars PROVE ChainInv'
<1>1. UNCHANGED <<project, stage, batch, frames, fresh, turn, pending, reviews, saved, settled,
          snapshot>>
  BY DEF chainVars, classifyVars, ratedVars, generateVars, verifyVars, streamVars
<1>2. (project # Off => Grounds)'
  <2>1. CASE project # Off
    <3>1. ProjectSound /\ FreshSound /\ BatchSound(batch) /\ FramesSound(batch, frames)
      BY <2>1 DEF ChainInv
    <3>2. UNCHANGED spawned
      BY DEF chainVars, ratedVars, generateVars
    <3>3. Heirs' = Heirs
      BY <1>1, <3>2, HeirsSame
    <3>4. QED
      BY <1>1, <3>1, <3>3, GroundsFrom
  <2>2. QED
    BY <1>1, <2>1
<1>3. (turn # "idle" => stage = "verify" /\ ReviewsSound)'
  BY <1>1 DEF ChainInv, ReviewsSound
<1>4. (stage \in {"classify", "frames"} => Unparted)'
  BY <1>1, Zenon DEF ChainInv, Unparted, IsAnchor, Distinct
<1>5. (stage # "dedup" /\ turn \in {"idle", "review", "repair", "stream"} =>
         Owned(batch, Members(batch), frames))'
  <2>1. stage # "dedup" /\ turn \in {"idle", "review", "repair", "stream"} =>
            Owned(batch, Members(batch), frames)
    BY DEF ChainInv
  <2>2. Owned(batch, Members(batch), frames) => Owned(batch, Members(batch), frames)'
    BY <1>1, Zenon DEF Owned, Apart, Members, Anchors
  <2>3. QED
    BY <1>1, <2>1, <2>2
<1>6. (turn \in {"claims", "torn"} => Claiming(batch, reviews, saved, frames, pending))'
  <2>1. turn \in {"claims", "torn"} => Claiming(batch, reviews, saved, frames, pending)
    BY DEF ChainInv
  <2>2. Claiming(batch, reviews, saved, frames, pending) =>
            Claiming(batch, reviews, saved, frames, pending)'
    <3> SUFFICES ASSUME Claiming(batch, reviews, saved, frames, pending)
                 PROVE  Claiming(batch, reviews, saved, frames, pending)'
      OBVIOUS
    <3>1. Claiming(batch', reviews', saved', frames', pending')
      BY <1>1
    <3>2. Positions' = Positions
      BY <1>1 DEF Positions
    <3>3. QED
      BY <3>1, <3>2, Zenon DEF Claiming, Cutting, Apart, Owned, Holding, Members
  <2>3. QED
    BY <1>1, <2>1, <2>2
<1>7. (turn \in {"mend", "refresh"} => Mending(batch, reviews, saved, frames, pending))'
  <2>1. turn \in {"mend", "refresh"} => Mending(batch, reviews, saved, frames, pending)
    BY DEF ChainInv
  <2>2. Mending(batch, reviews, saved, frames, pending) =>
            Mending(batch, reviews, saved, frames, pending)'
    <3> SUFFICES ASSUME Mending(batch, reviews, saved, frames, pending)
                 PROVE  Mending(batch, reviews, saved, frames, pending)'
      OBVIOUS
    <3>1. Mending(batch', reviews', saved', frames', pending')
      BY <1>1
    <3>2. Positions' = Positions
      BY <1>1 DEF Positions
    <3>3. QED
      BY <3>1, <3>2, Zenon DEF Mending, Undoing, Apart, Owned, Holding, Members
  <2>3. QED
    BY <1>1, <2>1, <2>2
<1>8. (turn \in {"claims", "mend", "refresh"} => settled \subseteq DOMAIN reviews)'
  BY <1>1 DEF ChainInv
<1>9. (turn \in {"review", "repair"} => Streamed \subseteq DOMAIN reviews)'
  BY <1>1, Zenon DEF ChainInv, Streamed, Eligible, Active, IsSequence
<1>10. (turn \in Streaming =>
       /\ BatchSound(snapshot.batch) /\ FramesSound(snapshot.batch, snapshot.frames)
       /\ Owned(snapshot.batch, Members(snapshot.batch), snapshot.frames))'
  <2>1. UNCHANGED spawned
    BY DEF chainVars, ratedVars, generateVars
  <2>2. Heirs' = Heirs
    BY <1>1, <2>1, HeirsSame
  <2>3. QED
    BY <1>1, <2>2, SnapshotStays, Zenon DEF ChainInv, Streaming
<1>11. QED
  BY <1>1, <1>2, <1>3, <1>4, <1>5, <1>6, <1>7, <1>8, <1>9, <1>10 DEF ChainInv, Grounds

-------------------------------------------------------------------------------
(* The chain                                                               *)

\* What holds of the chain in every reachable state.
ChainSound == ChainInv /\ Inheriting /\ Novelty

\* The stages leave deduplication and the project alone.
LEMMA StagesApart ==
  ASSUME Stages
  PROVE  UNCHANGED <<project, vars>>
<1>1. CASE (ClassifyWave \/ FrameWave \/ ExtractWave) /\ UNCHANGED <<ratedVars, verifyVars, streamVars>>
  BY <1>1 DEF ClassifyWave, FrameWave, ExtractWave
<1>2. CASE (Rate \/ QualityDone) /\ UNCHANGED <<generateVars, verifyVars, streamVars>>
  <2>1. CASE Rate
    <3>1. PICK label \in Pools : RatePairwise(label) \/ RatePointwise(label)
      BY <2>1 DEF Rate
    <3>2. NextPool(label)
      BY <3>1 DEF RatePairwise, RatePointwise
    <3>3. QED
      BY <3>2 DEF NextPool
  <2>2. CASE QualityDone
    BY <2>2 DEF QualityDone
  <2>3. QED
    BY <1>2, <2>1, <2>2
<1>3. CASE (GenerateWave \/ AnnotateWave \/ FrameNotesWave) /\ UNCHANGED <<verifyVars, streamVars>>
  BY <1>3 DEF GenerateWave, AnnotateWave, FrameNotesWave
<1>4. CASE (VerifyBegin \/ ReviewWave \/ RepairWave) /\ UNCHANGED streamVars
  BY <1>4 DEF VerifyBegin, ReviewWave, RepairWave
<1>5. CASE StreamBegin \/ StreamReview \/ StreamClaims \/ StreamMend \/ StreamRefresh
  BY <1>5 DEF StreamBegin, StreamReview, StreamClaims, StreamMend, StreamRefresh
<1>6. CASE StreamCapacity \/ StreamTripped \/ VerifyEnd
  BY <1>6 DEF StreamCapacity, StreamTripped, VerifyEnd
<1>7. QED
  BY <1>1, <1>2, <1>3, <1>4, <1>5, <1>6, Zenon DEF Stages

\* Only generation changes what was generated, and not when it is off.
LEMMA StagesSpawn ==
  ASSUME Stages
  PROVE  UNCHANGED generateVars \/ (GenerateWave /\ project.generate # "off")
<1>1. CASE (ClassifyWave \/ FrameWave \/ ExtractWave) /\ UNCHANGED <<ratedVars, verifyVars, streamVars>>
  BY <1>1 DEF ratedVars
<1>2. CASE (Rate \/ QualityDone) /\ UNCHANGED <<generateVars, verifyVars, streamVars>>
  BY <1>2
<1>3. CASE (GenerateWave \/ AnnotateWave \/ FrameNotesWave) /\ UNCHANGED <<verifyVars, streamVars>>
  BY <1>3 DEF GenerateWave, AnnotateWave, FrameNotesWave, ratedVars
<1>4. CASE (VerifyBegin \/ ReviewWave \/ RepairWave) /\ UNCHANGED streamVars
  BY <1>4 DEF VerifyBegin, ReviewWave, RepairWave, ratedVars
<1>5. CASE StreamBegin \/ StreamReview \/ StreamClaims \/ StreamMend \/ StreamRefresh
  BY <1>5 DEF StreamBegin, StreamReview, StreamClaims, StreamMend, StreamRefresh, ratedVars
<1>6. CASE StreamCapacity \/ StreamTripped \/ VerifyEnd
  BY <1>6 DEF StreamCapacity, StreamTripped, VerifyEnd, ratedVars
<1>7. QED
  BY <1>1, <1>2, <1>3, <1>4, <1>5, <1>6, Zenon DEF Stages

\* The stages leave the classes of the generated records alone.
LEMMA HeirsStay ==
  ASSUME Stages
  PROVE  Heirs' = Heirs
<1>1. UNCHANGED project
  BY StagesApart
<1>2. CASE UNCHANGED generateVars
  BY <1>1, <1>2, HeirsSame DEF generateVars
<1>3. CASE project.generate # "off"
  BY <1>1, <1>3 DEF Heirs
<1>4. QED
  BY <1>2, <1>3, StagesSpawn

\* Every stage preserves the invariant.
LEMMA StagesKeep ==
  ASSUME ChainSound, Stages PROVE ChainInv'
<1> USE DEF ChainSound
<1> USE HeirsStay
<1>1. CASE (ClassifyWave \/ FrameWave \/ ExtractWave) /\ UNCHANGED <<ratedVars, verifyVars, streamVars>>
  BY <1>1, ClassifyKeeps, FramesWaveKeeps, ExtractKeeps
<1>2. CASE (Rate \/ QualityDone) /\ UNCHANGED <<generateVars, verifyVars, streamVars>>
  BY <1>2, RateKeeps, QualityDoneKeeps
<1>3. CASE (GenerateWave \/ AnnotateWave \/ FrameNotesWave) /\ UNCHANGED <<verifyVars, streamVars>>
  BY <1>3, GenerateKeeps, AnnotateKeeps, FrameNotesKeeps
<1>4. CASE (VerifyBegin \/ ReviewWave \/ RepairWave) /\ UNCHANGED streamVars
  BY <1>4, VerifyBeginKeeps, ReviewKeeps, RepairKeeps
<1>5. CASE StreamBegin \/ StreamReview \/ StreamClaims \/ StreamMend \/ StreamRefresh
  BY <1>5, StreamBeginKeeps, StreamReviewKeeps, ClaimsKeep, MendKeeps, RefreshKeeps
<1>6. CASE StreamCapacity \/ StreamTripped \/ VerifyEnd
  BY <1>6, CapacityKeeps, TrippedKeeps, VerifyEndKeeps
<1>7. QED
  BY <1>1, <1>2, <1>3, <1>4, <1>5, <1>6, Zenon DEF Stages

\* What was generated stays new while it is left alone.
LEMMA NoveltyStays ==
  Novelty /\ UNCHANGED <<fresh, spawned>> /\ project'.limit = project.limit
    /\ project'.rejected = project.rejected => Novelty'
<1> SUFFICES ASSUME Novelty, UNCHANGED <<fresh, spawned>>, project'.limit = project.limit,
                    project'.rejected = project.rejected
             PROVE  Novelty'
  OBVIOUS
<1>1. /\ NearNothing(fresh, SeedsOf(spawned.segments))'
           <=> NearNothing(fresh, SeedsOf(spawned.segments))
      /\ Earned(fresh, spawned.segments, spawned.plans, spawned.got)'
           <=> Earned(fresh, spawned.segments, spawned.plans, spawned.got)
  BY ZenonT(30) DEF NearNothing, Earned, SeedsOf, OwnerOf
<1>2. Complete(fresh, SeedsOf(spawned.segments), spawned.got)'
        <=> Complete(fresh, SeedsOf(spawned.segments), spawned.got)
  <2>1. SeedsOf(spawned.segments)' = SeedsOf(spawned.segments) /\ ContentsOf(fresh)' = ContentsOf(fresh)
    BY DEF SeedsOf, ContentsOf
  <2>2. spawned'.got = spawned.got
    OBVIOUS
  <2>3. QED
    BY <2>1, <2>2 DEF Complete
<1>3. QED
  BY <1>1, <1>2 DEF Novelty

\* So it stays through the stages.
LEMMA StagesNovel ==
  ASSUME ChainSound, Stages
  PROVE  Novelty'
<1>1. UNCHANGED project /\ Novelty
  BY StagesApart DEF ChainSound
<1>2. CASE UNCHANGED generateVars
  BY <1>1, <1>2, NoveltyStays DEF generateVars
<1>3. CASE GenerateWave /\ project.generate # "off"
  <2>1. CASE UNCHANGED generateVars
    BY <1>2, <2>1
  <2>2. CASE Spawn(Segments, Owners(Segments))
    <3>1. ProjectSound /\ BatchSound(batch)
      <4>1. stage = "generate"
        BY <1>3 DEF GenerateWave
      <4>2. project # Off
        BY <4>1 DEF ChainSound, ChainInv
      <4>3. QED
        BY <4>2 DEF ChainSound, ChainInv
    <3>2. QED
      BY <1>1, <2>2, <3>1, SpawnNovel
  <2>3. QED
    BY <1>3, <2>1, <2>2 DEF GenerateWave
<1>4. QED
  BY <1>2, <1>3, StagesSpawn

\* Every step preserves it.
LEMMA ChainKeeps == ChainSound /\ [ChainNext]_allVars => ChainSound'
<1> SUFFICES ASSUME ChainSound, [ChainNext]_allVars PROVE ChainSound'
  OBVIOUS
<1>1. CASE UNCHANGED chainVars
  <2>1. ChainInv'
    BY <1>1, StillKeeps DEF ChainSound
  <2>2. UNCHANGED <<project, fresh, spawned>>
    BY <1>1 DEF chainVars, ratedVars, generateVars
  <2>3. Novelty'
    BY <2>2, NoveltyStays DEF ChainSound
  <2>4. QED
    BY <2>1, <2>2, <2>3 DEF ChainSound, Inheriting
<1>2. CASE Admit
  <2>1. ChainInv'
    BY <1>2, AdmitKeeps DEF ChainSound
  <2>2. UNCHANGED <<project, fresh, spawned>>
    BY <1>2 DEF Admit, ratedVars, generateVars
  <2>3. Novelty'
    BY <2>2, NoveltyStays DEF ChainSound
  <2>4. QED
    BY <2>1, <2>2, <2>3 DEF ChainSound, Inheriting
<1>3. CASE Stages
  <2>1. ChainInv'
    BY <1>3, StagesKeep
  <2>2. UNCHANGED project /\ (UNCHANGED <<fresh, spawned>> \/ project.generate # "off")
    BY <1>3, StagesApart, StagesSpawn DEF generateVars
  <2>3. Inheriting'
    BY <2>2 DEF ChainSound, Inheriting
  <2>4. Novelty'
    BY <1>3, StagesNovel
  <2>5. QED
    BY <2>1, <2>3, <2>4 DEF ChainSound
<1>4. CASE Reflow
  <2>1. ChainInv' /\ Inheriting'
    BY <1>4, ReflowKeeps DEF ChainSound
  <2>2. /\ UNCHANGED <<fresh, spawned>> /\ project'.limit = project.limit
        /\ project'.rejected = project.rejected
    BY <1>4, ReflowLeaves DEF ChainSound
  <2>3. QED
    BY <2>1, <2>2, NoveltyStays DEF ChainSound
<1>5. QED
  BY <1>1, <1>2, <1>3, <1>4 DEF ChainNext, ChainStart, Deduplicate, allVars

\* The invariant holds in every reachable state of the chain.
THEOREM ChainInvariant == ChainSpec => []ChainSound
<1>1. ChainInit => ChainSound
  BY ChainStarts DEF ChainSound
<1>2. QED
  BY <1>1, ChainKeeps, PTL DEF ChainSpec

(* Whenever the stream driver is between rounds, and when it is left in    *)
(* whatever way, each absorbed frame is a member of exactly one sequence,  *)
(* and no other frame is a member of any, for every project, every set of  *)
(* defects and claims, and every failure of surgery (FrameOwned).          *)
THEOREM FrameOwnedCorrect == ChainSpec => []FrameOwned
<1>1. ChainSound => FrameOwned
  BY FrameOwnedHolds DEF ChainSound
<1>2. QED
  BY <1>1, ChainInvariant, PTL

\* A record that was generated is in its batch under the class of its seeds.
LEMMA HeirsEnter ==
  ASSUME ChainSound, spawned # None, project.generate = "off", NEW i \in DOMAIN batch
  PROVE  LET l == fresh[batch[i].record].class
         IN LabelOf(batch[i]) \in IF l = None THEN {None} \union Range(project.classes) ELSE {l}
<1> DEFINE e == batch[i]
           l == fresh[e.record].class
<1>1. project # Off
  <2>1. batch # <<>>
    BY NoPlaces
  <2>2. QED
    BY <2>1 DEF ChainSound, ChainInv
<1>2. EnvelopeSound(e)
  BY <1>1 DEF ChainSound, ChainInv, BatchSound
<1> HIDE DEF e
<1>3. e.record \in DOMAIN project.members /\ Heirs[e.record] = l
  BY <1>2 DEF EnvelopeSound, Heirs
<1>4. CASE l = None
  <2>1. LabelOf(e) \in {None} \union Range(project.classes)
    BY <1>2 DEF EnvelopeSound, LabelOf, Labelled
  <2>2. QED
    BY <1>4, <2>1 DEF e
<1>5. CASE l # None
  <2>1. LabelOf(e) = l
    BY <1>2, <1>3, <1>5 DEF EnvelopeSound, LabelOf, LabelledBy
  <2>2. QED
    BY <1>5, <2>1 DEF e
<1>6. QED
  BY <1>4, <1>5

(* What is generated is near no seed of any class and near nothing else    *)
(* that was generated, it is an answer of the call that was shown its      *)
(* seeds, whichever calls were never sent or failed, it enters the chain   *)
(* again under their class, and without a limit nothing else is lost that  *)
(* was answered, for every project and every relation of nearness          *)
(* (GeneratedNovel).                                                       *)
THEOREM GeneratedNovelCorrect == ChainSpec => []GeneratedNovel
<1>1. ChainSound => GeneratedNovel
  <2> SUFFICES ASSUME ChainSound, spawned # None PROVE GeneratedNovel
    BY DEF GeneratedNovel
  <2>1. /\ NearNothing(fresh, SeedsOf(spawned.segments))
        /\ Earned(fresh, spawned.segments, spawned.plans, spawned.got)
        /\ project.limit = None => Complete(fresh, SeedsOf(spawned.segments), spawned.got)
    BY DEF ChainSound, Novelty
  <2>2. project.generate = "off" => \A i \in DOMAIN batch :
          LET l == fresh[batch[i].record].class
          IN LabelOf(batch[i]) \in IF l = None THEN {None} \union Range(project.classes) ELSE {l}
    BY HeirsEnter
  <2>3. QED
    BY <2>1, <2>2, Zenon
       DEF GeneratedNovel, NearNothing, Earned, Complete, SeedsOf, OwnerOf, ContentsOf
<1>2. QED
  BY <1>1, ChainInvariant, PTL

\* The chain deduplicates on contents, the generated ones too, and nothing
\* but deduplication changes the index and the verdicts.
LEMMA ChainDedupKeeps == ChainSound /\ DedupInv /\ [ChainNext]_allVars => DedupInv'
<1> SUFFICES ASSUME ChainSound, DedupInv, [ChainNext]_allVars PROVE DedupInv'
  OBVIOUS
<1>1. CASE UNCHANGED vars
  BY <1>1, DedupInvStep
<1>2. CASE ChainStart
  <2>1. CASE project = Off
    BY <1>2, <2>1, DedupInvStep DEF ChainStart, Next
  <2>2. CASE project # Off
    <3>1. project.contents \in Seq(Contents)
      BY <2>2 DEF ChainSound, ChainInv, ProjectSound
    <3>2. StartWith(project.contents)
      BY <1>2, <2>2 DEF ChainStart
    <3>3. QED
      BY <3>1, <3>2, StartKeeps
  <2>3. QED
    BY <2>1, <2>2
<1>3. CASE Deduplicate
  BY <1>3, DedupInvStep DEF Deduplicate, Next
<1>4. CASE Reflow
  <2> DEFINE contents == [k \in DOMAIN fresh |-> fresh[k].content]
  <2>1. (StartWith(contents) \/ UNCHANGED vars) /\ project # Off
    BY <1>4 DEF Reflow
  <2>2. FreshSound
    BY <2>1 DEF ChainSound, ChainInv
  <2>3. contents \in Seq(Contents)
    <3>1. PICK n \in Nat : DOMAIN fresh = 1 .. n
      BY <2>2 DEF FreshSound
    <3>2. QED
      BY <2>2, <3>1 DEF FreshSound
  <2> HIDE DEF contents
  <2>4. QED
    BY <1>1, <2>1, <2>3, StartKeeps
<1>5. CASE Admit
  BY <1>1, <1>5 DEF Admit
<1>6. CASE Stages
  BY <1>1, <1>6, StagesApart
<1>7. CASE UNCHANGED allVars
  BY <1>1, <1>7 DEF allVars
<1>8. QED
  BY <1>2, <1>3, <1>4, <1>5, <1>6, <1>7 DEF ChainNext

\* A commit is a step of deduplication, if anything changes at all.
LEMMA ChainCommits ==
  ASSUME DedupInv, [ChainNext]_allVars
  PROVE  [Commit => LET direct == Reduction(Prefix, records, outcomes, 1)
                    IN verdicts = direct.verdicts /\ index' = Prefix \o direct.own]_vars
BY CommitAgrees

\* The invariant of the index holds in every reachable state of the chain.
THEOREM DedupInvariant == ChainSpec => []DedupInv
<1>1. ChainInit => DedupInv
  BY DedupInvInit DEF ChainInit
<1>2. QED
  BY <1>1, ChainDedupKeeps, ChainInvariant, PTL DEF ChainSpec

(* A duplicate is dropped for a record that the index holds, the index     *)
(* holds what was kept and nothing else, and each cluster is counted once, *)
(* whatever was judged near, however often a session was tried, and also   *)
(* when generated records follow the records they came from (KeptIsKept).  *)
THEOREM KeptIsKeptCorrect == ChainSpec => []KeptIsKept
BY KeptHolds, DedupInvariant, PTL

(* What is committed is what the index of the owner would have come to:    *)
(* the same verdicts, in favour of the same records, and the same entries  *)
(* (OverlayAgrees).                                                        *)
THEOREM OverlayAgreesCorrect == ChainSpec => OverlayAgrees
BY ChainCommits, DedupInvariant, PTL DEF ChainSpec, OverlayAgrees

-------------------------------------------------------------------------------
(* Votes                                                                   *)

\* An annotation: what more than half of the answers agree on is chosen.
Elected(a) ==
  /\ DOMAIN a = {"chosen", "of", "version"}
  /\ \A k \in DOMAIN a.of :
       2 * Cardinality({l \in DOMAIN a.of : a.of[l] = a.of[k]}) > Len(a.of) => a.chosen = a.of[k]
Voted(a) == a = None \/ Elected(a)

\* In each field the values of a majority win alone.
LEMMA MajorityWins ==
  ASSUME NEW T, NEW s \in Seq(T), NEW k \in DOMAIN s, NEW f,
         2 * Cardinality({l \in DOMAIN s : s[l] = s[k]}) > Len(s),
         NEW winners,
         winners = {v \in {s[l][f] : l \in DOMAIN s} : \A w \in {s[l][f] : l \in DOMAIN s} :
             Cardinality({l \in DOMAIN s : s[l][f] = w}) <= Cardinality({l \in DOMAIN s : s[l][f] = v})}
  PROVE  winners = {s[k][f]}
<1> DEFINE n == Len(s)
           D == DOMAIN s
           like == {l \in D : s[l] = s[k]}
           on(w) == {l \in D : s[l][f] = w}
           v == s[k][f]
<1>1. n \in Nat /\ D = 1 .. n /\ IsFiniteSet(D) /\ Cardinality(D) = n
  <2>1. n \in Nat /\ D = 1 .. n
    BY LenProperties
  <2>2. QED
    BY <2>1, PlacesFinite
<1>2. 2 * Cardinality(like) > n /\ like \in SUBSET D
  OBVIOUS
<1>3. \A w : on(w) \in SUBSET D
  OBVIOUS
<1>4. like \in SUBSET on(v)
  OBVIOUS
<1>5. \A w : (on(w) \intersect on(v) # {} => w = v)
  OBVIOUS
<1> DEFINE said == {s[l][f] : l \in D}
<1>6. v \in said /\ winners = {x \in said : \A w \in said : Cardinality(on(w)) <= Cardinality(on(x))}
  BY Zenon
<1> HIDE DEF n, D, like, on, v, said
<1>7. \A w : IsFiniteSet(on(w)) /\ Cardinality(on(w)) \in Nat
  BY <1>1, <1>3, SubsetSizes
<1>8. 2 * Cardinality(on(v)) > n
  <2>1. Cardinality(like) <= Cardinality(on(v)) /\ Cardinality(like) \in Nat
    BY <1>4, <1>7, SubsetSizes
  <2>2. QED
    BY <1>1, <1>2, <1>7, <2>1
<1>9. ASSUME NEW w, w # v PROVE ~ 2 * Cardinality(on(w)) > n
  <2> SUFFICES ASSUME 2 * Cardinality(on(w)) > n PROVE FALSE
    OBVIOUS
  <2>1. on(w) \intersect on(v) # {}
    BY <1>1, <1>3, <1>8, Majorities
  <2>2. QED
    BY <1>5, <1>9, <2>1
<1>10. \A w : w # v => Cardinality(on(w)) < Cardinality(on(v))
  BY <1>1, <1>7, <1>8, <1>9
<1>11. v \in winners
  <2>1. \A w : Cardinality(on(w)) <= Cardinality(on(v))
    BY <1>7, <1>10
  <2>2. QED
    BY <1>6, <2>1
<1>12. \A x \in winners : x = v
  <2> SUFFICES ASSUME NEW x \in winners, x # v PROVE FALSE
    OBVIOUS
  <2>1. Cardinality(on(v)) <= Cardinality(on(x))
    BY <1>6
  <2>2. QED
    BY <1>7, <1>10, <2>1
<1>13. QED
  BY <1>11, <1>12 DEF v

\* What most samples agree on is chosen.
LEMMA MajorityChosen ==
  ASSUME ProjectSound, NEW s \in Seq(project.combinations), NEW k \in DOMAIN s,
         2 * Cardinality({l \in DOMAIN s : s[l] = s[k]}) > Len(s)
  PROVE  s[MajorityVote(s)] = s[k]
<1> DEFINE votes(f, v) == Cardinality({l \in DOMAIN s : s[l][f] = v})
           winners(f) == {v \in {s[l][f] : l \in DOMAIN s} :
                            \A w \in {s[l][f] : l \in DOMAIN s} : votes(f, w) <= votes(f, v)}
           target == ModalCombination(s)
           like == {l \in DOMAIN s : s[l] = target}
<1>1. s[k] = [f \in 1 .. project.voted |-> s[k][f]]
  BY ElementOfSeq DEF ProjectSound
<1>2. ASSUME NEW f PROVE winners(f) = {s[k][f]}
  <2> DEFINE W == winners(f)
  <2>1. W = {v \in {s[l][f] : l \in DOMAIN s} : \A w \in {s[l][f] : l \in DOMAIN s} :
             Cardinality({l \in DOMAIN s : s[l][f] = w}) <= Cardinality({l \in DOMAIN s : s[l][f] = v})}
    BY Zenon
  <2> HIDE DEF W
  <2>2. W = {s[k][f]}
    BY <2>1, MajorityWins, ZenonT(30)
  <2>3. QED
    BY <2>2 DEF W
<1>3. target = IF \A f \in 1 .. project.voted : Cardinality(winners(f)) = 1
               THEN [f \in 1 .. project.voted |-> CHOOSE v \in winners(f) : TRUE] ELSE None
  BY Zenon DEF ModalCombination
<1>4. MajorityVote(s) = IF like = {} THEN 1 ELSE Min(like)
  BY Zenon DEF MajorityVote
<1> HIDE DEF winners, target
<1>5. \A f : Cardinality(winners(f)) = 1 /\ (CHOOSE v \in winners(f) : TRUE) = s[k][f]
  <2> SUFFICES ASSUME NEW f PROVE Cardinality(winners(f)) = 1 /\ (CHOOSE v \in winners(f) : TRUE) = s[k][f]
    OBVIOUS
  <2>1. Cardinality({s[k][f]}) = 1 /\ (CHOOSE v \in {s[k][f]} : TRUE) = s[k][f]
    BY FS_Singleton
  <2>2. QED
    BY <1>2, <2>1
<1>6. target = s[k]
  BY <1>1, <1>3, <1>5
<1>7. k \in like /\ like \in SUBSET (1 .. Len(s)) /\ Len(s) \in Nat
  BY <1>6, LenProperties
<1> HIDE DEF like
<1>8. like \in SUBSET Int /\ IsFiniteSet(like) /\ like # {}
  BY <1>7, PlacesFinite, FS_Subset
<1>9. Min(like) \in like
  BY <1>8, Extremes
<1>10. QED
  BY <1>4, <1>6, <1>8, <1>9 DEF like

\* What an envelope says of votes.
Polled(e) == Voted(e.annotation) /\ (e.class # None => Polling(e.class.labels))

\* A change of an envelope that keeps what was voted.
Heeded(e, g) ==
  /\ g.class = e.class
  /\ Voted(e.annotation) => Voted(g.annotation)
  /\ Elected(e.annotation) => Elected(g.annotation)

\* Failing keeps it,
LEMMA FailHeeds ==
  ASSUME NEW e, DOMAIN e = EnvelopeFields, NEW kind
  PROVE  Heeded(e, Fail(e, kind)) /\ Heeded(e, e)
<1>1. Fail(e, kind).class = e.class /\ Fail(e, kind).annotation = e.annotation
  BY DEF Fail, EnvelopeFields
<1>2. QED
  BY <1>1 DEF Heeded

\* and so does a later version of an annotation,
LEMMA RevisedHeeds ==
  ASSUME NEW e, DOMAIN e = EnvelopeFields, Elected(e.annotation)
  PROVE  Heeded(e, Revised(e))
<1> DEFINE a == e.annotation
           b == [a EXCEPT !.version = @ + 1]
<1>1. Elected(b)
  <2>1. DOMAIN b = DOMAIN a /\ b.chosen = a.chosen /\ b.of = a.of
    BY DEF Elected
  <2> HIDE DEF a, b
  <2>2. Elected(a)
    BY DEF a
  <2>3. QED
    BY <2>1, <2>2 DEF Elected
<1>2. Revised(e).class = e.class /\ Revised(e).annotation = b
  BY DEF Revised, EnvelopeFields
<1>3. QED
  BY <1>1, <1>2 DEF Heeded, Voted

\* and the end of a review that has one.
LEMMA FinalizedHeeds ==
  ASSUME NEW e, DOMAIN e = EnvelopeFields, NEW r, Elected(r.annotation)
  PROVE  Heeded(e, Finalized(e, r)) /\ Elected(Finalized(e, r).annotation)
<1>1. Finalized(e, r).class = e.class /\ Finalized(e, r).annotation = r.annotation
  BY DEF Finalized, EnvelopeFields
<1>2. QED
  BY <1>1 DEF Heeded, Voted

\* What the answers vote for is elected.
LEMMA AnnotatedHeeds ==
  ASSUME ProjectSound, NEW e, DOMAIN e = EnvelopeFields, NEW n \in Nat,
         NEW got \in [1 .. n -> Got(project.combinations, project.annotate_failures)]
  PROVE  Heeded(e, Annotated(e, got))
<1> DEFINE hard == HardErrors(got)
           valid == Answers(got)
           a == [chosen |-> valid[MajorityVote(valid)], of |-> valid, version |-> 0]
           c == Annotated(e, got)
<1>1. c = IF hard # <<>> THEN Fail(e, hard[1].failed)
          ELSE IF valid = <<>> THEN Fail(e, "schema_violation") ELSE [e EXCEPT !.annotation = a]
  BY Zenon DEF Annotated
<1>2. valid \in Seq(project.combinations)
  <2>1. got \in Seq(Got(project.combinations, project.annotate_failures))
    OBVIOUS
  <2> HIDE DEF valid
  <2>2. QED
    BY <2>1, AnswersAre DEF valid
<1> HIDE DEF hard, valid, c
<1>3. Elected(a)
  <2> DEFINE w == valid[MajorityVote(valid)]
  <2>1. \A k \in DOMAIN valid :
          2 * Cardinality({l \in DOMAIN valid : valid[l] = valid[k]}) > Len(valid) => w = valid[k]
    BY <1>2, MajorityChosen
  <2> HIDE DEF w
  <2>2. DOMAIN a = {"chosen", "of", "version"} /\ a.chosen = w /\ a.of = valid
    BY DEF w
  <2> HIDE DEF a
  <2>3. QED
    BY <2>1, <2>2 DEF Elected
<1> HIDE DEF a
<1>4. [e EXCEPT !.annotation = a].class = e.class /\ [e EXCEPT !.annotation = a].annotation = a
  BY DEF EnvelopeFields
<1>5. Heeded(e, [e EXCEPT !.annotation = a])
  BY <1>3, <1>4 DEF Heeded, Voted
<1>6. Heeded(e, Fail(e, hard[1].failed)) /\ Heeded(e, Fail(e, "schema_violation"))
  BY FailHeeds
<1>7. QED
  BY <1>1, <1>5, <1>6 DEF c

\* A change of a batch that keeps what was voted.
Heeds(b, c) == DOMAIN c = DOMAIN b /\ \A i \in DOMAIN b : Heeded(b[i], c[i])

\* Extraction is such a change,
LEMMA ExtractHeeds ==
  ASSUME BatchSound(batch), ExtractWave
  PROVE  Heeds(batch, batch')
<1>1. PICK failing \in SUBSET {i \in Unextracted : project.extract_fails} :
        batch' = [i \in DOMAIN batch |->
            IF ~project.extract \/ i \notin Unextracted THEN batch[i]
            ELSE IF i \in failing THEN Fail(batch[i], "extraction_invalid")
            ELSE [batch[i] EXCEPT !.steps = StepsOf(batch[i].members, batch[i].seams)]]
  BY DEF ExtractWave
<1>2. ASSUME NEW i \in DOMAIN batch PROVE Heeded(batch[i], batch'[i])
  <2>1. DOMAIN batch[i] = EnvelopeFields
    BY EnvelopeDomains
  <2>2. Heeded(batch[i], Fail(batch[i], "extraction_invalid")) /\ Heeded(batch[i], batch[i])
    BY <2>1, FailHeeds
  <2>3. Heeded(batch[i], [batch[i] EXCEPT !.steps = StepsOf(batch[i].members, batch[i].seams)])
    BY <2>1 DEF Heeded, EnvelopeFields
  <2>4. QED
    BY <1>1, <2>2, <2>3
<1>3. QED
  BY <1>1, <1>2 DEF Heeds

\* and so is rating,
LEMMA RateHeeds ==
  ASSUME BatchSound(batch), Rate
  PROVE  Heeds(batch, batch')
<1>1. DOMAIN batch' = DOMAIN batch /\ \A i \in DOMAIN batch : \E x, y :
        \/ batch'[i] = batch[i] \/ batch'[i] = [batch[i] EXCEPT !.score = x, !.status = y]
        \/ batch'[i] = Fail(batch[i], x)
  <2>1. CASE \E s : FailPool(s)
    BY <2>1 DEF FailPool
  <2>2. CASE \E s, scores, failed : Gate(s, scores, failed)
    <3>1. PICK s, scores, failed : Gate(s, scores, failed)
      BY <2>2
    <3>2. DOMAIN batch' = DOMAIN batch /\ \A i \in DOMAIN batch : \E x, y :
            batch'[i] = batch[i] \/ batch'[i] = [batch[i] EXCEPT !.score = x, !.status = y]
      BY <3>1, ZenonT(30) DEF Gate
    <3>3. QED
      BY <3>2
  <2>3. QED
    BY <2>1, <2>2, RateIs
<1>2. ASSUME NEW i \in DOMAIN batch PROVE Heeded(batch[i], batch'[i])
  <2>1. DOMAIN batch[i] = EnvelopeFields
    BY EnvelopeDomains
  <2>2. PICK x, y :
        \/ batch'[i] = batch[i] \/ batch'[i] = [batch[i] EXCEPT !.score = x, !.status = y]
        \/ batch'[i] = Fail(batch[i], x)
    BY <1>1
  <2>3. CASE batch'[i] = [batch[i] EXCEPT !.score = x, !.status = y]
    BY <2>1, <2>3 DEF Heeded, EnvelopeFields
  <2>4. Heeded(batch[i], Fail(batch[i], x)) /\ Heeded(batch[i], batch[i])
    BY <2>1, FailHeeds
  <2>5. QED
    BY <2>2, <2>3, <2>4
<1>3. QED
  BY <1>1, <1>2 DEF Heeds

\* and annotation,
LEMMA AnnotateHeeds ==
  ASSUME ProjectSound, BatchSound(batch), AnnotateWave
  PROVE  Heeds(batch, batch')
<1>1. CASE UNCHANGED batch
  BY <1>1, EnvelopeDomains, FailHeeds DEF Heeds
<1>2. CASE ~ UNCHANGED batch
  <2>1. PICK got \in [Active -> [1 .. AnnotateSamples ->
                        Got(project.combinations, project.annotate_failures)]] :
            batch' = [i \in DOMAIN batch |->
                        IF i \in Active THEN Annotated(batch[i], got[i]) ELSE batch[i]]
    BY <1>2 DEF AnnotateWave
  <2>2. AnnotateSamples \in Nat
    BY DEF AnnotateSamples, ProjectSound
  <2>3. ASSUME NEW i \in DOMAIN batch PROVE Heeded(batch[i], batch'[i])
    <3>1. DOMAIN batch[i] = EnvelopeFields
      BY EnvelopeDomains
    <3>2. CASE i \in Active
      <4>1. got[i] \in [1 .. AnnotateSamples -> Got(project.combinations, project.annotate_failures)]
        BY <3>2
      <4>2. Heeded(batch[i], Annotated(batch[i], got[i]))
        BY <2>2, <3>1, <4>1, AnnotatedHeeds
      <4>3. QED
        BY <2>1, <3>2, <4>2
    <3>3. CASE i \notin Active
      <4>1. batch'[i] = batch[i]
        BY <2>1, <3>3
      <4>2. QED
        BY <3>1, <4>1, FailHeeds
    <3>4. QED
      BY <3>2, <3>3
  <2>4. QED
    BY <2>1, <2>3 DEF Heeds
<1>3. QED
  BY <1>1, <1>2

\* A wave of reviews is one too,
LEMMA ReviewHeeds ==
  ASSUME BatchSound(batch), ReviewsSound, \A i \in DOMAIN reviews : Elected(reviews[i].annotation),
         ReviewWave
  PROVE  /\ Heeds(batch, batch') /\ DOMAIN reviews' = DOMAIN reviews
         /\ \A i \in DOMAIN reviews : Elected(reviews'[i].annotation)
<1>1. PICK votes \in [pending -> [Judging -> project.votes]] :
       LET verdict(i) == PanelVerdict(votes[i])
           review(i) == [reviews[i] EXCEPT !.rounds = @ + 1, !.verdict = verdict(i)]
           judged == {i \in pending : verdict(i) # "error"}
           repairs == {i \in judged : Repairable(review(i))}
       IN /\ reviews' = [i \in DOMAIN reviews |-> IF i \in judged THEN review(i) ELSE reviews[i]]
          /\ batch' = [i \in DOMAIN batch |->
               IF i \in pending \ judged THEN Fail(batch[i], "verify")
               ELSE IF i \in judged \ repairs THEN Finalized(batch[i], review(i))
               ELSE batch[i]]
  BY Zenon DEF ReviewWave
<1> DEFINE review(i) == [reviews[i] EXCEPT !.rounds = @ + 1, !.verdict = PanelVerdict(votes[i])]
           judged == {i \in pending : PanelVerdict(votes[i]) # "error"}
           repairs == {i \in judged : Repairable(review(i))}
<1>2. /\ reviews' = [i \in DOMAIN reviews |-> IF i \in judged THEN review(i) ELSE reviews[i]]
      /\ batch' = [i \in DOMAIN batch |->
           IF i \in pending \ judged THEN Fail(batch[i], "verify")
           ELSE IF i \in judged \ repairs THEN Finalized(batch[i], review(i))
           ELSE batch[i]]
  BY <1>1
<1>3. ASSUME NEW i \in DOMAIN reviews PROVE Elected(review(i).annotation)
  <2>1. review(i).annotation = reviews[i].annotation
    BY DEF ReviewsSound, ReviewFields
  <2>2. QED
    BY <2>1
<1>4. judged \subseteq DOMAIN reviews
  BY DEF ReviewsSound
<1> HIDE DEF review, judged, repairs
<1>5. ASSUME NEW i \in DOMAIN batch PROVE Heeded(batch[i], batch'[i])
  <2>1. DOMAIN batch[i] = EnvelopeFields
    BY EnvelopeDomains
  <2>2. Heeded(batch[i], Fail(batch[i], "verify")) /\ Heeded(batch[i], batch[i])
    BY <2>1, FailHeeds
  <2>3. CASE i \in judged
    <3>1. Elected(review(i).annotation)
      BY <1>3, <1>4, <2>3
    <3>2. Heeded(batch[i], Finalized(batch[i], review(i)))
      BY <2>1, <3>1, FinalizedHeeds
    <3>3. QED
      BY <1>2, <2>2, <2>3, <3>2
  <2>4. CASE i \notin judged
    BY <1>2, <2>2, <2>4
  <2>5. QED
    BY <2>3, <2>4
<1>6. \A i \in DOMAIN reviews : Elected(reviews'[i].annotation)
  BY <1>2, <1>3
<1>7. QED
  BY <1>2, <1>5, <1>6 DEF Heeds

\* and a wave of repairs.
LEMMA RepairHeeds ==
  ASSUME BatchSound(batch), ReviewsSound, \A i \in DOMAIN reviews : Elected(reviews[i].annotation),
         RepairWave
  PROVE  /\ Heeds(batch, batch') /\ DOMAIN reviews' = DOMAIN reviews
         /\ \A i \in DOMAIN reviews : Elected(reviews'[i].annotation)
<1> DEFINE revised(i) == [reviews[i] EXCEPT !.annotation.version = @ + 1]
<1>1. PICK failing \in SUBSET {i \in pending : project.repair_fails} :
       /\ reviews' = [i \in DOMAIN reviews |-> IF i \in pending \ failing THEN revised(i) ELSE reviews[i]]
       /\ batch' = [i \in DOMAIN batch |-> IF i \in failing THEN Fail(batch[i], "repair") ELSE batch[i]]
  BY Zenon DEF RepairWave
<1>2. ASSUME NEW i \in DOMAIN reviews PROVE Elected(revised(i).annotation)
  <2> DEFINE a == reviews[i].annotation
             b == [a EXCEPT !.version = @ + 1]
  <2>1. revised(i).annotation = b
    BY DEF ReviewsSound, ReviewFields
  <2>2. DOMAIN b = DOMAIN a /\ b.chosen = a.chosen /\ b.of = a.of
    BY DEF Elected
  <2>3. Elected(a)
    OBVIOUS
  <2> HIDE DEF a, b
  <2>4. Elected(b)
    BY <2>2, <2>3 DEF Elected
  <2>5. QED
    BY <2>1, <2>4
<1> HIDE DEF revised
<1>3. \A i \in DOMAIN reviews : Elected(reviews'[i].annotation)
  BY <1>1, <1>2
<1>4. ASSUME NEW i \in DOMAIN batch PROVE Heeded(batch[i], batch'[i])
  <2>1. DOMAIN batch[i] = EnvelopeFields
    BY EnvelopeDomains
  <2>2. Heeded(batch[i], Fail(batch[i], "repair")) /\ Heeded(batch[i], batch[i])
    BY <2>1, FailHeeds
  <2>3. QED
    BY <1>1, <2>2
<1>5. QED
  BY <1>1, <1>3, <1>4 DEF Heeds

\* So is a round of reviews of sequences,
LEMMA StreamReviewHeeds ==
  ASSUME Underway, Owned(batch, Members(batch), frames), StreamReview
  PROVE  Heeds(batch, batch') /\ DOMAIN reviews' = DOMAIN reviews
<1>1. PICK reports \in [pending -> project.reports] :
       LET judged == {i \in pending : reports[i].verdict # "error"}
           end == RouteRound(judged, reports)
       IN /\ reviews' = end.reviews
          /\ batch' = [i \in DOMAIN batch |->
               IF i \in pending \ judged THEN Fail(batch[i], "verify") ELSE batch[i]]
  BY Zenon DEF StreamReview
<1> DEFINE judged == {i \in pending : reports[i].verdict # "error"}
           end == RouteRound(judged, reports)
<1>2. /\ reviews' = end.reviews
      /\ batch' = [i \in DOMAIN batch |->
           IF i \in pending \ judged THEN Fail(batch[i], "verify") ELSE batch[i]]
  BY <1>1
<1>3. judged \in SUBSET pending /\ pending # {}
  BY DEF StreamReview
<1>4. ProjectSound /\ BatchSound(batch) /\ ReviewsSound /\ FramesSound(batch, frames)
  BY DEF Underway, Grounds
<1>5. Round(judged, end, reports)
  BY <1>3, <1>4, RoundSound
<1> HIDE DEF end, judged
<1>6. DOMAIN reviews' = DOMAIN reviews
  BY <1>2, <1>5 DEF Round
<1>7. ASSUME NEW i \in DOMAIN batch PROVE Heeded(batch[i], batch'[i])
  <2>1. DOMAIN batch[i] = EnvelopeFields
    BY <1>4, EnvelopeDomains
  <2>2. Heeded(batch[i], Fail(batch[i], "verify")) /\ Heeded(batch[i], batch[i])
    BY <2>1, FailHeeds
  <2>3. QED
    BY <1>2, <2>2
<1>8. QED
  BY <1>2, <1>6, <1>7 DEF Heeds

\* what mending makes of the batch,
LEMMA MendHeeds ==
  ASSUME BatchSound(batch), ReviewsSound, \A i \in DOMAIN reviews : Elected(batch[i].annotation), NEW fate,
         NEW revised
  PROVE  Heeds(batch, Mend(fate, revised).batch)
<1> DEFINE m == Mend(fate, revised)
           e(i) == IF i \in MendRebuilt(fate) THEN Rebuilt(i, MendSeams(i)) ELSE batch[i]
           next == m.next
<1>1. /\ next \subseteq pending
      /\ m.batch = [i \in DOMAIN batch |-> IF i \notin pending THEN e(i)
                      ELSE IF i \in next THEN IF revised THEN Revised(e(i)) ELSE e(i)
                      ELSE Fail(e(i), "verify")]
  BY MendIs DEF Revised
<1>2. ASSUME NEW i \in DOMAIN batch
      PROVE  /\ DOMAIN e(i) = EnvelopeFields /\ e(i).class = batch[i].class
             /\ e(i).annotation = batch[i].annotation
  <2>1. DOMAIN batch[i] = EnvelopeFields
    BY EnvelopeDomains
  <2>2. CASE i \in MendRebuilt(fate)
    <3>1. \E k, s, t : Rebuilt(i, MendSeams(i)) = Remade(batch[i], k, s, t)
      BY DEF Rebuilt, Remade
    <3>2. PICK k, s, t : e(i) = Remade(batch[i], k, s, t)
      BY <2>2, <3>1
    <3> HIDE DEF e
    <3>3. QED
      BY <2>1, <3>2 DEF Remade, EnvelopeFields
  <2>3. CASE i \notin MendRebuilt(fate)
    BY <2>1, <2>3
  <2>4. QED
    BY <2>2, <2>3
<1> HIDE DEF m, e, next
<1>3. ASSUME NEW i \in DOMAIN batch PROVE Heeded(batch[i], m.batch[i])
  <2>1. Heeded(batch[i], e(i))
    BY <1>2 DEF Heeded
  <2>2. Heeded(e(i), Fail(e(i), "verify"))
    BY <1>2, FailHeeds
  <2>3. CASE i \in next
    <3>1. Elected(e(i).annotation)
      BY <1>1, <1>2, <2>3 DEF ReviewsSound
    <3>2. Heeded(e(i), Revised(e(i)))
      BY <1>2, <3>1, RevisedHeeds
    <3>3. m.batch[i] = e(i) \/ m.batch[i] = Revised(e(i))
      BY <1>1, <2>3
    <3>4. QED
      BY <2>1, <3>2, <3>3 DEF Heeded
  <2>4. CASE i \notin next
    <3>1. m.batch[i] = e(i) \/ m.batch[i] = Fail(e(i), "verify")
      BY <1>1, <2>4
    <3>2. QED
      BY <2>1, <2>2, <3>1 DEF Heeded
  <2>5. QED
    BY <2>3, <2>4
<1>4. DOMAIN m.batch = DOMAIN batch
  BY <1>1
<1>5. QED
  BY <1>3, <1>4 DEF Heeds, m

\* and what settling makes of one.
LEMMA SettleHeeds ==
  ASSUME NEW b, BatchSound(b), NEW revs, NEW done,
         \A i \in done : Elected(b[i].annotation) /\ DOMAIN revs[i] = ReviewFields
  PROVE  Heeds(b, Settle(b, revs, done))
<1> DEFINE c == Settle(b, revs, done)
           review(i) == [revs[i] EXCEPT !.annotation = b[i].annotation]
<1>1. c = [i \in DOMAIN b |-> IF i \in done THEN Finalized(b[i], review(i)) ELSE b[i]]
  BY DEF Settle
<1>2. \A i \in done : review(i).annotation = b[i].annotation
  BY DEF ReviewFields
<1> HIDE DEF c, review
<1>3. ASSUME NEW i \in DOMAIN b PROVE Heeded(b[i], c[i])
  <2>1. DOMAIN b[i] = EnvelopeFields
    BY DEF BatchSound, EnvelopeSound
  <2>2. CASE i \in done
    <3>1. Elected(review(i).annotation)
      BY <1>2, <2>2
    <3>2. Heeded(b[i], Finalized(b[i], review(i)))
      BY <2>1, <3>1, FinalizedHeeds
    <3>3. QED
      BY <1>1, <2>2, <3>2
  <2>3. CASE i \notin done
    <3>1. c[i] = b[i]
      BY <1>1, <2>3
    <3>2. QED
      BY <3>1 DEF Heeded
  <2>4. QED
    BY <2>2, <2>3
<1>4. QED
  BY <1>1, <1>3 DEF Heeds, c

\* Such changes one after the other,
LEMMA HeedsAll ==
  ASSUME NEW b, NEW c, NEW d, Heeds(b, c), Heeds(c, d)
  PROVE  Heeds(b, d)
BY DEF Heeds, Heeded

\* So is the end of a round of repairs,
LEMMA StreamMendHeeds ==
  ASSUME Underway, Mending(batch, reviews, saved, frames, pending), settled \subseteq DOMAIN reviews,
         \A i \in DOMAIN reviews : Elected(batch[i].annotation), StreamMend
  PROVE  Heeds(batch, batch') /\ DOMAIN reviews' = DOMAIN reviews
<1>1. PICK fate \in [pending -> project.fates] :
       LET m == Mend(fate, TRUE)
           b == Settle(m.batch, reviews, settled)
           dirty == SeamDependents(b, reviews)
           spent == {i \in dirty : reviews[i].rounds > project.repairs}
           redo == dirty \ spent
           revs == [i \in DOMAIN reviews |->
             IF i \in spent THEN [reviews[i] EXCEPT !.verdict = "fail"]
             ELSE IF i \in redo THEN [reviews[i] EXCEPT !.working = b[i].members, !.surgical = TRUE,
                                        !.relabel = TRUE, !.claims = <<>>]
             ELSE reviews[i]]
       IN batch' = Settle(b, revs, spent) /\ reviews' = revs
  BY Zenon DEF StreamMend
<1> DEFINE m == Mend(fate, TRUE)
           b == Settle(m.batch, reviews, settled)
           dirty == SeamDependents(b, reviews)
           spent == {i \in dirty : reviews[i].rounds > project.repairs}
           failed(r) == [r EXCEPT !.verdict = "fail"]
           redo == dirty \ spent
           again(i) == [reviews[i] EXCEPT !.working = b[i].members, !.surgical = TRUE,
                                        !.relabel = TRUE, !.claims = <<>>]
<1>2. /\ batch' = Settle(b, reviews', spent)
      /\ reviews' = [i \in DOMAIN reviews |->
           IF i \in spent THEN failed(reviews[i]) ELSE IF i \in redo THEN again(i) ELSE reviews[i]]
  BY <1>1
<1>3. BatchSound(batch) /\ FramesSound(batch, frames) /\ ReviewsSound
  BY DEF Underway, Grounds
<1>4. Heeds(batch, m.batch) /\ Mended(m)
  BY <1>3, MendHeeds, MendSound
<1>5. DOMAIN reviews \subseteq DOMAIN batch /\ \A i \in DOMAIN reviews : DOMAIN reviews[i] = ReviewFields
  BY <1>3 DEF ReviewsSound
<1>6. dirty \subseteq DOMAIN reviews
  BY DEF SeamDependents, StreamStates
<1>7. \A r : DOMAIN r = ReviewFields => DOMAIN failed(r) = ReviewFields
  BY DEF ReviewFields
<1>8. spent \subseteq DOMAIN reviews
  BY <1>6
<1>9. \A i \in spent : reviews'[i] = failed(reviews[i])
  BY <1>2, <1>8
<1>10. DOMAIN reviews' = DOMAIN reviews
  BY <1>2
<1> HIDE DEF m, b, spent, dirty, failed, redo, again
<1>11. Heeds(m.batch, b) /\ BatchSound(b)
  <2>1. \A i \in settled : Elected(m.batch[i].annotation) /\ DOMAIN reviews[i] = ReviewFields
    BY <1>4, <1>5 DEF Heeds, Heeded
  <2>2. Heeds(m.batch, b)
    BY <1>4, <2>1, SettleHeeds DEF b, Mended
  <2>3. SameShape(m.batch, b)
    BY <1>4, SettleSame DEF b, Mended
  <2>4. BatchSound(b)
    BY <1>4, <2>3, ShapeKeeps DEF Mended
  <2>5. QED
    BY <2>2, <2>4
<1>12. Heeds(batch, b)
  BY <1>4, <1>11, HeedsAll
<1>13. \A i \in spent : Elected(b[i].annotation) /\ DOMAIN reviews'[i] = ReviewFields
  BY <1>5, <1>7, <1>8, <1>9, <1>12 DEF Heeds, Heeded
<1>14. Heeds(b, batch')
  BY <1>2, <1>11, <1>13, SettleHeeds
<1>15. QED
  BY <1>10, <1>12, <1>14, HeedsAll

\* What is known of votes: in the batch, in what is reviewed, and in what can come back.
Polls ==
  /\ \A i \in DOMAIN batch : Polled(batch[i])
  /\ turn # "idle" => \A i \in DOMAIN reviews : Elected(batch[i].annotation)
  /\ turn \in {"review", "repair"} => \A i \in DOMAIN reviews : Elected(reviews[i].annotation)
  /\ turn \in Streaming => \A i \in DOMAIN snapshot.batch : Polled(snapshot.batch[i])

\* What keeps the votes of a batch keeps it polled.
LEMMA HeedsPolled ==
  ASSUME NEW b, NEW c, Heeds(b, c), \A i \in DOMAIN b : Polled(b[i])
  PROVE  \A i \in DOMAIN c : Polled(c[i])
BY DEF Heeds, Heeded, Polled

\* What is polled does not depend on more than the project.
LEMMA PolledNext ==
  ASSUME UNCHANGED project, NEW c, \A i \in DOMAIN c : Polled(c[i])
  PROVE  (\A i \in DOMAIN c : Polled(c[i]))'
BY Zenon DEF Polled, Polling, Voted, Elected

\* Batches keep their votes where they stay.
LEMMA HeedsSame == \A b : Heeds(b, b)
BY DEF Heeds, Heeded

\* Steps before or after verification that keep the votes.
LEMMA QuietPolls ==
  ASSUME Polls, turn' = "idle", UNCHANGED project, Heeds(batch, batch')
  PROVE  Polls'
<1>1. (\A i \in DOMAIN batch : Polled(batch[i]))'
  <2>1. \A i \in DOMAIN batch' : Polled(batch'[i])
    BY HeedsPolled DEF Polls
  <2>2. QED
    BY <2>1, PolledNext
<1>2. QED
  BY <1>1 DEF Polls, Streaming

\* Steps of verification that keep them.
LEMMA VerifyPolls ==
  ASSUME Polls, turn # "idle", UNCHANGED project, Heeds(batch, batch'), DOMAIN reviews' = DOMAIN reviews,
         DOMAIN reviews \subseteq DOMAIN batch,
         turn' \in {"review", "repair"} => \A i \in DOMAIN reviews : Elected(reviews'[i].annotation),
         turn' \in Streaming => turn \in Streaming /\ UNCHANGED snapshot
  PROVE  Polls'
<1>1. (\A i \in DOMAIN batch : Polled(batch[i]))'
  <2>1. \A i \in DOMAIN batch' : Polled(batch'[i])
    BY HeedsPolled DEF Polls
  <2>2. QED
    BY <2>1, PolledNext
<1>2. \A i \in DOMAIN reviews' : Elected(batch'[i].annotation)
  BY DEF Polls, Heeds, Heeded
<1>3. (turn \in Streaming => \A i \in DOMAIN snapshot.batch : Polled(snapshot.batch[i]))'
  <2> SUFFICES ASSUME turn' \in Streaming PROVE (\A i \in DOMAIN snapshot.batch : Polled(snapshot.batch[i]))'
    BY DEF Streaming
  <2> DEFINE c == snapshot.batch
  <2>1. \A i \in DOMAIN c : Polled(c[i])
    BY DEF Polls
  <2>2. c = (snapshot.batch)'
    OBVIOUS
  <2> HIDE DEF c
  <2>3. QED
    BY <2>1, <2>2, PolledNext
<1>4. QED
  BY <1>1, <1>2, <1>3 DEF Polls, Streaming

\* The beginning of verification keeps them,
LEMMA VerifyBeginPolls ==
  ASSUME Polls, VerifyBegin PROVE Polls'
<1>1. UNCHANGED <<project, batch>> /\ turn = "idle"
  BY DEF VerifyBegin, classifyVars
<1>2. CASE ~ project.verify
  <2>1. turn' = "idle"
    BY <1>1, <1>2 DEF VerifyBegin
  <2>2. QED
    BY <1>1, <2>1, HeedsSame, QuietPolls
<1>3. CASE project.verify
  <2>1. turn' = "review" /\ reviews' = [i \in Eligible |-> NewReview(i)]
    BY <1>3 DEF VerifyBegin
  <2>2. (\A i \in DOMAIN batch : Polled(batch[i]))'
    BY <1>1, PolledNext DEF Polls
  <2>3. ASSUME NEW i \in DOMAIN reviews'
        PROVE  Elected(batch'[i].annotation) /\ Elected(reviews'[i].annotation)
    <3>1. i \in Eligible
      BY <2>1
    <3>2. i \in DOMAIN batch /\ batch[i].annotation # None
      BY <3>1 DEF Eligible, Active
    <3>3. Elected(batch[i].annotation)
      BY <3>2 DEF Polls, Polled, Voted
    <3>4. reviews'[i].annotation = batch[i].annotation
      BY <2>1, <3>1 DEF NewReview
    <3>5. QED
      BY <1>1, <3>3, <3>4
  <2>4. QED
    BY <2>1, <2>2, <2>3 DEF Polls, Streaming
<1>4. QED
  BY <1>2, <1>3

\* and the beginning of the stream,
LEMMA StreamBeginPolls ==
  ASSUME Polls, StreamBegin PROVE Polls'
<1>1. /\ turn = "review" /\ turn' = "stream" /\ UNCHANGED <<project, batch, reviews>>
      /\ snapshot' = [batch |-> batch, products |-> products, frames |-> frames]
  BY DEF StreamBegin, classifyVars
<1>2. (\A i \in DOMAIN batch : Polled(batch[i]))'
  BY <1>1, PolledNext DEF Polls
<1>3. (\A i \in DOMAIN snapshot.batch : Polled(snapshot.batch[i]))'
  <2> DEFINE c == (snapshot.batch)'
  <2>1. c = batch
    BY <1>1
  <2>2. \A i \in DOMAIN c : Polled(c[i])
    BY <2>1 DEF Polls
  <2> HIDE DEF c
  <2>3. c = (snapshot.batch)'
    BY DEF c
  <2>4. QED
    BY <1>1, <2>2, <2>3, PolledNext
<1>4. QED
  BY <1>1, <1>2, <1>3 DEF Polls

\* and the return to what was before it.
LEMMA CapacityPolls ==
  ASSUME Polls, StreamCapacity PROVE Polls'
<1>1. turn \in Streaming /\ turn' = "idle" /\ UNCHANGED project /\ batch' = snapshot.batch
  BY DEF StreamCapacity, Streaming
<1>2. (\A i \in DOMAIN batch : Polled(batch[i]))'
  BY <1>1, PolledNext DEF Polls
<1>3. QED
  BY <1>1, <1>2 DEF Polls, Streaming

\* An envelope counts for the class it shows, unless it has it from its seeds.
Bears(e, c) == LabelOf(e) = c /\ e.class.source # "inherited"
Bearers(s, c) == {i \in DOMAIN s : Bears(s[i], c)}

\* Those of two sequences count together.
LEMMA BearersConcat ==
  ASSUME NEW T, NEW s \in Seq(T), NEW t \in Seq(T), NEW c
  PROVE  /\ IsFiniteSet(Bearers(s, c)) /\ Cardinality(Bearers(s, c)) \in Nat
         /\ Cardinality(Bearers(t, c)) \in Nat
         /\ Cardinality(Bearers(s \o t, c)) = Cardinality(Bearers(s, c)) + Cardinality(Bearers(t, c))
<1> DEFINE u == s \o t
           n == Len(s)
           m == Len(t)
           A == Bearers(s, c)
           B == Bearers(t, c)
           M == {n + j : j \in B}
<1>1. /\ n \in Nat /\ m \in Nat /\ DOMAIN u = 1 .. n + m /\ DOMAIN s = 1 .. n /\ DOMAIN t = 1 .. m
      /\ \A i \in 1 .. n : u[i] = s[i]
      /\ \A j \in 1 .. m : u[n + j] = t[j]
  <2>1. n \in Nat /\ m \in Nat /\ DOMAIN s = 1 .. n /\ DOMAIN t = 1 .. m
    BY LenProperties
  <2>2. u \in Seq(T) /\ Len(u) = n + m /\ \A i \in 1 .. n + m : u[i] = IF i <= n THEN s[i] ELSE t[i - n]
    BY ConcatProperties
  <2>3. DOMAIN u = 1 .. n + m
    BY <2>2, LenProperties
  <2> HIDE DEF u, n, m
  <2>4. \A i \in 1 .. n : i \in 1 .. n + m /\ i <= n
    BY <2>1
  <2>5. \A j \in 1 .. m : n + j \in 1 .. n + m /\ ~ n + j <= n /\ n + j - n = j
    BY <2>1
  <2>6. QED
    BY <2>1, <2>2, <2>3, <2>4, <2>5
<1> HIDE DEF u, n, m
<1>2. Bearers(u, c) = A \union M
  <2>1. ASSUME NEW i \in Bearers(u, c) PROVE i \in A \union M
    <3>1. i \in 1 .. n + m /\ Bears(u[i], c)
      BY <1>1, <2>1 DEF Bearers
    <3>2. CASE i <= n
      <4>1. i \in 1 .. n
        BY <1>1, <3>1, <3>2
      <4>2. QED
        BY <1>1, <3>1, <4>1 DEF Bearers
    <3>3. CASE ~ i <= n
      <4>1. i - n \in 1 .. m /\ n + (i - n) = i
        BY <1>1, <3>1, <3>3
      <4>2. i - n \in B
        BY <1>1, <3>1, <4>1 DEF Bearers
      <4>3. QED
        BY <4>1, <4>2
    <3>4. QED
      BY <3>2, <3>3
  <2>2. ASSUME NEW i \in A PROVE i \in Bearers(u, c)
    <3>1. i \in 1 .. n /\ i \in 1 .. n + m
      BY <1>1, <2>2 DEF Bearers
    <3>2. QED
      BY <1>1, <2>2, <3>1 DEF Bearers
  <2>3. ASSUME NEW j \in B PROVE n + j \in Bearers(u, c)
    <3>1. j \in 1 .. m /\ n + j \in 1 .. n + m
      BY <1>1, <2>3 DEF Bearers
    <3>2. QED
      BY <1>1, <2>3, <3>1 DEF Bearers
  <2>4. QED
    BY <2>1, <2>2, <2>3
<1>3. A \in SUBSET (1 .. n) /\ B \in SUBSET (1 .. m)
  BY <1>1 DEF Bearers
<1> HIDE DEF A, B
<1>4. IsFiniteSet(A) /\ IsFiniteSet(B) /\ Cardinality(A) \in Nat /\ Cardinality(B) \in Nat
  <2>1. IsFiniteSet(1 .. n) /\ IsFiniteSet(1 .. m)
    BY <1>1, PlacesFinite
  <2>2. IsFiniteSet(A) /\ Cardinality(A) \in Nat
    BY <1>3, <2>1, FS_Subset, FS_CardinalityType
  <2>3. IsFiniteSet(B) /\ Cardinality(B) \in Nat
    BY <1>3, <2>1, FS_Subset, FS_CardinalityType
  <2>4. QED
    BY <2>2, <2>3
<1>5. IsFiniteSet(M) /\ Cardinality(M) = Cardinality(B)
  <2> DEFINE g == [j \in B |-> n + j]
  <2>1. g \in Bijection(B, M)
    <3>1. g \in [B -> M] /\ \A x \in M : \E j \in B : g[j] = x
      OBVIOUS
    <3>2. \A i, j \in B : g[i] = g[j] => i = j
      BY <1>1, <1>3
    <3>3. QED
      BY <3>1, <3>2 DEF Bijection, Injection, Surjection, IsInjective
  <2> HIDE DEF g, M
  <2>2. ExistsBijection(B, M)
    BY <2>1 DEF ExistsBijection
  <2>3. QED
    BY <1>4, <2>2, FS_Bijection
<1>6. A \intersect M = {}
  BY <1>1, <1>3
<1> HIDE DEF M
<1>7. Cardinality(A \union M) = Cardinality(A) + Cardinality(M) - Cardinality(A \intersect M)
  BY <1>4, <1>5, FS_Union
<1>8. Cardinality(A \intersect M) = 0
  BY <1>6, FS_EmptySet, Zenon
<1>9. Cardinality(Bearers(u, c)) = Cardinality(A) + Cardinality(B)
  BY <1>2, <1>4, <1>5, <1>7, <1>8
<1>10. QED
  BY <1>4, <1>9 DEF A, B, u

\* What is joined from sequences that have one or none counts for those that have one.
LEMMA BearersFlatten ==
  ASSUME NEW T, NEW q \in Seq(Seq(T)), NEW c, NEW W \in SUBSET DOMAIN q,
         \A i \in DOMAIN q : Cardinality(Bearers(q[i], c)) = IF i \in W THEN 1 ELSE 0
  PROVE  Cardinality(Bearers(FlattenSeq(q), c)) = Cardinality(W)
<1> DEFINE n == Len(q)
           V(i) == W \intersect (1 .. i)
<1>1. n \in Nat /\ DOMAIN q = 1 .. n /\ \A i \in 1 .. n : q[i] \in Seq(T)
  BY LenProperties, ElementOfSeq
<1>2. CASE n = 0
  <2>1. FlattenSeq(q) = q
    BY <1>2 DEF FlattenSeq
  <2>2. Bearers(q, c) = {} /\ W = {}
    BY <1>1, <1>2 DEF Bearers
  <2>3. QED
    BY <2>1, <2>2, Zenon
<1>3. CASE n # 0
  <2> DEFINE f == CHOOSE f : Flattening(f, q, n)
  <2>1. FlattenSeq(q) = f[n]
    BY <1>3 DEF FlattenSeq, Flattening
  <2>2. Flattening(f, q, n)
    BY <1>1, FlatteningExists
  <2> HIDE DEF f, n
  <2>3. \A i \in 1 .. n : f[i] = IF i = 1 THEN q[i] ELSE f[i - 1] \o q[i]
    BY <2>2, Zenon DEF Flattening
  <2> DEFINE Q == {i \in Nat : i \in 1 .. n =>
                     f[i] \in Seq(T) /\ Cardinality(Bearers(f[i], c)) = Cardinality(V(i))}
  <2>4. 0 \in Q
    OBVIOUS
  <2>5. ASSUME NEW i \in Q PROVE i + 1 \in Q
    <3> SUFFICES ASSUME i + 1 \in 1 .. n
                 PROVE  f[i + 1] \in Seq(T) /\ Cardinality(Bearers(f[i + 1], c)) = Cardinality(V(i + 1))
      OBVIOUS
    <3> DEFINE one == IF i + 1 \in W THEN 1 ELSE 0
    <3>1. q[i + 1] \in Seq(T) /\ Cardinality(Bearers(q[i + 1], c)) = one
      BY <1>1
    <3>2. Cardinality(V(i + 1)) = Cardinality(V(i)) + one /\ Cardinality(V(i)) \in Nat
      <4>1. IsFiniteSet(V(i)) /\ Cardinality(V(i)) \in Nat /\ i + 1 \notin V(i)
        <5>1. IsFiniteSet(1 .. i) /\ V(i) \in SUBSET (1 .. i)
          BY PlacesFinite
        <5>2. IsFiniteSet(V(i)) /\ Cardinality(V(i)) \in Nat
          <6> HIDE DEF V
          <6>1. QED
            BY <5>1, SubsetSizes
        <5>3. QED
          BY <5>2
      <4>2. CASE i + 1 \in W
        <5>1. V(i + 1) = V(i) \union {i + 1}
          BY <4>2
        <5>2. Cardinality(V(i) \union {i + 1}) = Cardinality(V(i)) + 1
          BY <4>1, FS_AddElement
        <5>3. QED
          BY <4>1, <4>2, <5>1, <5>2
      <4>3. CASE i + 1 \notin W
        <5>1. V(i + 1) = V(i)
          BY <4>3
        <5> HIDE DEF V
        <5>2. QED
          BY <4>1, <4>3, <5>1
      <4>4. QED
        BY <4>2, <4>3
    <3> HIDE DEF one, V
    <3>3. CASE i = 0
      <4>1. f[1] = q[1]
        BY <2>3, <3>3
      <4>2. Cardinality(V(0)) = 0
        <5>1. V(0) = {}
          BY DEF V
        <5>2. QED
          BY <5>1, FS_EmptySet
      <4>3. Cardinality(V(1)) = one
        <5>1. one \in Nat
          BY DEF one
        <5>2. QED
          BY <3>2, <3>3, <4>2, <5>1
      <4>4. QED
        BY <3>1, <3>3, <4>1, <4>3
    <3>4. CASE i # 0
      <4>1. i \in 1 .. n /\ i + 1 # 1 /\ i + 1 - 1 = i
        BY <1>1, <3>4
      <4>2. f[i] \in Seq(T) /\ Cardinality(Bearers(f[i], c)) = Cardinality(V(i))
        BY <4>1
      <4>3. f[i + 1] = f[i] \o q[i + 1]
        <5>1. f[i + 1] = IF i + 1 = 1 THEN q[i + 1] ELSE f[i + 1 - 1] \o q[i + 1]
          BY <2>3
        <5>2. QED
          BY <5>1, <4>1
      <4>4. f[i] \o q[i + 1] \in Seq(T)
        BY <4>2, <3>1, ConcatProperties
      <4>5. Cardinality(Bearers(f[i] \o q[i + 1], c)) =
              Cardinality(Bearers(f[i], c)) + Cardinality(Bearers(q[i + 1], c))
        BY <4>2, <3>1, BearersConcat
      <4>6. QED
        BY <3>1, <3>2, <4>2, <4>3, <4>4, <4>5
    <3>5. QED
      BY <3>3, <3>4
  <2>6. Q = Nat
    <3> HIDE DEF Q
    <3>1. Q \in SUBSET Nat
      BY DEF Q
    <3>2. QED
      BY <2>4, <2>5, <3>1, SetInduction
  <2>7. Cardinality(Bearers(f[n], c)) = Cardinality(V(n))
    BY <2>6, <1>1, <1>3, SMTT(20)
  <2>8. V(n) = W
    BY <1>1 DEF n
  <2>9. QED
    BY <2>1, <2>7, <2>8
<1>4. QED
  BY <1>2, <1>3

\* The classes that an envelope was given by samples, or for want of them.
Cast(e) == IF e.class = None \/ e.class.source = "inherited" THEN {} ELSE Range(e.class.labels)

\* An envelope counts for the first of them,
LEMMA AnchorBears ==
  ASSUME ProjectSound, NEW e, EnvelopeSound(e), IsAnchor(e), e.class # None => Distinct(e.class.labels),
         NEW g, g.class = e.class, NEW c \in Range(project.classes)
  PROVE  Bears(g, c) <=> c \in Cast(e) /\ LabelOf(e) = c
<1>1. c # None
  BY DEF ProjectSound
<1>2. CASE e.class = None
  BY <1>1, <1>2 DEF Bears, LabelOf, Cast
<1>3. CASE e.class # None
  <2>1. e.class \in Labelled(project.classes) /\ Distinct(e.class.labels)
    BY <1>3 DEF EnvelopeSound
  <2>2. e.class.labels \in Seq(Range(project.classes)) /\ e.class.labels # <<>>
    BY <2>1 DEF Labelled, Distinct
  <2>3. 1 \in DOMAIN e.class.labels
    BY <2>2, EmptySeq, LenProperties
  <2>4. e.class.label = e.class.labels[1]
    BY <1>3 DEF IsAnchor
  <2>5. e.class.label \in Range(e.class.labels)
    BY <2>3, <2>4 DEF Range
  <2>6. LabelOf(g) = e.class.label /\ LabelOf(e) = e.class.label
    BY <1>3 DEF LabelOf
  <2>7. QED
    BY <1>3, <2>5, <2>6 DEF Bears, Cast
<1>4. QED
  BY <1>2, <1>3

\* and its siblings for the others, each for one.
LEMMA SiblingsBear ==
  ASSUME ProjectSound, NEW e, EnvelopeSound(e), IsAnchor(e), e.class # None => Distinct(e.class.labels),
         NEW c \in Range(project.classes)
  PROVE  Cardinality(Bearers(Siblings(e), c)) = IF c \in Cast(e) /\ LabelOf(e) # c THEN 1 ELSE 0
<1> DEFINE s == Siblings(e)
<1>1. CASE e.class = None
  <2>1. s = <<>>
    BY <1>1 DEF Siblings
  <2>2. DOMAIN s = 1 .. 0
    <3> HIDE DEF s
    <3>1. QED
      BY <2>1, NoPlaces
  <2> HIDE DEF s
  <2>3. Bearers(s, c) = {}
    BY <2>2 DEF Bearers
  <2>4. Cast(e) = {}
    BY <1>1 DEF Cast
  <2>5. QED
    BY <2>3, <2>4, FS_EmptySet DEF s
<1>2. CASE e.class # None
  <2> DEFINE l == e.class.labels
             n == Len(l) - 1
             f(k) == [Envelope(e.record) EXCEPT !.class = [e.class EXCEPT !.label = e.class.labels[k + 1]],
                                                !.seams = e.seams, !.shared = Pinned(e)]
  <2>1. s = [k \in 1 .. n |-> f(k)]
    BY <1>2, Zenon DEF Siblings
  <2>2. e.class \in Labelled(project.classes) /\ None \notin Labelled(project.classes) /\ Distinct(l)
    BY <1>2 DEF EnvelopeSound, ProjectSound
  <2>3. l \in Seq(Range(project.classes)) /\ l # <<>> /\ IsInjective(l)
    BY <2>2 DEF Labelled, Distinct
  <2>4. Len(l) \in Nat /\ Len(l) # 0 /\ DOMAIN l = 1 .. Len(l)
    BY <2>3, LenProperties, EmptySeq
  <2>5. n \in Nat /\ DOMAIN l = 1 .. n + 1
    BY <2>4
  <2>6. ASSUME NEW k \in 1 .. n
        PROVE  Bears(s[k], c) <=> l[k + 1] = c /\ e.class.source # "inherited"
    <3> DEFINE d == [e.class EXCEPT !.label = l[k + 1]]
    <3>1. k + 1 \in DOMAIN l
      BY <2>5
    <3>2. l[k + 1] \in Range(project.classes)
      BY <2>3, <3>1, <2>4, ElementOfSeq
    <3>3. d \in Labelled(project.classes) /\ d.label = l[k + 1] /\ d.source = e.class.source
      BY <2>2, <3>2 DEF Labelled
    <3> HIDE DEF d
    <3>4. f(k).class = d
      BY DEF d, Envelope
    <3> HIDE DEF f
    <3>5. s[k].class = d /\ d # None
      BY <2>1, <2>2, <3>3, <3>4
    <3>6. QED
      BY <3>3, <3>5 DEF Bears, LabelOf
  <2>7. LabelOf(e) = l[1]
    BY <1>2 DEF LabelOf, IsAnchor
  <2>8. Bearers(s, c) = {k \in 1 .. n : l[k + 1] = c /\ e.class.source # "inherited"}
    <3>1. DOMAIN s = 1 .. n
      BY <2>1
    <3> HIDE DEF s, l, n, f
    <3>2. QED
      BY <2>6, <3>1 DEF Bearers
  <2>9. c \in Cast(e) <=> e.class.source # "inherited" /\ c \in Range(l)
    BY <1>2 DEF Cast
  <2> HIDE DEF s, l, n, f
  <2>10. CASE e.class.source # "inherited" /\ c \in Range(l) /\ c # l[1]
    <3>1. PICK j \in DOMAIN l : l[j] = c
      BY <2>10 DEF Range
    <3>2. j - 1 \in 1 .. n /\ j - 1 + 1 = j
      BY <2>5, <2>10, <3>1
    <3>3. \A k \in 1 .. n : l[k + 1] = c => k = j - 1
      <4> TAKE k \in 1 .. n
      <4> HAVE l[k + 1] = c
      <4>1. k + 1 \in DOMAIN l
        BY <2>5
      <4>2. k + 1 = j
        BY <2>3, <3>1, <4>1 DEF IsInjective
      <4>3. QED
        BY <2>5, <4>2
    <3>4. Bearers(s, c) = {j - 1}
      BY <2>8, <2>10, <3>1, <3>2, <3>3
    <3>5. Cardinality({j - 1}) = 1
      BY FS_Singleton
    <3>6. QED
      BY <2>7, <2>9, <2>10, <3>4, <3>5 DEF s
  <2>11. CASE ~ (e.class.source # "inherited" /\ c \in Range(l) /\ c # l[1])
    <3>1. Bearers(s, c) = {}
      <4> SUFFICES ASSUME NEW k \in 1 .. n, l[k + 1] = c, e.class.source # "inherited" PROVE FALSE
        BY <2>8
      <4>1. k + 1 \in DOMAIN l /\ 1 \in DOMAIN l /\ k + 1 # 1
        BY <2>5
      <4>2. c \in Range(l) /\ l[k + 1] # l[1]
        BY <2>3, <4>1 DEF Range, IsInjective
      <4>3. QED
        BY <2>11, <4>2
    <3>2. QED
      BY <2>7, <2>9, <2>11, <3>1, FS_EmptySet DEF s
  <2>12. QED
    BY <2>10, <2>11
<1>3. QED
  BY <1>1, <1>2

\* When all have joined, each class is borne as often as it was cast.
LEMMA FanOutBears ==
  ASSUME ProjectSound, BatchSound(batch), Unparted,
         \A i \in DOMAIN batch : Cast(batch[i]) # {} => batch[i].status = "active",
         NEW c \in Range(project.classes)
  PROVE  Cardinality(Bearers(FanOut(batch), c)) = Cardinality({i \in DOMAIN batch : c \in Cast(batch[i])})
<1> DEFINE pinned == [i \in DOMAIN batch |-> [batch[i] EXCEPT !.shared = @ \/ Pinned(batch[i])]]
           q == [i \in DOMAIN batch |-> IF batch[i].status = "active" THEN Siblings(batch[i]) ELSE <<>>]
           rest == FlattenSeq(q)
           V == {i \in DOMAIN batch : c \in Cast(batch[i])}
           F == {i \in V : LabelOf(batch[i]) = c}
           W == {i \in V : LabelOf(batch[i]) # c}
<1>1. FanOut(batch) = pinned \o rest
  BY DEF FanOut
<1>2. PICK n \in Nat : DOMAIN batch = 1 .. n
  BY DEF BatchSound
<1>3. \A i \in 1 .. n : EnvelopeSound(batch[i]) /\ IsAnchor(batch[i])
          /\ (batch[i].class # None => Distinct(batch[i].class.labels))
  BY <1>2 DEF BatchSound, Unparted
<1>4. PICK T : q \in Seq(Seq(T))
  <2> HIDE DEF q
  <2>1. q = [i \in DOMAIN batch |-> IF batch[i].status = "active" THEN Siblings(batch[i]) ELSE <<>>]
    BY DEF q
  <2>2. QED
    BY <2>1, SiblingsListed
<1>5. \A i \in 1 .. n : Bears(pinned[i], c) <=> i \in F
  <2> TAKE i \in 1 .. n
  <2>1. pinned[i].class = batch[i].class
    <3>1. DOMAIN batch[i] = EnvelopeFields
      BY <1>3 DEF EnvelopeSound
    <3>2. pinned[i] = [batch[i] EXCEPT !.shared = @ \/ Pinned(batch[i])]
      BY <1>2
    <3>3. QED
      BY <3>1, <3>2 DEF EnvelopeFields
  <2> HIDE DEF pinned
  <2>2. Bears(pinned[i], c) <=> c \in Cast(batch[i]) /\ LabelOf(batch[i]) = c
    BY <1>3, <2>1, AnchorBears
  <2>3. QED
    BY <1>2, <2>2
<1>6. Bearers(pinned, c) = F
  <2>1. DOMAIN pinned = 1 .. n /\ F \in SUBSET (1 .. n)
    BY <1>2
  <2> HIDE DEF pinned, F
  <2>2. QED
    BY <1>5, <2>1 DEF Bearers
<1>7. \A i \in DOMAIN q : Cardinality(Bearers(q[i], c)) = IF i \in W THEN 1 ELSE 0
  <2> SUFFICES ASSUME NEW i \in 1 .. n PROVE Cardinality(Bearers(q[i], c)) = IF i \in W THEN 1 ELSE 0
    BY <1>2
  <2>1. CASE batch[i].status = "active"
    <3>1. q[i] = Siblings(batch[i])
      BY <1>2, <2>1
    <3>2. Cardinality(Bearers(Siblings(batch[i]), c)) =
            IF c \in Cast(batch[i]) /\ LabelOf(batch[i]) # c THEN 1 ELSE 0
      BY <1>3, SiblingsBear
    <3>3. i \in W <=> c \in Cast(batch[i]) /\ LabelOf(batch[i]) # c
      BY <1>2
    <3> HIDE DEF q, W
    <3>4. QED
      BY <3>1, <3>2, <3>3
  <2>2. CASE batch[i].status # "active"
    <3>1. q[i] = <<>>
      BY <1>2, <2>2
    <3>2. i \notin W
      BY <1>2, <2>2
    <3> HIDE DEF q, W
    <3>3. Bearers(q[i], c) = {}
      <4>1. DOMAIN q[i] = 1 .. 0
        BY <3>1, NoPlaces
      <4>2. QED
        BY <4>1 DEF Bearers
    <3>4. QED
      BY <3>2, <3>3, FS_EmptySet
  <2>3. QED
    BY <2>1, <2>2
<1>8. Cardinality(Bearers(rest, c)) = Cardinality(W)
  <2>1. W \in SUBSET DOMAIN q
    BY <1>2
  <2> HIDE DEF q, W
  <2>2. QED
    BY <1>4, <1>7, <2>1, BearersFlatten
<1> DEFINE P == {pinned[i] : i \in 1 .. n}
<1>9. pinned \in Seq(P \union T) /\ rest \in Seq(P \union T)
  <2>1. pinned \in Seq(P)
    BY <1>2
  <2> HIDE DEF pinned, P, q
  <2>2. rest \in Seq(T)
    BY <1>4, FlattenType
  <2> HIDE DEF rest
  <2>3. QED
    BY <2>1, <2>2, SeqMonotonic
<1>10. IsFiniteSet(V) /\ F \union W = V /\ F \intersect W = {} /\ F \in SUBSET V /\ W \in SUBSET V
  <2>1. IsFiniteSet(1 .. n) /\ V \in SUBSET (1 .. n)
    BY <1>2, PlacesFinite
  <2>2. IsFiniteSet(V)
    <3> HIDE DEF V
    <3>1. QED
      BY <2>1, FS_Subset
  <2>3. QED
    BY <2>2
<1> HIDE DEF pinned, q, rest, V, F, W, P
<1>11. Cardinality(Bearers(pinned \o rest, c)) = Cardinality(Bearers(pinned, c)) + Cardinality(Bearers(rest, c))
  BY <1>9, BearersConcat
<1>12. Cardinality(V) = Cardinality(F) + Cardinality(W)
  <2>1. IsFiniteSet(F) /\ IsFiniteSet(W) /\ Cardinality(F) \in Nat /\ Cardinality(W) \in Nat
    BY <1>10, SubsetSizes
  <2>2. Cardinality(F \union W) = Cardinality(F) + Cardinality(W) - Cardinality(F \intersect W)
    BY <2>1, FS_Union
  <2>3. Cardinality(F \intersect W) = 0
    BY <1>10, FS_EmptySet, Zenon
  <2>4. Cardinality(F \union W) = Cardinality(V)
    BY <1>10
  <2>5. QED
    BY <2>1, <2>2, <2>3, <2>4
<1>13. QED
  BY <1>1, <1>6, <1>8, <1>11, <1>12 DEF V

-------------------------------------------------------------------------------
(* The steps of the chain                                                  *)

\* What classification does to an envelope: it fails, or has labels of the project.
Disposed(e, g) ==
  /\ g.annotation = e.annotation
  /\ \/ g.class = e.class
     \/ g.status = e.status /\ g.class # None /\ Polling(g.class.labels) /\ g.class.source \in {"llm", "fallback"}

\* An outcome of the classification of an envelope is of this kind.
LEMMA ClassifiedDisposed ==
  ASSUME ProjectSound, NEW e, EnvelopeSound(e), NEW got \in [1 .. Sampled -> Got(RawHits, project.failures)]
  PROVE  Disposed(e, Classified(e, got)) /\ \A kind : Disposed(e, Fail(e, kind))
<1>1. DOMAIN e = EnvelopeFields
  BY DEF EnvelopeSound
<1>2. \A kind : Disposed(e, Fail(e, kind))
  BY <1>1 DEF Disposed, Fail, EnvelopeFields
<1>3. Disposed(e, Classified(e, got))
  <2>1. CASE \E kind : Classified(e, got) = Fail(e, kind)
    BY <1>2, <2>1
  <2>2. CASE \E labels, source :
              /\ Classified(e, got) = [e EXCEPT !.class = LabelledBy(labels, source)]
              /\ LabelsSound(labels) /\ Polling(labels) /\ source \in {"llm", "fallback"}
    <3>1. PICK labels, source :
              /\ Classified(e, got) = [e EXCEPT !.class = LabelledBy(labels, source)]
              /\ LabelsSound(labels) /\ Polling(labels) /\ source \in {"llm", "fallback"}
      BY <2>2
    <3> DEFINE l == LabelledBy(labels, source)
               g == Classified(e, got)
    <3>2. l \in Labelled(project.classes) /\ l.labels = labels /\ l.source = source
      <4>1. labels \in Seq(Range(project.classes)) /\ labels[1] \in Range(project.classes)
        BY <3>1, EmptySeq, LenProperties, ElementOfSeq DEF LabelsSound, Distinct
      <4>2. QED
        BY <3>1, <4>1 DEF LabelledBy, Labelled
    <3>3. l # None
      BY <3>2 DEF ProjectSound
    <3>4. g = [e EXCEPT !.class = l]
      BY <3>1
    <3> HIDE DEF l, g
    <3>5. g.class = l /\ g.annotation = e.annotation /\ g.status = e.status
      BY <1>1, <3>4 DEF EnvelopeFields
    <3>6. Disposed(e, g)
      BY <3>1, <3>2, <3>3, <3>5 DEF Disposed
    <3>7. QED
      BY <3>6 DEF g
  <2>3. QED
    BY <2>1, <2>2, ClassifiedAs
<1>4. QED
  BY <1>2, <1>3

\* What the wave of classification does.
LEMMA ClassifyIs ==
  ASSUME ProjectSound, BatchSound(batch), ClassifyWave
  PROVE  /\ DOMAIN batch' = DOMAIN batch
         /\ \A i \in DOMAIN batch : Disposed(batch[i], batch'[i]) /\ (i \notin Unclassified => batch'[i] = batch[i])
         /\ tally' = [c \in Range(project.classes) |-> tally[c] +
              Cardinality({i \in Unclassified : batch'[i].class # None /\ c \in Range(batch'[i].class.labels)})]
<1>1. PICK got \in [{i \in Unclassified :
          batch[i].record \notin project.oversized} -> [1 .. Sampled -> Got(RawHits,
              project.failures)]] :
       batch' = [i \in DOMAIN batch |->
            IF i \notin Unclassified THEN batch[i]
            ELSE IF batch[i].record \in project.oversized THEN Fail(batch[i], "overflow")
            ELSE Classified(batch[i], got[i])]
  BY DEF ClassifyWave
<1>2. ASSUME NEW i \in DOMAIN batch
      PROVE  Disposed(batch[i], batch'[i]) /\ (i \notin Unclassified => batch'[i] = batch[i])
  <2>1. EnvelopeSound(batch[i])
    BY DEF BatchSound
  <2>2. CASE i \notin Unclassified
    <3>1. batch'[i] = batch[i]
      BY <1>1, <2>2
    <3>2. QED
      BY <3>1 DEF Disposed
  <2>3. CASE i \in Unclassified /\ batch[i].record \in project.oversized
    <3>1. batch'[i] = Fail(batch[i], "overflow")
      BY <1>1, <2>3
    <3>2. DOMAIN batch[i] = EnvelopeFields
      BY <2>1 DEF EnvelopeSound
    <3>3. QED
      BY <2>3, <3>1, <3>2 DEF Disposed, Fail, EnvelopeFields
  <2>4. CASE i \in Unclassified /\ batch[i].record \notin project.oversized
    <3>1. batch'[i] = Classified(batch[i], got[i])
      BY <1>1, <2>4
    <3>2. got[i] \in [1 .. Sampled -> Got(RawHits, project.failures)]
      BY <2>4
    <3>3. Disposed(batch[i], batch'[i])
      BY <2>1, <3>1, <3>2, ClassifiedDisposed
    <3>4. QED
      BY <2>4, <3>3
  <2>5. QED
    BY <2>2, <2>3, <2>4
<1>3. tally' = [c \in Range(project.classes) |-> tally[c] +
              Cardinality({i \in Unclassified : batch'[i].class # None /\ c \in Range(batch'[i].class.labels)})]
  BY DEF ClassifyWave
<1>4. QED
  BY <1>1, <1>2, <1>3

\* Classification keeps what is voted.
LEMMA ClassifyPolls ==
  ASSUME ProjectSound, BatchSound(batch), Polls, turn' = "idle", ClassifyWave
  PROVE  Polls'
<1>1. UNCHANGED project
  BY DEF ClassifyWave
<1>2. (\A i \in DOMAIN batch : Polled(batch[i]))'
  <2>1. \A i \in DOMAIN batch' : Polled(batch'[i])
    BY ClassifyIs DEF Polls, Polled, Disposed
  <2>2. QED
    BY <1>1, <2>1, PolledNext
<1>3. QED
  BY <1>2 DEF Polls, Streaming

\* Who is in the batch after that: the envelopes before it, and their siblings.
LEMMA FanOutHas ==
  ASSUME ProjectSound, BatchSound(batch), Unparted, NEW x \in Range(FanOut(batch))
  PROVE  \/ \E i \in DOMAIN batch : x = [batch[i] EXCEPT !.shared = @ \/ Pinned(batch[i])]
         \/ \E i \in DOMAIN batch : x \in Range(Siblings(batch[i]))
<1> DEFINE pinned == [i \in DOMAIN batch |-> [batch[i] EXCEPT !.shared = @ \/ Pinned(batch[i])]]
           q == [i \in DOMAIN batch |-> IF batch[i].status = "active" THEN Siblings(batch[i]) ELSE <<>>]
           rest == FlattenSeq(q)
           P == {pinned[i] : i \in DOMAIN batch}
<1>1. FanOut(batch) = pinned \o rest
  BY DEF FanOut
<1>2. PICK n \in Nat : DOMAIN batch = 1 .. n
  BY DEF BatchSound
<1>3. PICK T : q \in Seq(Seq(T)) /\ \A y \in T : \E i \in DOMAIN batch : y \in Range(Siblings(batch[i]))
  <2> HIDE DEF q
  <2>1. q = [i \in DOMAIN batch |-> IF batch[i].status = "active" THEN Siblings(batch[i]) ELSE <<>>]
    BY DEF q
  <2>2. PICK T : /\ q \in Seq(Seq(T))
                 /\ \A y \in T : Beside(y) /\ \E i \in DOMAIN batch : y \in Range(Siblings(batch[i]))
    BY <2>1, SiblingsListed
  <2>3. QED
    BY <2>2
<1>4. pinned \in Seq(P \union T) /\ rest \in Seq(P \union T)
  <2>1. pinned \in Seq(P)
    BY <1>2
  <2> HIDE DEF pinned, P, q
  <2>2. rest \in Seq(T)
    BY <1>3, FlattenType
  <2> HIDE DEF rest
  <2>3. QED
    BY <2>1, <2>2, SeqMonotonic
<1>5. Range(pinned \o rest) \subseteq P \union T
  <2> HIDE DEF pinned, rest, P
  <2> DEFINE U == P \union T
             u == pinned \o rest
  <2>1. u \in Seq(U)
    BY <1>4, ConcatProperties
  <2> HIDE DEF u, U
  <2>2. \A j \in DOMAIN u : u[j] \in U
    BY <2>1, ElementOfSeq, LenProperties
  <2>3. QED
    BY <2>2 DEF Range, u, U
<1>6. x \in P \union T
  BY <1>1, <1>5
<1>7. CASE x \in P
  BY <1>7
<1>8. CASE x \in T
  BY <1>3, <1>8
<1>9. QED
  BY <1>6, <1>7, <1>8

\* The siblings of an envelope show the same labels, and nothing voted on yet.
LEMMA SiblingsPolled ==
  ASSUME ProjectSound, NEW e, EnvelopeSound(e), Polled(e), NEW x \in Range(Siblings(e))
  PROVE  Polled(x)
<1>1. CASE e.class = None
  <2>1. Siblings(e) = <<>>
    BY <1>1 DEF Siblings
  <2>2. DOMAIN Siblings(e) = 1 .. 0
    BY <2>1, NoPlaces
  <2>3. QED
    BY <2>2 DEF Range
<1>2. CASE e.class # None
  <2> DEFINE f(k) == [Envelope(e.record) EXCEPT !.class = [e.class EXCEPT !.label = e.class.labels[k + 1]],
                                                !.seams = e.seams, !.shared = Pinned(e)]
  <2>1. Siblings(e) = [k \in 1 .. Len(e.class.labels) - 1 |-> f(k)]
    BY <1>2, Zenon DEF Siblings
  <2>2. PICK k : x = f(k)
    <3> HIDE DEF f
    <3>1. QED
      BY <2>1 DEF Range
  <2>3. x.annotation = None /\ x.class = [e.class EXCEPT !.label = e.class.labels[k + 1]]
    BY <2>2 DEF Envelope
  <2>4. e.class \in Labelled(project.classes) /\ Polling(e.class.labels)
    BY <1>2 DEF EnvelopeSound, Polled
  <2>5. x.class.labels = e.class.labels
    BY <2>3, <2>4 DEF Labelled
  <2>6. QED
    BY <2>3, <2>4, <2>5 DEF Polled, Voted
<1>3. QED
  BY <1>1, <1>2

\* So the siblings that join are polled,
LEMMA FramesPoll ==
  ASSUME ProjectSound, BatchSound(batch), Unparted, Polls, turn' = "idle", FrameWave
  PROVE  Polls'
<1>1. UNCHANGED project /\ (batch' = batch \/ batch' = FanOut(batch))
  <2>1. UNCHANGED project
    BY DEF FrameWave
  <2>2. batch' = batch \/ batch' = FanOut(batch)
    BY Zenon DEF FrameWave
  <2>3. QED
    BY <2>1, <2>2
<1>2. CASE batch' = batch
  BY <1>1, <1>2, HeedsSame, QuietPolls
<1>3. CASE batch' = FanOut(batch)
  <2>1. \A x \in Range(FanOut(batch)) : Polled(x)
    <3> TAKE x \in Range(FanOut(batch))
    <3>1. CASE \E i \in DOMAIN batch : x = [batch[i] EXCEPT !.shared = @ \/ Pinned(batch[i])]
      <4>1. PICK i \in DOMAIN batch : x = [batch[i] EXCEPT !.shared = @ \/ Pinned(batch[i])]
        BY <3>1
      <4>2. DOMAIN batch[i] = EnvelopeFields /\ Polled(batch[i])
        BY EnvelopeDomains DEF Polls
      <4>3. x.class = batch[i].class /\ x.annotation = batch[i].annotation
        BY <4>1, <4>2 DEF EnvelopeFields
      <4>4. QED
        BY <4>2, <4>3 DEF Polled
    <3>2. CASE \E i \in DOMAIN batch : x \in Range(Siblings(batch[i]))
      <4>1. PICK i \in DOMAIN batch : x \in Range(Siblings(batch[i]))
        BY <3>2
      <4>2. EnvelopeSound(batch[i]) /\ Polled(batch[i])
        BY DEF BatchSound, Polls
      <4>3. QED
        BY <4>1, <4>2, SiblingsPolled
    <3>3. QED
      BY <3>1, <3>2, FanOutHas
  <2>2. \A i \in DOMAIN batch' : Polled(batch'[i])
    BY <1>3, <2>1 DEF Range
  <2>3. (\A i \in DOMAIN batch : Polled(batch[i]))'
    BY <1>1, <2>2, PolledNext
  <2>4. QED
    BY <2>3 DEF Polls, Streaming
<1>4. QED
  BY <1>1, <1>2, <1>3

\* and what verification does to a batch keeps them.
LEMMA VerifyWavesPoll ==
  ASSUME ChainInv, Polls,
         ReviewWave \/ RepairWave \/ StreamReview \/ StreamClaims \/ StreamMend \/ StreamRefresh
  PROVE  Polls'
<1> USE DEF Streaming
<1>1. turn # "idle" /\ UNCHANGED project /\ turn' # "idle"
  BY DEF ReviewWave, RepairWave, StreamReview, StreamClaims, StreamMend, StreamRefresh
<1>2. ProjectSound /\ BatchSound(batch) /\ ReviewsSound /\ DOMAIN reviews \subseteq DOMAIN batch
  <2>1. ReviewsSound /\ project # Off
    BY <1>1 DEF ChainInv
  <2>2. QED
    BY <2>1 DEF ChainInv, ReviewsSound
<1>3. \A i \in DOMAIN reviews : Elected(batch[i].annotation)
  BY <1>1 DEF Polls
<1>4. CASE ReviewWave
  <2>1. turn = "review" /\ turn' = "repair"
    BY <1>4 DEF ReviewWave
  <2>2. /\ Heeds(batch, batch') /\ DOMAIN reviews' = DOMAIN reviews
        /\ \A i \in DOMAIN reviews : Elected(reviews'[i].annotation)
    BY <1>2, <1>4, <2>1, ReviewHeeds DEF Polls
  <2>3. QED
    BY <1>1, <1>2, <2>1, <2>2, VerifyPolls
<1>5. CASE RepairWave
  <2>1. turn = "repair" /\ turn' = "review"
    BY <1>5 DEF RepairWave
  <2>2. /\ Heeds(batch, batch') /\ DOMAIN reviews' = DOMAIN reviews
        /\ \A i \in DOMAIN reviews : Elected(reviews'[i].annotation)
    BY <1>2, <1>5, <2>1, RepairHeeds DEF Polls
  <2>3. QED
    BY <1>1, <1>2, <2>1, <2>2, VerifyPolls
<1>6. CASE StreamReview
  <2>1. turn = "stream" /\ turn' = "claims" /\ UNCHANGED snapshot
    BY <1>6 DEF StreamReview
  <2>2. Underway /\ Owned(batch, Members(batch), frames)
    BY <1>2, <2>1 DEF ChainInv, Underway, Grounds
  <2>3. Heeds(batch, batch') /\ DOMAIN reviews' = DOMAIN reviews
    BY <1>6, <2>2, StreamReviewHeeds
  <2>4. QED
    BY <1>1, <1>2, <2>1, <2>3, VerifyPolls
<1>7. CASE StreamClaims
  <2>1. turn = "claims" /\ turn' = "mend" /\ UNCHANGED <<snapshot, batch>>
    BY <1>7 DEF StreamClaims, classifyVars
  <2>2. DOMAIN reviews' = DOMAIN reviews
    BY <1>7 DEF StreamClaims
  <2>3. Heeds(batch, batch')
    BY <2>1, HeedsSame
  <2>4. QED
    BY <1>1, <1>2, <2>1, <2>2, <2>3, VerifyPolls
<1>8. CASE StreamMend
  <2>1. turn = "mend" /\ turn' = "refresh" /\ UNCHANGED snapshot
    BY <1>8 DEF StreamMend
  <2>2. Underway /\ Mending(batch, reviews, saved, frames, pending) /\ settled \subseteq DOMAIN reviews
    BY <1>2, <2>1 DEF ChainInv, Underway, Grounds
  <2>3. Heeds(batch, batch') /\ DOMAIN reviews' = DOMAIN reviews
    BY <1>3, <1>8, <2>2, StreamMendHeeds
  <2>4. QED
    BY <1>1, <1>2, <2>1, <2>3, VerifyPolls
<1>9. CASE StreamRefresh
  <2>1. turn = "refresh" /\ turn' = "stream" /\ UNCHANGED <<snapshot, reviews>>
    BY <1>9 DEF StreamRefresh
  <2>2. PICK fate : batch' = Mend(fate, TRUE).batch
    BY <1>9, Zenon DEF StreamRefresh
  <2>3. Heeds(batch, batch')
    BY <1>2, <1>3, <2>2, MendHeeds
  <2>4. QED
    BY <1>1, <1>2, <2>1, <2>3, VerifyPolls
<1>10. QED
  BY <1>4, <1>5, <1>6, <1>7, <1>8, <1>9

\* A wave that the breaker ends keeps them,
LEMMA TrippedPolls ==
  ASSUME ChainInv, Polls, StreamTripped
  PROVE  Polls'
<1>1. /\ turn \in Streaming /\ turn' \in {"idle", "torn"}
      /\ UNCHANGED <<project, reviews, snapshot>>
  BY DEF StreamTripped, ReviewTripped, ClaimsTripped, StepsTripped, RepairTripped, Streaming
<1>2. turn # "idle"
  BY <1>1 DEF Streaming
<1>3. BatchSound(batch) /\ ReviewsSound /\ DOMAIN reviews \subseteq DOMAIN batch
  <2>1. ReviewsSound /\ stage = "verify"
    BY <1>2 DEF ChainInv
  <2>2. project # Off
    BY <2>1 DEF ChainInv
  <2>3. QED
    BY <2>1, <2>2 DEF ChainInv, ReviewsSound
<1>4. Heeds(batch, batch')
  <2>1. CASE ReviewTripped \/ ClaimsTripped \/ StepsTripped
    <3>1. UNCHANGED batch
      BY <2>1 DEF ReviewTripped, ClaimsTripped, StepsTripped
    <3>2. QED
      BY <3>1, HeedsSame
  <2>2. CASE RepairTripped
    <3>1. PICK fate : batch' = Mend(fate, FALSE).batch
      BY <2>2, Zenon DEF RepairTripped
    <3>2. \A i \in DOMAIN reviews : Elected(batch[i].annotation)
      BY <1>2 DEF Polls
    <3>3. QED
      BY <1>3, <3>1, <3>2, MendHeeds
  <2>3. QED
    BY <2>1, <2>2 DEF StreamTripped
<1>5. QED
  BY <1>1, <1>2, <1>3, <1>4, VerifyPolls DEF Streaming

\* and so does every stage.
LEMMA StagesPoll ==
  ASSUME ChainInv, Polls, Stages
  PROVE  Polls'
<1>1. UNCHANGED project
  BY StagesApart
<1>2. stage # "dedup" => ProjectSound /\ BatchSound(batch)
  BY DEF ChainInv
<1>3. CASE (ClassifyWave \/ FrameWave \/ ExtractWave) /\ UNCHANGED <<ratedVars, verifyVars, streamVars>>
  <2>1. stage # "dedup" /\ turn' = "idle"
    BY <1>3 DEF ChainInv, ClassifyWave, FrameWave, ExtractWave, verifyVars
  <2>2. CASE ClassifyWave
    BY <1>2, <2>1, <2>2, ClassifyPolls
  <2>3. CASE FrameWave
    <3>1. Unparted
      BY <2>3 DEF ChainInv, FrameWave
    <3>2. QED
      BY <1>2, <2>1, <2>3, <3>1, FramesPoll
  <2>4. CASE ExtractWave
    BY <1>1, <1>2, <2>1, <2>4, ExtractHeeds, QuietPolls
  <2>5. QED
    BY <1>3, <2>2, <2>3, <2>4
<1>4. CASE (Rate \/ QualityDone) /\ UNCHANGED <<generateVars, verifyVars, streamVars>>
  <2>1. CASE Rate
    <3>1. PICK label \in Pools : RatePairwise(label) \/ RatePointwise(label)
      BY <2>1 DEF Rate
    <3>2. stage = "quality"
      BY <3>1 DEF RatePairwise, RatePointwise, NextPool
    <3>3. turn' = "idle"
      BY <1>4, <3>2 DEF ChainInv, verifyVars
    <3>4. QED
      BY <1>1, <1>2, <2>1, <3>2, <3>3, RateHeeds, QuietPolls
  <2>2. CASE QualityDone
    <3>1. turn' = "idle" /\ UNCHANGED batch
      BY <1>4, <2>2 DEF QualityDone, ChainInv, verifyVars, classifyVars
    <3>2. QED
      BY <1>1, <3>1, HeedsSame, QuietPolls
  <2>3. QED
    BY <1>4, <2>1, <2>2
<1>5. CASE (GenerateWave \/ AnnotateWave \/ FrameNotesWave) /\ UNCHANGED <<verifyVars, streamVars>>
  <2>1. turn' = "idle" /\ stage # "dedup"
    BY <1>5 DEF ChainInv, GenerateWave, AnnotateWave, FrameNotesWave, verifyVars
  <2>2. CASE AnnotateWave
    BY <1>1, <1>2, <2>1, <2>2, AnnotateHeeds, QuietPolls
  <2>3. CASE GenerateWave \/ FrameNotesWave
    <3>1. UNCHANGED batch
      BY <2>3 DEF GenerateWave, FrameNotesWave, classifyVars
    <3>2. QED
      BY <1>1, <2>1, <3>1, HeedsSame, QuietPolls
  <2>4. QED
    BY <1>5, <2>2, <2>3
<1>6. CASE VerifyBegin
  BY <1>6, VerifyBeginPolls
<1>7. CASE ReviewWave \/ RepairWave \/ StreamReview \/ StreamClaims \/ StreamMend \/ StreamRefresh
  BY <1>7, VerifyWavesPoll
<1>8. CASE StreamBegin \/ StreamCapacity
  BY <1>8, StreamBeginPolls, CapacityPolls
<1>9. CASE StreamTripped
  BY <1>9, TrippedPolls
<1>10. CASE VerifyEnd
  <2>1. turn' = "idle" /\ UNCHANGED batch
    BY <1>10 DEF VerifyEnd, classifyVars
  <2>2. QED
    BY <1>1, <2>1, HeedsSame, QuietPolls
<1>11. QED
  BY <1>3, <1>4, <1>5, <1>6, <1>7, <1>8, <1>9, <1>10, Zenon DEF Stages

\* What comes from deduplication has no annotation, and a single label at most.
LEMMA AdmitPolls ==
  ASSUME ChainInv, Polls, Admit
  PROVE  Polls'
<1>1. stage = "dedup" /\ UNCHANGED <<project, turn>>
  BY DEF Admit, verifyVars
<1>2. turn' = "idle"
  BY <1>1 DEF ChainInv
<1>3. \A i \in DOMAIN batch' : \E status, seams : batch'[i] = Admitted(i, status, Inherited(i), seams)
  BY Zenon DEF Admit, Admitted
<1>4. ASSUME NEW i, NEW status, NEW seams PROVE Polled(Admitted(i, status, Inherited(i), seams))
  <2> DEFINE e == Admitted(i, status, Inherited(i), seams)
  <2>1. e.annotation = None /\ e.class = Inherited(i)
    BY DEF Admitted, Envelope
  <2> HIDE DEF e
  <2>2. CASE Inherited(i) = None
    BY <2>1, <2>2 DEF Polled, Voted, e
  <2>3. CASE Inherited(i) # None
    <3>1. Inherited(i) = LabelledBy(<<fresh[i].class>>, "inherited")
      BY <2>3 DEF Inherited
    <3>2. e.class.labels = <<fresh[i].class>>
      BY <2>1, <3>1 DEF LabelledBy
    <3>3. Polling(e.class.labels)
      BY <3>2 DEF Polling
    <3>4. QED
      BY <2>1, <3>3 DEF Polled, Voted, e
  <2>4. QED
    BY <2>2, <2>3
<1>5. (\A i \in DOMAIN batch : Polled(batch[i]))'
  <2>1. \A i \in DOMAIN batch' : Polled(batch'[i])
    BY <1>3, <1>4
  <2>2. QED
    BY <1>1, <2>1, PolledNext
<1>6. QED
  BY <1>2, <1>5 DEF Polls, Streaming

\* How the counters of the classes relate to the envelopes, stage by stage.
Counts ==
  /\ stage = "classify" =>
       /\ \A i \in DOMAIN batch : batch[i].class # None => batch[i].class.source = "inherited"
       /\ \A c \in Range(project.classes) : tally[c] = 0
  /\ stage = "frames" =>
       /\ \A i \in DOMAIN batch : Cast(batch[i]) # {} => batch[i].status = "active"
       /\ \A c \in Range(project.classes) :
            tally[c] = Cardinality({i \in DOMAIN batch : c \in Cast(batch[i])})
  /\ stage \in {"extract", "quality"} =>
       \A c \in Range(project.classes) : tally[c] = Cardinality(Bearers(batch, c))

\* Admission starts to count,
LEMMA AdmitCounts ==
  ASSUME Admit PROVE Counts'
<1>1. stage' = "classify" /\ UNCHANGED project /\ tally' = [c \in Range(project.classes) |-> 0]
  BY DEF Admit
<1>2. \A i \in DOMAIN batch' : \E status, seams : batch'[i] = Admitted(i, status, Inherited(i), seams)
  BY Zenon DEF Admit, Admitted
<1>3. ASSUME NEW i \in DOMAIN batch', batch'[i].class # None PROVE batch'[i].class.source = "inherited"
  <2>1. batch'[i].class = Inherited(i)
    BY <1>2 DEF Admitted, Envelope
  <2>2. QED
    BY <1>3, <2>1 DEF Inherited, LabelledBy
<1>4. QED
  BY <1>1, <1>3 DEF Counts

\* classification counts what is cast,
LEMMA ClassifyCounts ==
  ASSUME ProjectSound, BatchSound(batch), Counts, ClassifyWave
  PROVE  Counts'
<1>1. /\ stage = "classify" /\ stage' = "frames" /\ UNCHANGED project
  BY DEF ClassifyWave
<1>2. /\ \A i \in DOMAIN batch : batch[i].class # None => batch[i].class.source = "inherited"
      /\ \A c \in Range(project.classes) : tally[c] = 0
  BY <1>1 DEF Counts
<1>3. /\ DOMAIN batch' = DOMAIN batch
      /\ \A i \in DOMAIN batch : Disposed(batch[i], batch'[i]) /\ (i \notin Unclassified => batch'[i] = batch[i])
      /\ tally' = [c \in Range(project.classes) |-> tally[c] +
           Cardinality({i \in Unclassified : batch'[i].class # None /\ c \in Range(batch'[i].class.labels)})]
  BY ClassifyIs
<1>4. ASSUME NEW i \in DOMAIN batch
      PROVE  /\ Cast(batch'[i]) # {} => batch'[i].status = "active"
             /\ \A c : c \in Cast(batch'[i]) <=>
                  i \in Unclassified /\ batch'[i].class # None /\ c \in Range(batch'[i].class.labels)
  <2>1. CASE i \notin Unclassified
    BY <1>2, <1>3, <2>1 DEF Cast
  <2>2. CASE i \in Unclassified
    <3>1. batch[i].class = None /\ batch[i].status = "active" /\ Disposed(batch[i], batch'[i])
      BY <1>3, <2>2 DEF Unclassified, Active
    <3>2. QED
      BY <2>2, <3>1 DEF Disposed, Cast
  <2>3. QED
    BY <2>1, <2>2
<1>5. ASSUME NEW c \in Range(project.classes)
      PROVE  tally'[c] = Cardinality({i \in DOMAIN batch' : c \in Cast(batch'[i])})
  <2> DEFINE V == {i \in DOMAIN batch' : c \in Cast(batch'[i])}
             W == {i \in Unclassified : batch'[i].class # None /\ c \in Range(batch'[i].class.labels)}
  <2>1. Unclassified \subseteq DOMAIN batch
    BY DEF Unclassified, Active
  <2>2. V = W
    BY <1>3, <1>4, <2>1
  <2>3. tally'[c] = tally[c] + Cardinality(W)
    BY <1>3
  <2>4. Cardinality(W) \in Nat
    <3>1. PICK n \in Nat : DOMAIN batch = 1 .. n
      BY DEF BatchSound
    <3>2. IsFiniteSet(1 .. n) /\ W \subseteq 1 .. n
      BY <2>1, <3>1, PlacesFinite
    <3> HIDE DEF W
    <3>3. QED
      BY <3>2, FS_Subset, FS_CardinalityType
  <2> HIDE DEF V, W
  <2>5. tally'[c] = Cardinality(V)
    BY <1>2, <2>2, <2>3, <2>4
  <2>6. QED
    BY <2>5 DEF V
<1>6. (\A c \in Range(project.classes) : tally[c] = Cardinality({i \in DOMAIN batch : c \in Cast(batch[i])}))'
  BY <1>1, <1>5, Zenon DEF Cast
<1>7. (\A i \in DOMAIN batch : Cast(batch[i]) # {} => batch[i].status = "active")'
  BY <1>3, <1>4, Zenon DEF Cast
<1>8. QED
  BY <1>1, <1>6, <1>7 DEF Counts

\* the siblings make up for what is counted beyond the envelopes,
LEMMA FramesCount ==
  ASSUME ProjectSound, BatchSound(batch), Unparted, Polls, Counts, FrameWave
  PROVE  Counts'
<1>1. /\ stage = "frames" /\ stage' = "extract" /\ UNCHANGED <<project, tally>>
  BY DEF FrameWave
<1>2. batch' = IF project.max_labels > 1 THEN FanOut(batch) ELSE batch
  BY Zenon DEF FrameWave
<1>3. /\ \A i \in DOMAIN batch : Cast(batch[i]) # {} => batch[i].status = "active"
      /\ \A c \in Range(project.classes) : tally[c] = Cardinality({i \in DOMAIN batch : c \in Cast(batch[i])})
  BY <1>1 DEF Counts
<1>4. ASSUME NEW c \in Range(project.classes) PROVE tally[c] = Cardinality(Bearers(batch', c))
  <2>1. CASE project.max_labels > 1
    <3>1. Cardinality(Bearers(FanOut(batch), c)) = Cardinality({i \in DOMAIN batch : c \in Cast(batch[i])})
      BY <1>3, FanOutBears
    <3>2. QED
      BY <1>2, <1>3, <2>1, <3>1
  <2>2. CASE ~ project.max_labels > 1
    <3>1. project.max_labels <= 1
      BY <2>2 DEF ProjectSound
    <3>2. ASSUME NEW i \in DOMAIN batch PROVE Bears(batch[i], c) <=> c \in Cast(batch[i])
      <4>1. /\ EnvelopeSound(batch[i]) /\ IsAnchor(batch[i]) /\ Polled(batch[i])
            /\ batch[i].class # None => Distinct(batch[i].class.labels)
        BY DEF BatchSound, Unparted, Polls
      <4>2. Bears(batch[i], c) <=> c \in Cast(batch[i]) /\ LabelOf(batch[i]) = c
        BY <4>1, AnchorBears
      <4>3. ASSUME c \in Cast(batch[i]) PROVE LabelOf(batch[i]) = c
        <5> DEFINE l == batch[i].class.labels
        <5>1. batch[i].class # None /\ c \in Range(l)
          BY <4>3 DEF Cast
        <5>2. l \in Seq(Range(project.classes))
          BY <4>1, <5>1 DEF EnvelopeSound, Labelled
        <5>3. Len(l) = 1
          BY <3>1, <4>1, <5>1 DEF Polled, Polling
        <5>4. DOMAIN l = {1}
          BY <5>2, <5>3, LenProperties
        <5>5. LabelOf(batch[i]) = l[1]
          BY <4>1, <5>1 DEF LabelOf, IsAnchor
        <5>6. QED
          BY <5>1, <5>4, <5>5 DEF Range
      <4>4. QED
        BY <4>2, <4>3
    <3>3. Bearers(batch, c) = {i \in DOMAIN batch : c \in Cast(batch[i])}
      BY <3>2 DEF Bearers
    <3>4. QED
      BY <1>2, <1>3, <2>2, <3>3
  <2>3. QED
    BY <2>1, <2>2
<1>5. (\A c \in Range(project.classes) : tally[c] = Cardinality(Bearers(batch, c)))'
  BY <1>1, <1>4, Zenon DEF Bearers, Bears, LabelOf
<1>6. QED
  BY <1>1, <1>5 DEF Counts

\* and it stays so while the classes of the envelopes do.
LEMMA HeedsCounts ==
  ASSUME Counts, stage \in {"extract", "quality"}, stage' \notin {"classify", "frames"},
         UNCHANGED <<project, tally>>, Heeds(batch, batch')
  PROVE  Counts'
<1>1. ASSUME NEW c \in Range(project.classes) PROVE Bearers(batch', c) = Bearers(batch, c)
  BY DEF Bearers, Bears, LabelOf, Heeds, Heeded
<1>2. \A c \in Range(project.classes) : tally[c] = Cardinality(Bearers(batch', c))
  BY <1>1 DEF Counts
<1>3. (\A c \in Range(project.classes) : tally[c] = Cardinality(Bearers(batch, c)))'
  BY <1>2, Zenon DEF Bearers, Bears, LabelOf
<1>4. QED
  BY <1>3 DEF Counts

\* So they relate after every stage.
LEMMA StagesCount ==
  ASSUME ChainInv, Polls, Counts, Stages
  PROVE  Counts'
<1>1. UNCHANGED project
  BY StagesApart
<1>2. stage # "dedup" => ProjectSound /\ BatchSound(batch)
  BY DEF ChainInv
<1>3. CASE ClassifyWave
  BY <1>2, <1>3, ClassifyCounts DEF ClassifyWave
<1>4. CASE FrameWave
  <2>1. Unparted /\ stage # "dedup"
    BY <1>4 DEF ChainInv, FrameWave
  <2>2. QED
    BY <1>2, <1>4, <2>1, FramesCount
<1>5. CASE ExtractWave
  <2>1. stage = "extract" /\ stage' = "quality" /\ UNCHANGED tally
    BY <1>5 DEF ExtractWave
  <2>2. QED
    BY <1>1, <1>2, <1>5, <2>1, ExtractHeeds, HeedsCounts
<1>6. CASE Rate
  <2>1. PICK label \in Pools : RatePairwise(label) \/ RatePointwise(label)
    BY <1>6 DEF Rate
  <2>2. stage = "quality" /\ UNCHANGED <<stage, tally>>
    BY <2>1 DEF RatePairwise, RatePointwise, NextPool
  <2>3. QED
    BY <1>1, <1>2, <1>6, <2>2, RateHeeds, HeedsCounts
<1>7. stage' \notin {"classify", "frames", "extract", "quality"} => Counts'
  BY DEF Counts
<1>8. CASE QualityDone \/ GenerateWave \/ AnnotateWave \/ FrameNotesWave
  BY <1>7, <1>8 DEF QualityDone, GenerateWave, AnnotateWave, FrameNotesWave
<1>9. CASE VerifyBegin \/ ReviewWave \/ RepairWave \/ StreamBegin \/ StreamReview \/ StreamClaims
             \/ StreamMend \/ StreamRefresh \/ StreamCapacity \/ StreamTripped \/ VerifyEnd
  <2>1. stage = "verify"
    BY <1>9 DEF ChainInv, VerifyBegin, ReviewWave, RepairWave, StreamBegin, StreamReview, StreamClaims,
                StreamMend, StreamRefresh, StreamCapacity, StreamTripped, VerifyEnd
  <2>2. stage' \in {"verify", "done", "discarded", "tripped"}
    BY <1>9, <2>1 DEF VerifyBegin, ReviewWave, RepairWave, StreamBegin, StreamReview, StreamClaims,
                StreamMend, StreamRefresh, StreamCapacity, VerifyEnd,
                StreamTripped, ReviewTripped, ClaimsTripped, StepsTripped, RepairTripped
  <2>3. QED
    BY <1>7, <2>2
<1>10. QED
  BY <1>3, <1>4, <1>5, <1>6, <1>8, <1>9, Zenon DEF Stages

\* What is known of votes in every reachable state of the chain.
Votes == Polls /\ Counts

\* It holds at the start,
LEMMA VotesStart == ChainInit => Votes
<1> SUFFICES ASSUME ChainInit PROVE Votes
  OBVIOUS
<1>1. batch = <<>> /\ turn = "idle" /\ stage \in {"generate", "dedup"}
  BY DEF ChainInit
<1>2. DOMAIN batch = 1 .. 0
  BY <1>1, NoPlaces
<1>3. QED
  BY <1>1, <1>2 DEF Votes, Polls, Counts, Streaming

\* and every step preserves it.
LEMMA VotesKept == ChainSound /\ Votes /\ [ChainNext]_allVars => Votes'
<1> SUFFICES ASSUME ChainInv, Polls, Counts, [ChainNext]_allVars PROVE Polls' /\ Counts'
  BY DEF ChainSound, Votes
<1>1. CASE UNCHANGED chainVars
  <2>1. UNCHANGED <<project, stage, batch, tally, turn, reviews, snapshot>>
    BY <1>1 DEF chainVars, classifyVars, verifyVars, streamVars
  <2>2. Counts'
    BY <2>1, Zenon DEF Counts, Cast, Bearers, Bears, LabelOf
  <2>3. Polls'
    BY <2>1, ZenonT(30) DEF Polls, Polled, Polling, Voted, Elected, Streaming
  <2>4. QED
    BY <2>2, <2>3
<1>2. CASE Admit
  BY <1>2, AdmitPolls, AdmitCounts
<1>3. CASE Stages
  BY <1>3, StagesPoll, StagesCount
<1>4. CASE Reflow
  <2>1. batch' = <<>> /\ turn' = "idle" /\ stage' = "dedup"
    BY <1>4 DEF Reflow
  <2>2. DOMAIN batch' = 1 .. 0
    BY <2>1, NoPlaces
  <2>3. QED
    BY <2>1, <2>2 DEF Polls, Counts, Streaming
<1>5. QED
  BY <1>1, <1>2, <1>3, <1>4 DEF ChainNext, ChainStart, Deduplicate, allVars

(* However the samples vote, whichever are lost, and however verification  *)
(* ends: the fallback class stands alone, what more than half of the valid *)
(* samples agree on is the annotation, and once the siblings have joined   *)
(* the counter of each class is the number of envelopes that show it       *)
(* (VotesSound), for every project and every batch.                        *)
THEOREM VotesSoundCorrect == ChainSpec => []VotesSound
<1>1. ChainInit => Votes
  BY VotesStart
<1>2. Votes => VotesSound
  <2> SUFFICES ASSUME Votes PROVE VotesSound
    OBVIOUS
  <2>1. ASSUME NEW i \in DOMAIN batch, batch[i].class # None, project.fallback \in Range(batch[i].class.labels)
        PROVE  Len(batch[i].class.labels) = 1
    BY <2>1 DEF Votes, Polls, Polled, Polling
  <2>2. ASSUME After({"extract", "quality"}), NEW c \in Range(project.classes)
        PROVE  tally[c] = Cardinality({i \in DOMAIN batch : LabelOf(batch[i]) = c /\ batch[i].class.source # "inherited"})
    BY <2>2 DEF Votes, Counts, Bearers, Bears, After
  <2>3. ASSUME NEW i \in DOMAIN batch, batch[i].annotation # None
        PROVE  LET of == batch[i].annotation.of
               IN \A k \in DOMAIN of :
                    2 * Cardinality({l \in DOMAIN of : of[l] = of[k]}) > Len(of) => batch[i].annotation.chosen = of[k]
    BY <2>3 DEF Votes, Polls, Polled, Voted, Elected
  <2>4. QED
    BY <2>1, <2>2, <2>3 DEF VotesSound
<1>3. QED
  BY <1>1, <1>2, VotesKept, ChainInvariant, PTL DEF ChainSpec
=============================================================================
