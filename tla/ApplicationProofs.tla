--------------------------- MODULE ApplicationProofs ---------------------------
(***************************************************************************)
(* Theorems about a run of the program for every configuration and every   *)
(* input: no record is lost or counted twice, the outputs agree with the   *)
(* report that stands beside them, exit code 0 means what it says, and a   *)
(* dry run tells the sessions of the run, whichever stage fails, stops or  *)
(* is cancelled at any point.                                              *)
(*                                                                         *)
(* The program loads a project first (Application): what it accepts, its   *)
(* stages can be run with.  From then on it is ProcessWorkflow, whose      *)
(* invariant is proved here.                                               *)
(***************************************************************************)
EXTENDS Application, CollectionTheorems, SequenceTheorems

-------------------------------------------------------------------------------
(* The records that wait                                                   *)

\* What waits in the queue is the sum of its chunks.
LEMMA QueuedIsSum ==
  ASSUME NEW R, NEW q \in Seq(Seq(R))
  PROVE  FoldFunction(+, 0, [k \in DOMAIN q |-> Len(q[k])]) = First(q, Len(q))
<1>1. DOMAIN q = 1 .. Len(q) /\ DOMAIN Lens(q) = DOMAIN q
  BY DEF Lens
<1>2. QED
  BY <1>1, FoldFunctionIsSum DEF First, Lens

\* A number of chunks that holds all records, and that is not too large.
Ceiling(n, size) == (n + size - 1) \div size
Covers(c, n, size) ==
  c \in Nat /\ (n = 0 <=> c = 0) /\ n <= c * size /\ (c # 0 => (c - 1) * size < n)

\* How many chunks there are: the last is neither empty nor too long.
LEMMA ChunkCount ==
  ASSUME NEW size \in Nat \ {0}, NEW n \in Nat, NEW c, c = Ceiling(n, size)
  PROVE  Covers(c, n, size)
<1> USE DEF Covers
<1> DEFINE a == n + size - 1
<1>1. a \in Nat /\ c = a \div size
  BY DEF Ceiling
<1>2. c \in Int /\ c * size <= a /\ a < c * size + size
  <2> HIDE DEF a
  <2>1. QED
    BY <1>1, Z3
<1>3. c \in Nat
  <2>1. c < 0 => c * size + size <= 0
    BY <1>2
  <2>2. QED
    BY <1>1, <1>2, <2>1
<1>4. n <= c * size /\ (c - 1) * size = c * size - size /\ (c - 1) * size < n
  BY <1>2, <1>3
<1>5. n = 0 <=> c = 0
  <2>1. c = 0 => c * size = 0
    BY <1>3
  <2>2. c > 0 => (c - 1) * size >= 0
    BY <1>3
  <2>3. QED
    BY <1>3, <1>4, <2>1, <2>2
<1>6. QED
  BY <1>3, <1>4, <1>5

\* A later chunk begins after an earlier one ends.
LEMMA ChunkOrder ==
  ASSUME NEW size \in Nat \ {0}, NEW k \in Nat, NEW l \in Nat, k < l
  PROVE  k * size + size <= l * size /\ k * size \in Nat
<1>1. k * size \in Nat
  OBVIOUS
<1>2. PICK d \in Nat : l = k + 1 + d
  <2>1. l - k - 1 \in Nat /\ l = k + 1 + (l - k - 1)
    OBVIOUS
  <2>2. QED
    BY <2>1
<1>3. l * size = k * size + size + d * size /\ d * size \in Nat
  BY <1>2
<1>4. QED
  BY <1>1, <1>3

\* Chunks cuts a list into chunks that are full but for the last, and leaves nothing out:
\* element i of chunk k is the element at (k - 1) * batch_size + i.
LEMMA ChunksShape ==
  ASSUME NEW R, NEW records \in Seq(R), cfg \in Configs,
         NEW chunks, chunks = Chunks(records), NEW size, size = cfg.batch_size
  PROVE  /\ chunks \in Seq(Seq(R)) /\ size \in Nat \ {0}
         /\ \A k \in 1 .. Len(chunks) - 1 : Len(chunks[k]) = size
         /\ Len(chunks) = 0 => Len(records) = 0
         /\ Len(chunks) # 0 =>
              Len(chunks[Len(chunks)]) = Len(records) - (Len(chunks) - 1) * size
         /\ \A k \in DOMAIN chunks : \A i \in DOMAIN chunks[k] :
              /\ i \in 1 .. size /\ (k - 1) * size + i \in 1 .. Len(records)
              /\ chunks[k][i] = records[(k - 1) * size + i]
<1> DEFINE n == Len(records)
           c == (n + size - 1) \div size
           From(k) == (k - 1) * size + 1
           To(k) == IF k = c THEN n ELSE k * size
<1>1. size \in Nat \ {0} /\ n \in Nat
  BY ConfigsAssumption
<1>2. chunks = [k \in 1 .. c |-> SubSeq(records, From(k), To(k))]
  BY DEF Chunks
<1> HIDE DEF n
<1>3. c \in Nat /\ (n = 0 <=> c = 0) /\ n <= c * size /\ (c # 0 => (c - 1) * size < n)
  <2>1. c = Ceiling(n, size)
    BY DEF Ceiling
  <2> HIDE DEF c
  <2>2. Covers(c, n, size)
    BY ONLY <1>1, <2>1, ChunkCount
  <2>3. QED
    BY <2>2 DEF Covers
<1> HIDE DEF c
<1>4. ASSUME NEW k \in 1 .. c
      PROVE  /\ From(k) \in Nat \ {0} /\ To(k) \in Nat /\ From(k) <= To(k) + 1 /\ To(k) <= n
             /\ To(k) - From(k) + 1 = IF k = c THEN n - (c - 1) * size ELSE size
             /\ To(k) - From(k) + 1 <= size
  <2>1. (k - 1) * size \in Nat /\ k * size = (k - 1) * size + size /\ c * size = (c - 1) * size + size
    BY ONLY <1>1, <1>3, k \in 1 .. c, SMTT(30)
  <2>2. CASE k = c
    <3>1. PICK p \in Nat : p = (c - 1) * size
      BY <2>1, <2>2
    <3>2. From(k) = p + 1 /\ To(k) = n /\ n <= p + size /\ p < n
      BY <1>3, <2>1, <2>2, <3>1
    <3> HIDE DEF From, To
    <3>3. From(k) \in Nat \ {0} /\ From(k) <= n /\ To(k) = n /\ n - From(k) + 1 <= size
          /\ n - From(k) + 1 = n - p
      BY ONLY <1>1, <3>2, p \in Nat
    <3>4. QED
      BY ONLY <1>1, <2>2, <3>1, <3>3
  <2>3. CASE k # c
    <3>1. k < c
      BY <1>3, <2>3
    <3>2. k \in Nat /\ (k < c - 1 => k * size + size <= (c - 1) * size)
      BY <1>1, <1>3, <3>1, ChunkOrder
    <3>3. k * size <= (c - 1) * size /\ (c - 1) * size \in Nat
      <4>1. CASE k = c - 1
        BY <1>1, <1>3, <4>1
      <4>2. CASE k < c - 1
        <5>1. k * size \in Nat /\ (c - 1) * size \in Nat
          BY <1>1, <1>3, <3>1
        <5>2. QED
          BY <1>1, <3>2, <4>2, <5>1
      <4>3. QED
        BY <1>3, <3>1, <4>1, <4>2
    <3>4. k * size <= n
      BY <1>1, <1>3, <3>1, <3>3, <2>1
    <3>5. From(k) = (k - 1) * size + 1 /\ To(k) = (k - 1) * size + size
      BY <2>1, <2>3
    <3>6. PICK p \in Nat : p = (k - 1) * size
      BY <2>1
    <3>7. From(k) = p + 1 /\ To(k) = p + size /\ p + size <= n
      BY <2>1, <3>4, <3>5, <3>6
    <3> HIDE DEF From, To
    <3>8. To(k) - From(k) + 1 = size /\ From(k) <= To(k) + 1 /\ From(k) # 0 /\ To(k) \in Nat
      BY ONLY <1>1, <3>7, p \in Nat
    <3>9. From(k) \in Nat /\ To(k) <= n
      BY ONLY <1>1, <3>7, p \in Nat
    <3>10. QED
      BY ONLY <1>1, <2>3, <3>8, <3>9
  <2>4. QED
    BY <2>2, <2>3
<1> HIDE DEF From, To
<1>5. ASSUME NEW k \in 1 .. c
      PROVE  /\ chunks[k] \in Seq(R) /\ Len(chunks[k]) = To(k) - From(k) + 1
             /\ \A i \in 1 .. Len(chunks[k]) : chunks[k][i] = records[From(k) + i - 1]
  <2>1. chunks[k] = SubSeq(records, From(k), To(k))
    BY <1>2
  <2>2. QED
    BY <1>1, <1>4, <2>1, SubSeqProperties DEF n
<1>6. chunks \in Seq(Seq(R)) /\ Len(chunks) = c
  <2>1. DOMAIN chunks = 1 .. c /\ \A k \in 1 .. c : chunks[k] \in Seq(R)
    BY <1>2, <1>5
  <2>2. chunks \in [1 .. c -> Seq(R)]
    BY <1>2, <1>5
  <2>3. QED
    BY <1>3, <2>2
<1>7. ASSUME NEW k \in DOMAIN chunks, NEW i \in DOMAIN chunks[k]
      PROVE  /\ i \in 1 .. size /\ (k - 1) * size + i \in 1 .. n
             /\ chunks[k][i] = records[(k - 1) * size + i]
  <2>1. k \in 1 .. c /\ i \in 1 .. Len(chunks[k])
    <3>1. k \in 1 .. c
      BY <1>2
    <3>2. DOMAIN chunks[k] = 1 .. Len(chunks[k])
      BY <1>5, <3>1
    <3>3. QED
      BY <3>1, <3>2
  <2>2. From(k) + i - 1 = (k - 1) * size + i
    <3>1. i \in Int /\ From(k) = (k - 1) * size + 1 /\ From(k) \in Int
      BY <1>4, <1>5, <2>1 DEF From
    <3>2. (k - 1) * size \in Int
      BY <1>1, <1>3, <2>1
    <3>3. PICK p \in Int : p = (k - 1) * size
      BY <3>2
    <3>4. QED
      BY <3>1, <3>3
  <2>3. From(k) + i - 1 \in 1 .. n /\ i \in 1 .. size
    BY <1>1, <1>4, <1>5, <2>1, SMTT(30)
  <2>4. QED
    BY <1>5, <2>1, <2>2, <2>3
<1>8. /\ \A k \in 1 .. c - 1 : Len(chunks[k]) = size
      /\ c # 0 => Len(chunks[c]) = n - (c - 1) * size
  <2>1. ASSUME NEW k \in 1 .. c - 1 PROVE Len(chunks[k]) = size
    <3>1. k \in 1 .. c /\ k # c
      BY <1>3
    <3>2. Len(chunks[k]) = To(k) - From(k) + 1
      BY <1>5, <3>1
    <3>3. QED
      BY <1>4, <3>1, <3>2
  <2>2. ASSUME c # 0 PROVE Len(chunks[c]) = n - (c - 1) * size
    <3>1. c \in 1 .. c
      BY <1>3, <2>2
    <3>2. Len(chunks[c]) = To(c) - From(c) + 1
      BY <1>5, <3>1
    <3>3. QED
      BY <1>4, <3>1, <3>2
  <2>3. QED
    BY <2>1, <2>2
<1>9. QED
  BY <1>1, <1>3, <1>6, <1>7, <1>8 DEF n

\* What is queued is what was generated.
LEMMA QueuedAppend ==
  ASSUME NEW R, NEW q \in Seq(Seq(R)), NEW records \in Seq(R), cfg \in Configs
  PROVE  LET longer == q \o Chunks(records)
         IN /\ longer \in Seq(Seq(R)) /\ First(q, Len(q)) \in Int
            /\ First(longer, Len(longer)) = First(q, Len(q)) + Len(records)
<1>a. PICK chunks : chunks = Chunks(records)
  OBVIOUS
<1>b. PICK size : size = cfg.batch_size
  OBVIOUS
<1> DEFINE c == Len(chunks)
           m == Len(q)
           s == q \o chunks
<1>1. /\ chunks \in Seq(Seq(R)) /\ size \in Nat \ {0} /\ c \in Nat
      /\ \A k \in 1 .. c - 1 : Len(chunks[k]) = size
      /\ c = 0 => Len(records) = 0
      /\ c # 0 => Len(chunks[c]) = Len(records) - (c - 1) * size
  <2>1. chunks \in Seq(Seq(R)) /\ size \in Nat \ {0}
    BY <1>a, <1>b, ChunksShape
  <2>2. c \in Nat
    BY <2>1
  <2>3. \A k \in 1 .. c - 1 : Len(chunks[k]) = size
    BY <1>a, <1>b, ChunksShape
  <2>4. c = 0 => Len(records) = 0
    BY <1>a, <1>b, ChunksShape
  <2>5. c # 0 => Len(chunks[c]) = Len(records) - (c - 1) * size
    BY <1>a, <1>b, ChunksShape
  <2>6. QED
    BY <2>1, <2>2, <2>3, <2>4, <2>5
<1>2. s \in Seq(Seq(R)) /\ Len(s) = m + c /\ m \in Nat /\ Len(records) \in Nat
  BY <1>1
<1>3. First(s, m) = First(q, m)
  BY <1>1, FirstConcat
<1>4. First(q, m) \in Int
  <2>1. CASE m = 0
    BY <2>1, FirstNone
  <2>2. CASE m # 0
    <3>1. m - 1 \in Nat /\ m - 1 < Len(q) /\ Len(q[m - 1 + 1]) \in Int /\ m - 1 + 1 = m
      BY <1>2, <2>2
    <3>2. First(q, m - 1) \in Int /\ First(q, m - 1 + 1) = First(q, m - 1) + Len(q[m - 1 + 1])
      BY <3>1, FirstNext
    <3>3. QED
      BY <3>1, <3>2
  <2>3. QED
    BY <2>1, <2>2
<1>5. CASE c = 0
  BY <1>a, <1>1, <1>2, <1>3, <1>4, <1>5
<1>6. CASE c # 0
  <2>1. c - 1 \in Nat /\ c - 1 <= Len(chunks)
    BY <1>1, <1>6
  <2>2. First(s, m + (c - 1)) = First(q, m) + (c - 1) * size
    <3> DEFINE j == c - 1
    <3>1. size \in Nat /\ j \in Nat /\ j <= Len(chunks)
      BY <1>1, <2>1
    <3>4. \A k \in 1 .. j : Len(chunks[k]) = size
      BY <1>1
    <3>5. q \in Seq(Seq(R)) /\ chunks \in Seq(Seq(R))
      BY <1>1
    <3> HIDE DEF j, m, s
    <3>2. First(q \o chunks, Len(q) + j) = First(q, Len(q)) + j * size
      BY ONLY <3>1, <3>4, <3>5, FirstEven, Zenon
    <3>3. QED
      BY <3>2 DEF j, m, s
  <2>3. m + (c - 1) \in Nat /\ m + (c - 1) < Len(s) /\ m + (c - 1) + 1 = m + c
    BY <1>2, <2>1
  <2>4. First(s, m + (c - 1) + 1) = First(s, m + (c - 1)) + Len(s[m + (c - 1) + 1])
    BY <1>2, <2>3, FirstNext
  <2>5. s[m + c] = chunks[c]
    BY <1>1, <1>2, <1>6
  <2>6. (c - 1) * size \in Int
    BY <1>1
  <2>7. First(s, m + c) = First(q, m) + Len(records)
    <3>1. PICK p \in Int : p = (c - 1) * size
      BY <2>6
    <3> HIDE DEF c, m, s
    <3>2. First(s, m + c) = First(s, m + (c - 1)) + Len(chunks[c])
      BY <2>3, <2>4, <2>5
    <3>3. First(s, m + (c - 1)) = First(q, m) + p /\ Len(chunks[c]) = Len(records) - p
      BY <1>1, <1>6, <2>2, <3>1
    <3>4. QED
      BY <1>2, <1>4, <3>2, <3>3
  <2>8. QED
    BY <1>a, <1>2, <1>4, <2>7
<1>7. QED
  BY <1>5, <1>6

-------------------------------------------------------------------------------
(* The counters of the report                                              *)

\* The sums of the report, written out.
LEMMA CounterSums ==
  ASSUME NEW g, \A k \in Deducted \cup {"emitted", "failed"} : g[k] \in Int
  PROVE  /\ FoldFunctionOnSet(+, 0, g, Deducted)
              = g["dropped_dup"] + g["dropped_lowq"] + g["dropped_verify"]
                  + g["absorbed"] + g["dropped_noise"] + g["stitched"]
         /\ FoldFunctionOnSet(+, 0, g, Deducted \cup {"emitted", "failed"})
              = g["dropped_dup"] + g["dropped_lowq"] + g["dropped_verify"]
                  + g["absorbed"] + g["dropped_noise"] + g["stitched"]
                  + g["emitted"] + g["failed"]
<1> DEFINE S1 == {"dropped_dup"}
           S2 == S1 \cup {"dropped_lowq"}
           S3 == S2 \cup {"dropped_verify"}
           S4 == S3 \cup {"absorbed"}
           S5 == S4 \cup {"dropped_noise"}
           S6 == S5 \cup {"stitched"}
           S7 == S6 \cup {"emitted"}
           S8 == S7 \cup {"failed"}
<1>1. S6 = Deducted /\ S8 = Deducted \cup {"emitted", "failed"}
  BY DEF Deducted
<1>2. S1 = {} \cup {"dropped_dup"}
  OBVIOUS
<1>3. /\ IsFiniteSet({}) /\ IsFiniteSet(S1) /\ IsFiniteSet(S2) /\ IsFiniteSet(S3)
      /\ IsFiniteSet(S4) /\ IsFiniteSet(S5) /\ IsFiniteSet(S6) /\ IsFiniteSet(S7)
  <2>1. IsFiniteSet({})
    BY FS_EmptySet
  <2>2. IsFiniteSet(S1)
    BY <1>2, <2>1, FS_AddElement
  <2>3. IsFiniteSet(S2)
    BY <2>2, FS_AddElement
  <2>4. IsFiniteSet(S3)
    BY <2>3, FS_AddElement
  <2>5. IsFiniteSet(S4)
    BY <2>4, FS_AddElement
  <2>6. IsFiniteSet(S5)
    BY <2>5, FS_AddElement
  <2>7. IsFiniteSet(S6)
    BY <2>6, FS_AddElement
  <2>8. IsFiniteSet(S7)
    BY <2>7, FS_AddElement
  <2>9. QED
    BY <2>1, <2>2, <2>3, <2>4, <2>5, <2>6, <2>7, <2>8
<1>4. /\ "dropped_lowq" \notin S1 /\ "dropped_verify" \notin S2 /\ "absorbed" \notin S3
      /\ "dropped_noise" \notin S4 /\ "stitched" \notin S5 /\ "emitted" \notin S6
      /\ "failed" \notin S7
  OBVIOUS
<1>5. \A k \in S8 : g[k] \in Int
  BY <1>1
<1>a. /\ S2 = S1 \cup {"dropped_lowq"} /\ S3 = S2 \cup {"dropped_verify"}
      /\ S4 = S3 \cup {"absorbed"} /\ S5 = S4 \cup {"dropped_noise"}
      /\ S6 = S5 \cup {"stitched"} /\ S7 = S6 \cup {"emitted"} /\ S8 = S7 \cup {"failed"}
  OBVIOUS
<1>b. /\ S1 \subseteq S8 /\ S2 \subseteq S8 /\ S3 \subseteq S8 /\ S4 \subseteq S8
      /\ S5 \subseteq S8 /\ S6 \subseteq S8 /\ S7 \subseteq S8
  OBVIOUS
<1>6. SumOf(g, S1) = g["dropped_dup"]
  <2>1. SumOf(g, {} \cup {"dropped_dup"}) = g["dropped_dup"] + SumOf(g, {})
    BY <1>3, <1>5, SumAdd
  <2>2. QED
    BY <1>2, <1>5, <2>1, SumEmpty
<1>14. /\ g["dropped_dup"] \in Int /\ g["dropped_lowq"] \in Int /\ g["dropped_verify"] \in Int
       /\ g["absorbed"] \in Int /\ g["dropped_noise"] \in Int /\ g["stitched"] \in Int
       /\ g["emitted"] \in Int /\ g["failed"] \in Int
  BY <1>5
<1> HIDE DEF S1, S2, S3, S4, S5, S6, S7, S8
<1>c. ASSUME NEW S, NEW x, IsFiniteSet(S), x \notin S, S \cup {x} \subseteq S8
      PROVE  SumOf(g, S \cup {x}) = g[x] + SumOf(g, S)
  <2>1. \A y \in S \cup {x} : g[y] \in Int
    BY <1>5, <1>c
  <2>2. IsFiniteSet(S) /\ x \notin S
    BY <1>c
  <2>3. QED
    BY ONLY <2>1, <2>2, SumAdd
<1>7. SumOf(g, S2) = g["dropped_lowq"] + SumOf(g, S1)
  BY <1>3, <1>4, <1>a, <1>b, <1>c
<1>8. SumOf(g, S3) = g["dropped_verify"] + SumOf(g, S2)
  BY <1>3, <1>4, <1>a, <1>b, <1>c
<1>9. SumOf(g, S4) = g["absorbed"] + SumOf(g, S3)
  BY <1>3, <1>4, <1>a, <1>b, <1>c
<1>10. SumOf(g, S5) = g["dropped_noise"] + SumOf(g, S4)
  BY <1>3, <1>4, <1>a, <1>b, <1>c
<1>11. SumOf(g, S6) = g["stitched"] + SumOf(g, S5)
  BY <1>3, <1>4, <1>a, <1>b, <1>c
<1>12. SumOf(g, S7) = g["emitted"] + SumOf(g, S6)
  BY <1>3, <1>4, <1>a, <1>b, <1>c
<1>13. SumOf(g, S8) = g["failed"] + SumOf(g, S7)
  BY <1>3, <1>4, <1>a, <1>b, <1>c
<1>15. /\ SumOf(g, S6) = g["dropped_dup"] + g["dropped_lowq"] + g["dropped_verify"]
                           + g["absorbed"] + g["dropped_noise"] + g["stitched"]
       /\ SumOf(g, S8) = g["dropped_dup"] + g["dropped_lowq"] + g["dropped_verify"]
                           + g["absorbed"] + g["dropped_noise"] + g["stitched"]
                           + g["emitted"] + g["failed"]
  BY <1>6, <1>7, <1>8, <1>9, <1>10, <1>11, <1>12, <1>13, <1>14
<1>16. \A S : FoldFunctionOnSet(+, 0, g, S) = SumOf(g, S)
  BY DEF FoldFunctionOnSet, SumOf, MapThenSumSet
<1>17. QED
  BY <1>1, <1>15, <1>16

\* The counters of records that are neither emitted nor failed.
LEMMA DeductedFinite == IsFiniteSet(Deducted)
<1>1. Deducted = (((({"dropped_dup"} \cup {"dropped_lowq"}) \cup {"dropped_verify"})
                    \cup {"absorbed"}) \cup {"dropped_noise"}) \cup {"stitched"}
  BY DEF Deducted
<1>2. IsFiniteSet({"dropped_dup"})
  BY FS_Singleton
<1>3. QED
  BY <1>1, <1>2, FS_AddElement

\* Those with one label, and those with one of several.
Labelled(D, f, s) == Cardinality({i \in D : f[i] = s})
LabelledIn(D, f, S) == Cardinality({i \in D : f[i] \in S})

\* One more label takes the records with that label.
LEMMA LabelledNext ==
  ASSUME NEW D, IsFiniteSet(D), NEW f, NEW S, NEW s, s \notin S
  PROVE  /\ LabelledIn(D, f, S) \in Nat /\ Labelled(D, f, s) \in Nat
         /\ LabelledIn(D, f, S \cup {s}) = LabelledIn(D, f, S) + Labelled(D, f, s)
<1> DEFINE A == {i \in D : f[i] \in S}
           B == {i \in D : f[i] = s}
<1>1. A \in SUBSET D /\ B \in SUBSET D /\ A \cap B = {}
  OBVIOUS
<1>2. IsFiniteSet(A) /\ IsFiniteSet(B) /\ Cardinality(A) \in Nat /\ Cardinality(B) \in Nat
  BY <1>1, FS_Subset, FS_CardinalityType
<1>3. {i \in D : f[i] \in S \cup {s}} = A \cup B
  OBVIOUS
<1> HIDE DEF A, B
<1>4. Cardinality(A \cup B) = Cardinality(A) + Cardinality(B)
  <2>1. Cardinality(A \cup B) = Cardinality(A) + Cardinality(B) - Cardinality(A \cap B)
    BY <1>2, FS_Union
  <2>2. Cardinality(A \cap B) = 0
    BY <1>1, FS_EmptySet
  <2>3. QED
    BY <1>2, <2>1, <2>2
<1>5. QED
  BY <1>2, <1>3, <1>4 DEF A, B, Labelled, LabelledIn

\* Records with different labels: those that are deducted and those that are active are
\* together not more than there are.
LEMMA LabelsDisjoint ==
  ASSUME NEW n \in Nat, NEW f
  PROVE  LET Count(s) == Labelled(1 .. n, f, s)
         IN /\ \A s \in Deducted \cup {"active"} : Count(s) \in Nat
            /\ Count("dropped_dup") + Count("dropped_lowq") + Count("dropped_verify")
                 + Count("absorbed") + Count("dropped_noise") + Count("stitched")
                 + Count("active") <= n
<1> DEFINE D == 1 .. n
           Count(s) == Labelled(D, f, s)
           Sum(S) == LabelledIn(D, f, S)
           S1 == {"dropped_dup"}
           S2 == S1 \cup {"dropped_lowq"}
           S3 == S2 \cup {"dropped_verify"}
           S4 == S3 \cup {"absorbed"}
           S5 == S4 \cup {"dropped_noise"}
           S6 == S5 \cup {"stitched"}
           S7 == S6 \cup {"active"}
<1>1. IsFiniteSet(D) /\ Cardinality(D) = n
  BY FS_Interval
<1>2. /\ "dropped_lowq" \notin S1 /\ "dropped_verify" \notin S2 /\ "absorbed" \notin S3
      /\ "dropped_noise" \notin S4 /\ "stitched" \notin S5 /\ "active" \notin S6
  OBVIOUS
<1>3. S7 = Deducted \cup {"active"}
  BY DEF Deducted
<1>4. Sum(S1) = Count("dropped_dup")
  <2>1. {i \in D : f[i] \in S1} = {i \in D : f[i] = "dropped_dup"}
    OBVIOUS
  <2>2. QED
    BY <2>1 DEF Labelled, LabelledIn
<1> HIDE DEF S1, S2, S3, S4, S5, S6, S7, D
<1>5. ASSUME NEW S, NEW s, s \notin S
      PROVE  Sum(S) \in Nat /\ Count(s) \in Nat /\ Sum(S \cup {s}) = Sum(S) + Count(s)
  <2>1. IsFiniteSet(D) /\ s \notin S
    BY <1>1, <1>5
  <2>2. QED
    BY ONLY <2>1, LabelledNext
<1>6. \A s : Count(s) \in Nat
  <2>1. ASSUME NEW s PROVE Count(s) \in Nat
    <3>1. s \notin {}
      OBVIOUS
    <3>2. QED
      BY <1>5, <3>1
  <2>2. QED
    BY <2>1
<1>7. Sum(S7) <= n
  <2>1. {i \in D : f[i] \in S7} \in SUBSET D
    OBVIOUS
  <2>2. QED
    BY <1>1, <2>1, FS_Subset DEF LabelledIn
<1> HIDE DEF Sum, Count
<1>8. /\ Sum(S2) = Sum(S1) + Count("dropped_lowq") /\ Sum(S3) = Sum(S2) + Count("dropped_verify")
      /\ Sum(S4) = Sum(S3) + Count("absorbed") /\ Sum(S5) = Sum(S4) + Count("dropped_noise")
      /\ Sum(S6) = Sum(S5) + Count("stitched") /\ Sum(S7) = Sum(S6) + Count("active")
  BY <1>2, <1>5 DEF S2, S3, S4, S5, S6, S7
<1>9. /\ Count("dropped_dup") \in Nat /\ Count("dropped_lowq") \in Nat
      /\ Count("dropped_verify") \in Nat /\ Count("absorbed") \in Nat
      /\ Count("dropped_noise") \in Nat /\ Count("stitched") \in Nat /\ Count("active") \in Nat
  BY <1>6
<1>10. Count("dropped_dup") + Count("dropped_lowq") + Count("dropped_verify")
         + Count("absorbed") + Count("dropped_noise") + Count("stitched") + Count("active") <= n
  BY <1>4, <1>7, <1>8, <1>9
<1>11. QED
  BY <1>6, <1>10 DEF Count, D

-------------------------------------------------------------------------------
(* The invariant                                                           *)

Statuses == Deducted \cup {"active", "failed"}
Record == [id : Nat, status : Statuses]
Phases == {"open", "take", "read", "generate", "deliver", "chain", "emit", "settle",
           "finalize", "sidecar", "report", "close", "exited"}
Publishing == {"finalize", "sidecar", "report"}
Over == {"close", "exited"}

\* The records that the reader has taken from the input.
Taken == IF Generated THEN ingested ELSE scanned

\* The types of the reader, of the emitter and of the workflow.
ReaderTypes ==
  /\ cfg \in Configs /\ pos \in 0 .. Len(cfg.lines) /\ ahead \in 0 .. pos
  /\ got \in Seq(Nat) /\ \A i \in DOMAIN got : got[i] \in 1 .. pos
  /\ scanned \in Nat /\ ingested \in Nat /\ bad \in Nat

EmitterTypes ==
  /\ batch \in Seq(Record) /\ cursor \in 0 .. Len(batch)
  /\ main \in Seq(Nat) /\ side \in Seq(Nat) /\ rejects \in Seq(Nat)
  /\ gone \subseteq ToSet(main) /\ halves \subseteq ToSet(main)
  /\ emitted \in Nat /\ rejected \in Nat /\ swallowed \in Nat

WorkflowTypes ==
  /\ phase \in Phases /\ queue \in Seq(Seq(Record))
  /\ next \in Nat /\ next > Len(cfg.lines)
  /\ count \in [Counters -> Nat] /\ lost \in Nat

FlagTypes ==
  /\ stop \in BOOLEAN /\ timer \in BOOLEAN /\ opened \in BOOLEAN /\ broken \in BOOLEAN
  /\ fatal \in BOOLEAN /\ undeliverable \in BOOLEAN
  /\ DOMAIN files = {"output", "sidecar", "report"}

\* Where in the run a batch, a session or a pending record can be.
Placed ==
  /\ phase \notin {"chain", "emit"} \cup Over => batch = <<>>
  /\ phase \notin {"emit"} \cup Over => cursor = 0 /\ gone = {}
  /\ phase \notin {"read"} \cup Publishing \cup Over => got = <<>>
  /\ phase = "read" => queue = <<>>
  /\ ~cfg.stream => ahead = 0
  /\ phase = "deliver" => cfg.form = "sequence"
  /\ phase \notin {"open", "deliver"} \cup Over => cfg.form = "flat"

\* What the end of a run has to do with a stop request, the breaker and the disk.
Excused ==
  /\ timer => stop
  /\ lost > 0 => stop \/ broken
  /\ phase \notin Publishing \cup Over => ~broken
  /\ phase \notin Over => ~undeliverable /\ files.report = {}

\* Nothing is left over but for a stop request or a breaker.
Complete == Limbo > 0 => stop \/ broken

\* What has been published, and what the exit code says once it stands.
Published ==
  /\ phase \in Publishing => Complete
  /\ phase \in {"sidecar", "report"} => files.output = {main}
  /\ phase = "report" /\ cfg.sidecar => files.sidecar = {side}
  /\ phase \in Over /\ code = 0 /\ cfg.form = "flat" => files.report # {}
  /\ \A report \in files.report :
       /\ report = Report /\ ~undeliverable /\ Complete /\ gone = {} /\ cursor = 0
       /\ files.output = {main} /\ (cfg.sidecar => files.sidecar = {side})
       /\ phase = "close" => code = report.exit_code
       /\ phase = "exited" /\ code = 0 => ~fatal /\ report.exit_code = 0

\* Identities: those with a row, and those that were given to a record.
Spent == ToSet(main) \cup ToSet(rejects)
Known == (1 .. pos) \cup (Len(cfg.lines) + 1 .. next - 1)

\* No record of the batch or of the reader has a row yet, and none is there twice.
Distinct ==
  /\ Spent \subseteq Known
  /\ \A i \in DOMAIN batch : batch[i].id \in Known /\ batch[i].id # ahead
  /\ \A i, j \in DOMAIN batch : batch[i].id = batch[j].id => i = j
  /\ \A i \in DOMAIN batch : i > cursor => batch[i].id \notin Spent
  /\ \A i \in DOMAIN got : got[i] \notin Spent /\ got[i] # ahead
  /\ \A i, j \in DOMAIN got : got[i] = got[j] => i = j
  /\ ahead \notin Spent

\* Each of the records that wait has an identity of its own.
Apart(q) ==
  \A k, l \in DOMAIN q : \A i \in DOMAIN q[k], j \in DOMAIN q[l] :
    q[k][i].id = q[l][j].id => k = l /\ i = j

\* Nor has a record that waits, and it is in no batch and waits in one place.
QueueDistinct ==
  /\ \A k \in DOMAIN queue : \A i \in DOMAIN queue[k] :
       /\ queue[k][i].id \in Len(cfg.lines) + 1 .. next - 1
       /\ queue[k][i].id \notin Spent
       /\ \A j \in DOMAIN batch : batch[j].id # queue[k][i].id
  /\ Apart(queue)

\* The rows of the three files.
SameOrder ==
  \A i, j \in DOMAIN side, k, l \in DOMAIN main :
    main[k] = side[i] /\ main[l] = side[j] /\ i < j => k < l

RowsUnique ==
  /\ IsInjective(main) /\ IsInjective(rejects)
  /\ ToSet(main) \cap ToSet(rejects) \subseteq halves
  /\ cfg.sidecar => IsInjective(side) /\ ToSet(side) = ToSet(main) \ halves /\ SameOrder

\* The totals count the rows: of the batches before, and of the current one.
Rejectable(i) == batch[i].status \notin Silent \cup {"active"}

RowsCounted ==
  /\ count["emitted"] = emitted
  /\ Len(main) = emitted + Cardinality(gone) + Cardinality(halves)
  /\ gone = {batch[i].id : i \in {i \in 1 .. cursor : batch[i].status = "active"}}
  /\ cfg.rejects =>
       Len(rejects) + swallowed = rejected + Cardinality({i \in 1 .. cursor : Rejectable(i)})

\* The rows among the first lines; no more are records than were read, or counted up front.
RowsTo(n) == {i \in 1 .. n : cfg.lines[i].kind # "blank"}

RowsFirst ==
  /\ ingested <= Cardinality(RowsTo(pos))
  /\ Generated => \/ scanned = Cardinality(RowsTo(Len(cfg.lines)))
                  \/ scanned = 0 /\ ingested = 0

Types == ReaderTypes /\ EmitterTypes /\ WorkflowTypes /\ FlagTypes
WorkflowInv ==
  /\ Types /\ Placed /\ Excused /\ Published
  /\ Distinct /\ QueueDistinct /\ RowsUnique /\ RowsCounted /\ RowsFirst /\ Balanced

-------------------------------------------------------------------------------
(* What the steps do to the records                                        *)

recordVars == <<ingestVars, cfg, batch, cursor, rows, emitted, rejected, queue, next, count, lost>>

\* Steps that move no record.
Calm ==
  \/ Open \/ OpenFails \/ StartReading \/ LeaveLoop \/ NoMoreBatches \/ StartEmission \/ Resume
  \/ EmissionFails \/ RequestStop \/ BreakerOpens \/ StageFails \/ DeliveryEnds
  \/ PublishOutput \/ PublishSidecar \/ PublishReport \/ PublishFails \/ Exit \/ UNCHANGED vars

\* Steps that give the batch up.
GivesUp == TimerFires \/ DomainAborts \/ StageTrips

\* A stage leaves the batch as it is, but for the fates of its records, and adds n
\* records with new identities.
Grew(n) ==
  /\ batch' \in Seq(Record) /\ Len(batch') = Len(batch) + n /\ next' = next + n
  /\ \A i \in 1 .. Len(batch) : batch'[i].id = batch[i].id
  /\ \A i \in 1 .. n : batch'[Len(batch) + i].id = next + i - 1

\* Every step is one of these.
LEMMA Steps ==
  ASSUME [Next]_vars
  PROVE  \/ Calm \/ GivesUp \/ TakeGenerated \/ Read \/ ReadFails \/ StartBatch
         \/ StageReturns \/ ClassifyReturns \/ SessionReturns \/ GenerateReturns \/ AllGenerated
         \/ Route \/ BatchEnds
BY DEF Next, Work, Stages, Faults, Calm, GivesUp

\* Steps that move no record leave all of them as they are.
LEMMA CalmFrame == Calm => UNCHANGED recordVars
<1> USE DEF recordVars, rows, totals, emitterVars, EndsWith
<1>1. Open \/ OpenFails \/ StartReading \/ LeaveLoop \/ NoMoreBatches => UNCHANGED recordVars
  BY DEF Open, OpenFails, StartReading, LeaveLoop, NoMoreBatches
<1>2. StartEmission \/ Resume \/ RequestStop \/ BreakerOpens \/ StageFails => UNCHANGED recordVars
  BY DEF StartEmission, Resume, RequestStop, BreakerOpens, StageFails
<1>3. EmissionFails \/ DeliveryEnds \/ PublishFails \/ Exit => UNCHANGED recordVars
  BY DEF EmissionFails, WriteFails, DeliveryEnds, PublishFails, Exit
<1>4. PublishOutput \/ PublishSidecar \/ PublishReport => UNCHANGED recordVars
  BY DEF PublishOutput, PublishSidecar, PublishReport, Finalize, Publish
<1>5. UNCHANGED vars => UNCHANGED recordVars
  BY DEF vars, control, ingestVars
<1>6. QED
  BY <1>1, <1>2, <1>3, <1>4, <1>5, Zenon DEF Calm

\* Dropping records changes their fates only.
LEMMA DroppedShape ==
  ASSUME batch \in Seq(Record), NEW S \in SUBSET DOMAIN batch, NEW status \in Statuses
  PROVE  /\ Dropped(S, status) \in Seq(Record) /\ Len(Dropped(S, status)) = Len(batch)
         /\ \A i \in 1 .. Len(batch) : Dropped(S, status)[i].id = batch[i].id
<1>1. \A i \in DOMAIN batch : batch[i] \in Record
  OBVIOUS
<1>2. \A i \in DOMAIN batch : [batch[i] EXCEPT !.status = status] \in Record
                                /\ [batch[i] EXCEPT !.status = status].id = batch[i].id
  BY <1>1 DEF Record
<1>3. DOMAIN batch = 1 .. Len(batch) /\ Len(batch) \in Nat
  OBVIOUS
<1>4. Dropped(S, status) \in [1 .. Len(batch) -> Record]
  BY <1>1, <1>2, <1>3 DEF Dropped
<1>5. \A i \in 1 .. Len(batch) : Dropped(S, status)[i].id = batch[i].id
  BY <1>2, <1>3 DEF Dropped
<1>6. QED
  BY <1>3, <1>4, <1>5

\* New records have the next identities.
LEMMA FreshShape ==
  ASSUME NEW n \in Nat, NEW first \in Nat
  PROVE  /\ Fresh(n, first) \in Seq(Record) /\ Len(Fresh(n, first)) = n
         /\ \A i \in 1 .. n : Fresh(n, first)[i].id = first + i - 1
<1>1. Fresh(n, first) \in [1 .. n -> Record]
  BY DEF Fresh, Record, Statuses
<1>2. \A i \in 1 .. n : Fresh(n, first)[i].id = first + i - 1
  BY DEF Fresh
<1>3. QED
  BY <1>1, <1>2

\* A batch grows by appended records with the next identities.
LEMMA AppendGrows ==
  ASSUME batch \in Seq(Record), NEW n \in Nat, next' = next + n,
         NEW b \in Seq(Record), Len(b) = Len(batch),
         \A i \in 1 .. Len(batch) : b[i].id = batch[i].id,
         NEW a \in Seq(Record), Len(a) = n, \A i \in 1 .. n : a[i].id = next + i - 1,
         batch' = b \o a
  PROVE  Grew(n)
<1>1. b \o a \in Seq(Record) /\ Len(b \o a) = Len(b) + Len(a)
  BY ONLY b \in Seq(Record), a \in Seq(Record), ConcatProperties
<1>2. ASSUME NEW i \in 1 .. Len(batch) PROVE (b \o a)[i] = b[i]
  BY ONLY b \in Seq(Record), a \in Seq(Record), Len(b) = Len(batch), i \in 1 .. Len(batch)
<1>3. ASSUME NEW i \in 1 .. n PROVE (b \o a)[Len(batch) + i] = a[i]
  BY ONLY b \in Seq(Record), a \in Seq(Record), Len(b) = Len(batch), Len(a) = n, n \in Nat,
          i \in 1 .. n
<1>4. \A i \in 1 .. Len(batch) : batch'[i].id = batch[i].id
  BY <1>2
<1>5. \A i \in 1 .. n : batch'[Len(batch) + i].id = next + i - 1
  BY <1>3
<1>6. QED
  BY <1>1, <1>4, <1>5 DEF Grew

\* What the steps of a chain have in common.
InChain ==
  /\ phase = "chain" /\ phase' = "chain" /\ chain # <<>>
  /\ UNCHANGED <<ingestVars, cfg, emitterVars, queue, stop, timer, opened, broken, fatal, code, lost>>

\* The stages that drop records add none.
LEMMA StageEffect == Types /\ StageReturns => InChain /\ Grew(0) /\ count' = count
<1> SUFFICES ASSUME Types, StageReturns PROVE InChain /\ Grew(0) /\ count' = count
  OBVIOUS
<1>1. PICK stage \in {"dedup", "quality", "annotate", "verify"}, S \in SUBSET Active(batch) :
         /\ Returns(stage) /\ batch' = Dropped(S, Fate[stage])
         /\ UNCHANGED <<ingestVars, cfg, emitterVars, phase, queue, next, count, stop, timer, opened,
                        broken, fatal, code, lost>>
  BY DEF StageReturns
<1>2. Fate[stage] \in Statuses /\ S \in SUBSET DOMAIN batch
  BY DEF Fate, Statuses, Deducted, Active
<1>3. batch \in Seq(Record) /\ next \in Nat
  BY DEF Types, EmitterTypes, WorkflowTypes
<1>4. Grew(0)
  BY <1>1, <1>2, <1>3, DroppedShape DEF Grew
<1>5. QED
  BY <1>1, <1>4 DEF InChain, Returns

\* Classes: copies are appended and counted.
LEMMA ClassifyEffect ==
  Types /\ ClassifyReturns =>
    \E n \in Nat : InChain /\ Grew(n) /\ count' = [count EXCEPT !["fanout"] = @ + n]
<1> SUFFICES ASSUME Types, ClassifyReturns
             PROVE  \E n \in Nat :
                      InChain /\ Grew(n) /\ count' = [count EXCEPT !["fanout"] = @ + n]
  OBVIOUS
<1>1. PICK S \in SUBSET Active(batch), n \in 0 .. cfg.siblings :
         /\ Returns("classify") /\ n <= Cardinality(Active(batch) \ S)
         /\ batch' = Dropped(S, "failed") \o Fresh(n, next)
         /\ next' = next + n /\ count' = [count EXCEPT !["fanout"] = @ + n]
         /\ UNCHANGED <<ingestVars, cfg, emitterVars, phase, queue, stop, timer, opened, broken, fatal,
                        code, lost>>
  BY DEF ClassifyReturns
<1>2. n \in Nat
  BY ConfigsAssumption DEF Types, ReaderTypes
<1>3. batch \in Seq(Record) /\ next \in Nat
  BY DEF Types, EmitterTypes, WorkflowTypes
<1>4. "failed" \in Statuses /\ S \in SUBSET DOMAIN batch
  BY DEF Statuses, Active
<1>5. /\ Dropped(S, "failed") \in Seq(Record) /\ Len(Dropped(S, "failed")) = Len(batch)
      /\ \A i \in 1 .. Len(batch) : Dropped(S, "failed")[i].id = batch[i].id
  BY <1>3, <1>4, DroppedShape
<1>6. /\ Fresh(n, next) \in Seq(Record) /\ Len(Fresh(n, next)) = n
      /\ \A i \in 1 .. n : Fresh(n, next)[i].id = next + i - 1
  BY <1>2, <1>3, FreshShape
<1>7. Grew(n)
  BY <1>1, <1>2, <1>3, <1>5, <1>6, AppendGrows
<1>8. InChain
  BY <1>1 DEF InChain, Returns
<1>9. QED
  BY <1>1, <1>2, <1>7, <1>8

\* Sessions: the sequences and their siblings are appended and counted.
LEMMA SessionEffect ==
  Types /\ SessionReturns =>
    \E n, s \in Nat :
      InChain /\ Grew(n + s) /\ count' = [count EXCEPT !["episodes"] = @ + n, !["fanout"] = @ + s]
<1> SUFFICES ASSUME Types, SessionReturns
             PROVE  \E n, s \in Nat :
                      /\ InChain /\ Grew(n + s)
                      /\ count' = [count EXCEPT !["episodes"] = @ + n, !["fanout"] = @ + s]
  OBVIOUS
<1>1. PICK absorbed \in 0 .. Len(batch), n \in 0 .. Len(batch), s \in 0 .. cfg.siblings :
         \E fates \in [1 .. n + s -> SequenceFates] :
           /\ Returns("session") /\ n <= absorbed /\ (n = 0 => absorbed = 0) /\ (s > 0 => n > 0)
           /\ \A i, j \in 1 .. n + s : i < j /\ fates[j] = "stitched" => fates[i] = "stitched"
           /\ \E i \in 1 .. n : n > 0 => fates[i] # "stitched"
           /\ batch' = [i \in DOMAIN batch |->
                          [batch[i] EXCEPT !.status = IF i <= absorbed THEN "absorbed"
                                                      ELSE "dropped_noise"]]
                       \o [i \in 1 .. n + s |-> [id |-> next + i - 1, status |-> fates[i]]]
           /\ next' = next + n + s
           /\ count' = [count EXCEPT !["episodes"] = @ + n, !["fanout"] = @ + s]
           /\ UNCHANGED <<ingestVars, cfg, emitterVars, phase, queue, stop, timer, opened, broken,
                          fatal, code, lost>>
  BY ZenonT(30) DEF SessionReturns
<1>2. PICK fates \in [1 .. n + s -> SequenceFates] :
         batch' = [i \in DOMAIN batch |->
                     [batch[i] EXCEPT !.status = IF i <= absorbed THEN "absorbed"
                                                 ELSE "dropped_noise"]]
                  \o [i \in 1 .. n + s |-> [id |-> next + i - 1, status |-> fates[i]]]
  BY <1>1
<1>3. n \in Nat /\ s \in Nat
  BY ConfigsAssumption DEF Types, ReaderTypes
<1>4. batch \in Seq(Record) /\ next \in Nat
  BY DEF Types, EmitterTypes, WorkflowTypes
<1> DEFINE b == [i \in DOMAIN batch |->
                   [batch[i] EXCEPT !.status = IF i <= absorbed THEN "absorbed" ELSE "dropped_noise"]]
           a == [i \in 1 .. n + s |-> [id |-> next + i - 1, status |-> fates[i]]]
<1>5. b \in Seq(Record) /\ Len(b) = Len(batch) /\ \A i \in 1 .. Len(batch) : b[i].id = batch[i].id
  <2>1. DOMAIN batch = 1 .. Len(batch) /\ Len(batch) \in Nat
              /\ \A i \in DOMAIN batch : batch[i] \in Record
    BY <1>4
  <2>2. \A i \in DOMAIN batch :
          /\ [batch[i] EXCEPT !.status = "absorbed"] \in Record
          /\ [batch[i] EXCEPT !.status = "absorbed"].id = batch[i].id
          /\ [batch[i] EXCEPT !.status = "dropped_noise"] \in Record
          /\ [batch[i] EXCEPT !.status = "dropped_noise"].id = batch[i].id
    BY <2>1 DEF Record, Statuses, Deducted
  <2>3. \A i \in DOMAIN batch : b[i] \in Record /\ b[i].id = batch[i].id
    BY <2>2
  <2>4. b \in [1 .. Len(batch) -> Record]
    BY <2>1, <2>3
  <2> HIDE DEF b
  <2>5. QED
    BY <2>1, <2>3, <2>4
<1>6. a \in Seq(Record) /\ Len(a) = n + s /\ \A i \in 1 .. n + s : a[i].id = next + i - 1
  <2>1. \A i \in 1 .. n + s : fates[i] \in Statuses
    BY DEF SequenceFates, Statuses, Deducted
  <2>2. a \in [1 .. n + s -> Record]
    BY <1>3, <1>4, <2>1 DEF Record
  <2>3. \A i \in 1 .. n + s : a[i].id = next + i - 1
    OBVIOUS
  <2> HIDE DEF a
  <2>4. QED
    BY <1>3, <2>2, <2>3
<1>7. batch' = b \o a
  BY <1>2
<1> HIDE DEF b, a
<1>8. Grew(n + s)
  <2>1. next' = next + (n + s) /\ n + s \in Nat
    BY <1>1, <1>3, <1>4
  <2>2. QED
    BY <1>4, <1>5, <1>6, <1>7, <2>1, AppendGrows
<1>9. InChain
  BY <1>1 DEF InChain, Returns
<1>10. QED
  BY <1>1, <1>3, <1>8, <1>9

\* The chunks of new records: one place for each new identity.
LEMMA ChunkIds ==
  ASSUME cfg \in Configs, NEW n \in Nat, NEW first \in Nat,
         NEW chunks, chunks = Chunks(Fresh(n, first))
  PROVE  /\ chunks \in Seq(Seq(Record))
         /\ \A k \in DOMAIN chunks : \A i \in DOMAIN chunks[k] :
              chunks[k][i].id \in first .. first + n - 1
         /\ Apart(chunks)
<1>1. PICK records : records = Fresh(n, first)
  OBVIOUS
<1>2. PICK size : size = cfg.batch_size
  OBVIOUS
<1>3. /\ records \in Seq(Record) /\ Len(records) = n
      /\ \A i \in 1 .. n : records[i].id = first + i - 1
  BY <1>1, FreshShape
<1>4. chunks = Chunks(records)
  BY <1>1
<1>5. chunks \in Seq(Seq(Record)) /\ size \in Nat \ {0}
  BY <1>2, <1>3, <1>4, ChunksShape
<1>6. \A k \in DOMAIN chunks : \A i \in DOMAIN chunks[k] :
        /\ i \in 1 .. size /\ (k - 1) * size + i \in 1 .. Len(records)
        /\ chunks[k][i] = records[(k - 1) * size + i]
  BY <1>2, <1>3, <1>4, ChunksShape
<1>7. ASSUME NEW k \in DOMAIN chunks, NEW i \in DOMAIN chunks[k]
      PROVE  /\ i \in 1 .. size /\ (k - 1) * size + i \in 1 .. n
             /\ chunks[k][i].id = first + ((k - 1) * size + i) - 1
             /\ chunks[k][i].id \in first .. first + n - 1
  <2>1. PICK p : p = (k - 1) * size + i
    OBVIOUS
  <2>2. i \in 1 .. size /\ p \in 1 .. n /\ chunks[k][i] = records[p]
    BY <1>3, <1>6, <2>1
  <2>3. chunks[k][i].id = first + p - 1
    BY <1>3, <2>2
  <2>4. QED
    BY <2>1, <2>2, <2>3
<1>8. \A k \in DOMAIN chunks : k \in Nat \ {0}
  BY <1>5
<1>9. ASSUME NEW k \in DOMAIN chunks, NEW l \in DOMAIN chunks,
             NEW i \in DOMAIN chunks[k], NEW j \in DOMAIN chunks[l], k < l
      PROVE  chunks[k][i].id # chunks[l][j].id
  <2>1. k - 1 \in Nat /\ l - 1 \in Nat /\ k - 1 < l - 1
    BY <1>8, <1>9
  <2>2. (k - 1) * size + size <= (l - 1) * size /\ (k - 1) * size \in Nat
    BY <1>5, <2>1, ChunkOrder
  <2>3. (l - 1) * size \in Nat
    <3>1. size \in Nat
      BY <1>5
    <3>2. QED
      BY ONLY <2>1, <3>1
  <2>4. PICK a \in Nat, b \in Nat : a = (k - 1) * size /\ b = (l - 1) * size
    BY <2>2, <2>3
  <2>5. a + size <= b /\ i \in 1 .. size /\ j \in 1 .. size
    BY <1>7, <2>2, <2>4
  <2>6. chunks[k][i].id = first + (a + i) - 1 /\ chunks[l][j].id = first + (b + j) - 1
    BY <1>7, <2>4
  <2>7. QED
    BY <1>5, <2>5, <2>6
<1>10. ASSUME NEW k \in DOMAIN chunks, NEW i \in DOMAIN chunks[k], NEW j \in DOMAIN chunks[k],
              chunks[k][i].id = chunks[k][j].id
       PROVE  i = j
  <2>1. (k - 1) * size \in Int
    BY <1>5, <1>8
  <2>2. PICK a \in Int : a = (k - 1) * size
    BY <2>1
  <2>3. first + (a + i) - 1 = first + (a + j) - 1 /\ i \in Int /\ j \in Int
    BY <1>7, <1>10, <2>2
  <2>4. QED
    BY <2>3
<1>11. ASSUME NEW k \in DOMAIN chunks, NEW l \in DOMAIN chunks,
              NEW i \in DOMAIN chunks[k], NEW j \in DOMAIN chunks[l],
              chunks[k][i].id = chunks[l][j].id
       PROVE  k = l /\ i = j
  <2>1. k < l \/ l < k \/ k = l
    BY <1>8
  <2>2. k = l
    BY <1>9, <1>11, <2>1
  <2>3. QED
    BY <1>10, <1>11, <2>2
<1>12. QED
  BY <1>5, <1>7, <1>11 DEF Apart

\* What a generator appends to the queue.
QueueGrew(n) ==
  /\ queue' \in Seq(Seq(Record)) /\ next' = next + n
  /\ First(queue', Len(queue')) = First(queue, Len(queue)) + n
  /\ \A k \in DOMAIN queue : k \in DOMAIN queue' /\ queue'[k] = queue[k]
  /\ \A k \in DOMAIN queue' \ DOMAIN queue : \A i \in DOMAIN queue'[k] :
       queue'[k][i].id \in next .. next' - 1
  /\ \A k, l \in DOMAIN queue' \ DOMAIN queue :
       \A i \in DOMAIN queue'[k], j \in DOMAIN queue'[l] :
         queue'[k][i].id = queue'[l][j].id => k = l /\ i = j

\* New records are queued in chunks, behind those that wait.
LEMMA EnqueuedGrows ==
  ASSUME Types, NEW n \in Nat, Enqueued(n)
  PROVE  QueueGrew(n) /\ count' = [count EXCEPT !["generated"] = @ + n]
<1>1. cfg \in Configs /\ queue \in Seq(Seq(Record)) /\ next \in Nat
  BY DEF Types, ReaderTypes, WorkflowTypes
<1>2. PICK records : records = Fresh(n, next)
  OBVIOUS
<1>3. PICK chunks : chunks = Chunks(records)
  OBVIOUS
<1>4. records \in Seq(Record) /\ Len(records) = n
  BY <1>1, <1>2, FreshShape
<1>5. /\ chunks \in Seq(Seq(Record))
      /\ \A k \in DOMAIN chunks : \A i \in DOMAIN chunks[k] :
           chunks[k][i].id \in next .. next + n - 1
      /\ Apart(chunks)
  <2>1. chunks = Chunks(Fresh(n, next))
    BY <1>2, <1>3
  <2>2. chunks \in Seq(Seq(Record))
    BY <1>1, <2>1, ChunkIds
  <2>3. \A k \in DOMAIN chunks : \A i \in DOMAIN chunks[k] :
          chunks[k][i].id \in next .. next + n - 1
    BY <1>1, <2>1, ChunkIds
  <2>4. Apart(chunks)
    BY <1>1, <2>1, ChunkIds
  <2>5. QED
    BY <2>2, <2>3, <2>4
<1>6. /\ queue' = queue \o chunks /\ next' = next + n
      /\ count' = [count EXCEPT !["generated"] = @ + n]
  BY <1>2, <1>3 DEF Enqueued
<1>7. /\ queue' \in Seq(Seq(Record))
      /\ First(queue', Len(queue')) = First(queue, Len(queue)) + n
  <2>1. /\ queue \o Chunks(records) \in Seq(Seq(Record))
        /\ First(queue \o Chunks(records), Len(queue \o Chunks(records)))
             = First(queue, Len(queue)) + Len(records)
    BY <1>1, <1>4, QueuedAppend
  <2>2. QED
    BY <1>3, <1>4, <1>6, <2>1
<1>8. /\ Len(queue) \in Nat /\ DOMAIN queue = 1 .. Len(queue)
      /\ DOMAIN queue' = 1 .. (Len(queue) + Len(chunks)) /\ DOMAIN chunks = 1 .. Len(chunks)
      /\ Len(chunks) \in Nat
      /\ \A k \in 1 .. Len(queue) : queue'[k] = queue[k]
      /\ \A k \in 1 .. Len(chunks) : queue'[Len(queue) + k] = chunks[k]
  <2>1. \A k \in 1 .. Len(queue) + Len(chunks) :
          (queue \o chunks)[k] = IF k <= Len(queue) THEN queue[k] ELSE chunks[k - Len(queue)]
    BY <1>1, <1>5, ConcatProperties
  <2>2. QED
    BY <1>1, <1>5, <1>6, <2>1
<1>9. ASSUME NEW k \in DOMAIN queue' \ DOMAIN queue
      PROVE  k - Len(queue) \in DOMAIN chunks /\ queue'[k] = chunks[k - Len(queue)]
  <2>1. k - Len(queue) \in 1 .. Len(chunks) /\ Len(queue) + (k - Len(queue)) = k
    BY <1>8
  <2>2. QED
    BY <1>8, <2>1
<1>10. ASSUME NEW k \in DOMAIN queue' \ DOMAIN queue, NEW i \in DOMAIN queue'[k]
       PROVE  queue'[k][i].id \in next .. next' - 1
  <2>1. chunks[k - Len(queue)][i].id \in next .. next + n - 1
    BY <1>5, <1>9
  <2>2. queue'[k] = chunks[k - Len(queue)]
    BY <1>9
  <2>3. queue'[k][i].id \in next .. next + n - 1
    BY <2>1, <2>2
  <2>4. next' - 1 = next + n - 1
    BY <1>1, <1>6
  <2>5. QED
    BY <2>3, <2>4
<1>11. ASSUME NEW k \in DOMAIN queue' \ DOMAIN queue, NEW l \in DOMAIN queue' \ DOMAIN queue,
              NEW i \in DOMAIN queue'[k], NEW j \in DOMAIN queue'[l],
              queue'[k][i].id = queue'[l][j].id
       PROVE  k = l /\ i = j
  <2>1. k - Len(queue) = l - Len(queue) /\ i = j
    BY <1>5, <1>9, <1>11 DEF Apart
  <2>2. QED
    BY <1>8, <2>1
<1>12. \A k \in DOMAIN queue : k \in DOMAIN queue' /\ queue'[k] = queue[k]
  BY <1>8
<1>13. QED
  BY <1>6, <1>7, <1>10, <1>11, <1>12 DEF QueueGrew

\* One step of the reader: a line is skipped, joins the records that are read, closes the
\* session, or the frame that closed the last session opens the next one.
Skips ==
  /\ UNCHANGED <<got, ahead>> /\ pos' \in {pos, pos + 1}
  /\ \E d \in {0, 1} : Taken' = Taken + d /\ bad' = bad + d
Joins ==
  /\ got' = Append(got, pos + 1) /\ pos' = pos + 1 /\ Taken' = Taken + 1
  /\ UNCHANGED <<ahead, bad>>
Closing ==
  /\ cfg.stream /\ ahead = 0 /\ ahead' = pos + 1 /\ pos' = pos + 1 /\ Taken' = Taken + 1
  /\ UNCHANGED <<got, bad>>
Opens ==
  /\ ahead # 0 /\ got = <<>> /\ got' = <<ahead>> /\ ahead' = 0
  /\ UNCHANGED <<pos, bad>> /\ Taken' = Taken

ReaderStep ==
  /\ phase = "read" /\ pos' <= Len(cfg.lines) /\ scanned' \in Nat /\ ingested' \in Nat
  /\ Skips \/ Joins \/ Closing \/ Opens
  /\ UNCHANGED <<cfg, batch, cursor, rows, emitted, rejected, files, queue, next, count, lost, stop,
                 broken, timer, opened, fatal, undeliverable>>

\* What was taken, and what is to be read, is that of the input and of its counters.
LEMMA TakenStays ==
  ASSUME UNCHANGED <<cfg, scanned, ingested>>
  PROVE  Taken' = Taken /\ Unread' = Unread
<1>1. Generated' = Generated
  BY DEF Generated
<1>2. QED
  BY <1>1 DEF Taken, Unread

\* A record is one more that was taken.
LEMMA OneTaken ==
  ASSUME Types, ReadFrame, UNCHANGED cfg
  PROVE  Taken' = Taken + 1 /\ scanned' \in Nat /\ ingested' \in Nat
<1>1. Generated' = Generated
  BY DEF Generated
<1>2. PICK all : all = Cardinality({i \in DOMAIN cfg.lines : cfg.lines[i].kind # "blank"})
  OBVIOUS
<1>3. all \in Nat
  <2>1. DOMAIN cfg.lines = 1 .. Len(cfg.lines) /\ Len(cfg.lines) \in Nat
    BY ConfigsAssumption DEF Types, ReaderTypes
  <2>2. IsFiniteSet(DOMAIN cfg.lines)
    BY <2>1, FS_Interval
  <2>3. {i \in DOMAIN cfg.lines : cfg.lines[i].kind # "blank"} \in SUBSET DOMAIN cfg.lines
    OBVIOUS
  <2>4. IsFiniteSet({i \in DOMAIN cfg.lines : cfg.lines[i].kind # "blank"})
    BY <2>2, <2>3, FS_Subset, Zenon
  <2>5. QED
    BY <1>2, <2>4, FS_CardinalityType
<1>4. scanned \in Nat /\ ingested \in Nat
  BY DEF Types, ReaderTypes
<1>5. scanned' = (IF Generated THEN all ELSE scanned + 1) /\ ingested' = ingested + 1
  BY <1>2 DEF ReadFrame
<1>6. QED
  BY <1>1, <1>3, <1>4, <1>5 DEF Taken

\* What is read is skipped, joins the open batch or session, or closes it.
LEMMA ReadEffect ==
  /\ Types /\ Read => ReaderStep /\ phase' = phase
  /\ Types /\ ReadFails => ReaderStep /\ phase' = "close" /\ code' = 3
<1> SUFFICES ASSUME Types PROVE /\ Read => ReaderStep /\ phase' = phase
                                /\ ReadFails => ReaderStep /\ phase' = "close" /\ code' = 3
  OBVIOUS
<1>1. /\ pos \in Nat /\ pos <= Len(cfg.lines) /\ Len(cfg.lines) \in Nat
      /\ scanned \in Nat /\ ingested \in Nat /\ bad \in Nat
  <2>1. cfg \in Configs /\ cfg.lines \in Seq(Line)
    BY ConfigsAssumption DEF Types, ReaderTypes
  <2>2. QED
    BY <2>1 DEF Types, ReaderTypes
<1>2. ~Exhausted => pos + 1 <= Len(cfg.lines)
  BY <1>1 DEF Exhausted
<1> DEFINE Moves == Skips \/ Joins \/ Closing \/ Opens
           Bounded == pos' <= Len(cfg.lines) /\ scanned' \in Nat /\ ingested' \in Nat
<1>2a. ASSUME UNCHANGED <<cfg, scanned, ingested>> PROVE Taken' = Taken /\ Taken \in Nat
  BY <1>1, <1>2a, TakenStays DEF Taken
<1>2b. ASSUME UNCHANGED <<cfg, ingested>>, ~Generated, scanned' = scanned + 1
       PROVE  Taken' = Taken + 1
  <2>1. Generated' = Generated
    BY <1>2b DEF Generated
  <2>2. QED
    BY <1>2b, <2>1 DEF Taken
<1>2c. ASSUME ReadFrame, UNCHANGED cfg
       PROVE  Taken' = Taken + 1 /\ pos' = pos + 1 /\ Bounded
  <2>1. ~Exhausted /\ pos' = pos + 1
    BY <1>2c DEF ReadFrame
  <2>2. QED
    BY <1>1, <1>2, <1>2c, <2>1, OneTaken
<1>3. SkipBlank \/ SkipBad => Moves /\ Bounded
  <2>1. SkipBlank => Skips /\ Bounded
    BY <1>1, <1>2, <1>2a DEF SkipBlank, Skips
  <2>2. SkipBad => Skips /\ Bounded
    BY <1>1, <1>2, <1>2b DEF SkipBad, Skips
  <2>3. QED
    BY <2>1, <2>2
<1>4. SkipDisordered => Moves /\ Bounded
  BY <1>1, <1>2c DEF SkipDisordered, Skips
<1>5. InputFails => Moves /\ Bounded
  <2>1. CASE /\ ~Exhausted /\ ~Generated /\ Reading.kind = "bad" /\ cfg.on_bad = "fail"
             /\ pos' = pos + 1 /\ scanned' = scanned + 1 /\ bad' = bad + 1
             /\ UNCHANGED <<ingested, cfg, ahead, got, closed, highest>>
    BY <1>1, <1>2, <1>2b, <2>1 DEF Skips
  <2>2. CASE UNCHANGED <<pos, scanned, ingested, bad, cfg, ahead, got, closed, highest>>
    BY <1>1, <1>2a, <2>2 DEF Skips
  <2>3. CASE ReadFrame /\ bad' = bad + 1 /\ UNCHANGED <<cfg, ahead, got, closed, highest>>
    BY <1>1, <1>2c, <2>3 DEF Skips
  <2>4. QED
    BY <2>1, <2>2, <2>3 DEF InputFails
<1>6. ReadRecord \/ JoinFrame => Moves /\ Bounded
  BY <1>1, <1>2c DEF ReadRecord, JoinFrame, Joins
<1>7. cfg.stream /\ ahead = 0 /\ CloseBefore => Moves /\ Bounded
  BY <1>1, <1>2c DEF CloseBefore, Closing
<1>8. TakeAhead => Moves /\ Bounded
  BY <1>1, <1>2a DEF TakeAhead, Opens
<1>9. Read => Moves /\ Bounded
  BY <1>3, <1>4, <1>6, <1>7, <1>8 DEF Read
<1>10. ReadFails => Moves /\ Bounded
  BY <1>5 DEF ReadFails
<1>11. Read => /\ phase = "read" /\ phase' = phase
               /\ UNCHANGED <<cfg, batch, cursor, rows, emitted, rejected, files, queue, next, count,
                              lost, stop, broken, timer, opened, fatal, undeliverable>>
  <2>1. Read => UNCHANGED cfg /\ UNCHANGED <<batch, emitterVars, control>> /\ phase = "read"
    BY DEF Read, SkipBlank, SkipBad, SkipDisordered, ReadRecord, JoinFrame, CloseBefore, TakeAhead
  <2>2. QED
    BY <2>1 DEF emitterVars, totals, control
<1>12. ReadFails => /\ phase = "read" /\ phase' = "close" /\ code' = 3
                    /\ UNCHANGED <<cfg, batch, cursor, rows, emitted, rejected, files, queue, next,
                                   count, lost, stop, broken, timer, opened, fatal, undeliverable>>
  BY DEF ReadFails, InputFails, EndsWith, emitterVars, totals
<1>13. QED
  BY <1>9, <1>10, <1>11, <1>12, Zenon DEF ReaderStep

\* Every step keeps the types of the reader.
LEMMA ReaderTypesStep == Types /\ [Next]_vars => ReaderTypes'
<1> SUFFICES ASSUME Types, [Next]_vars PROVE ReaderTypes'
  OBVIOUS
<1>1. ReaderTypes /\ cfg.lines \in Seq(Line) /\ Len(cfg.lines) \in Nat
  BY ConfigsAssumption DEF Types, ReaderTypes
<1>2. CASE UNCHANGED <<cfg, pos, ahead, got, scanned, ingested, bad>>
  BY <1>1, <1>2 DEF ReaderTypes
<1>3. CASE Read \/ ReadFails
  <2>1. ReaderStep
    BY <1>3, ReadEffect
  <2>2. cfg' = cfg /\ pos' \in 0 .. Len(cfg.lines) /\ scanned' \in Nat /\ ingested' \in Nat
    BY <1>1, <2>1 DEF ReaderStep, Skips, Joins, Closing, Opens, ReaderTypes
  <2>3. CASE Skips
    BY <1>1, <2>2, <2>3 DEF Skips, ReaderTypes
  <2>4. CASE Joins
    <3>1. got' \in Seq(Nat)
      BY <1>1, <2>4 DEF Joins, ReaderTypes
    <3>2. ASSUME NEW i \in DOMAIN got' PROVE got'[i] \in 1 .. pos'
      <4>1. CASE i \in DOMAIN got
        BY <1>1, <2>4, <4>1 DEF Joins, ReaderTypes
      <4>2. CASE i \notin DOMAIN got
        BY <1>1, <2>4, <3>2, <4>2 DEF Joins, ReaderTypes
      <4>3. QED
        BY <4>1, <4>2
    <3>3. ahead' \in 0 .. pos' /\ bad' \in Nat
      BY <1>1, <2>4 DEF Joins, ReaderTypes
    <3>4. QED
      BY <1>1, <2>2, <3>1, <3>2, <3>3 DEF ReaderTypes
  <2>5. CASE Closing
    BY <1>1, <2>2, <2>5 DEF Closing, ReaderTypes
  <2>6. CASE Opens
    BY <1>1, <2>2, <2>6 DEF Opens, ReaderTypes
  <2>7. QED
    BY <2>1, <2>3, <2>4, <2>5, <2>6 DEF ReaderStep
<1>4. CASE StartBatch
  <2>1. UNCHANGED <<cfg, pos, ahead, scanned, ingested, bad>> /\ got' = <<>>
    BY <1>4 DEF StartBatch
  <2>2. QED
    BY <1>1, <2>1 DEF ReaderTypes
<1>5. Calm \/ GivesUp \/ TakeGenerated => UNCHANGED <<cfg, pos, ahead, got, scanned, ingested, bad>>
  <2>1. Calm => UNCHANGED <<cfg, pos, ahead, got, scanned, ingested, bad>>
    BY CalmFrame DEF recordVars, ingestVars
  <2>2. GivesUp => UNCHANGED <<cfg, pos, ahead, got, scanned, ingested, bad>>
    BY DEF GivesUp, TimerFires, DomainAborts, StageTrips, ingestVars
  <2>3. TakeGenerated => UNCHANGED <<cfg, pos, ahead, got, scanned, ingested, bad>>
    BY DEF TakeGenerated, ingestVars
  <2>4. QED
    BY <2>1, <2>2, <2>3
<1>6. StageReturns \/ ClassifyReturns \/ SessionReturns
        => UNCHANGED <<cfg, pos, ahead, got, scanned, ingested, bad>>
  BY StageEffect, ClassifyEffect, SessionEffect DEF InChain, ingestVars
<1>7. GenerateReturns \/ AllGenerated \/ Route \/ BatchEnds
        => UNCHANGED <<cfg, pos, ahead, got, scanned, ingested, bad>>
  BY DEF GenerateReturns, AllGenerated, Route, BatchEnds, ingestVars
<1>8. QED
  BY <1>2, <1>3, <1>4, <1>5, <1>6, <1>7, Steps

-------------------------------------------------------------------------------
(* Routing a record                                                        *)

\* An appended row is one more row.
LEMMA RowAppended ==
  ASSUME NEW S, NEW s \in Seq(S), NEW e \in S
  PROVE  /\ Append(s, e) \in Seq(S) /\ Len(Append(s, e)) = Len(s) + 1
         /\ ToSet(Append(s, e)) = ToSet(s) \cup {e}
         /\ DOMAIN Append(s, e) = DOMAIN s \cup {Len(s) + 1}
         /\ \A i \in DOMAIN s : Append(s, e)[i] = s[i]
         /\ Append(s, e)[Len(s) + 1] = e /\ Len(s) + 1 \notin DOMAIN s
         /\ IsInjective(s) /\ e \notin ToSet(s) => IsInjective(Append(s, e))
<1> DEFINE a == Append(s, e)
<1>1. /\ a \in Seq(S) /\ Len(a) = Len(s) + 1 /\ Len(s) \in Nat
      /\ DOMAIN s = 1 .. Len(s) /\ DOMAIN a = 1 .. (Len(s) + 1)
      /\ \A i \in DOMAIN s : a[i] = s[i]
      /\ a[Len(s) + 1] = e
  OBVIOUS
<1> HIDE DEF a
<1>2. DOMAIN a = DOMAIN s \cup {Len(s) + 1} /\ Len(s) + 1 \notin DOMAIN s
  BY <1>1
<1>3. ToSet(a) = ToSet(s) \cup {e}
  BY <1>1, <1>2 DEF ToSet
<1>4. IsInjective(s) /\ e \notin ToSet(s) => IsInjective(a)
  BY <1>1, <1>2 DEF IsInjective, ToSet
<1>5. QED
  BY <1>1, <1>2, <1>3, <1>4 DEF a

\* The same for identities.
LEMMA IdAppended == \A s \in Seq(Nat), e \in Nat : ToSet(Append(s, e)) = ToSet(s) \cup {e}
BY RowAppended

\* The rows of a file are finitely many.
LEMMA SeqRowsFinite == ASSUME NEW S, NEW s \in Seq(S) PROVE IsFiniteSet(ToSet(s))
<1>1. DOMAIN s = 1 .. Len(s) /\ Len(s) \in Nat
  OBVIOUS
<1>2. IsFiniteSet(DOMAIN s)
  BY <1>1, FS_Interval
<1>3. ToSet(s) = {s[i] : i \in DOMAIN s}
  BY DEF ToSet
<1> DEFINE f == [i \in DOMAIN s |-> s[i]]
<1>4. f \in Surjection(DOMAIN s, ToSet(s))
  BY <1>3 DEF Surjection
<1>5. QED
  BY <1>2, <1>4, FS_Surjection

\* The ways of a record: no row; a reject, whose row may be given up; an emitted row; a row
\* that counts as failed.
RejectRow ==
  \/ rejects' = (IF cfg.rejects THEN Append(rejects, Item.id) ELSE rejects) /\ swallowed' = swallowed
  \/ cfg.rejects /\ rejects' = rejects /\ swallowed' = swallowed + 1

WaySilent ==
  /\ batch'[cursor + 1].status \in Silent
  /\ UNCHANGED <<main, side, rejects, swallowed, gone, halves>>
WayReject ==
  /\ batch'[cursor + 1].status \notin Silent \cup {"active"} /\ RejectRow
  /\ UNCHANGED <<main, side, gone, halves>>
WayMain ==
  /\ batch'[cursor + 1].status = "active"
  /\ main' = Append(main, Item.id) /\ gone' = gone \cup {Item.id}
  /\ side' = IF cfg.sidecar THEN Append(side, Item.id) ELSE side
  /\ UNCHANGED <<rejects, swallowed, halves>>
WayHalf ==
  /\ batch'[cursor + 1].status \notin Silent \cup {"active"} /\ RejectRow
  /\ main' = Append(main, Item.id) /\ halves' = halves \cup {Item.id}
  /\ UNCHANGED <<side, gone>>

RouteStep ==
  /\ phase = "emit" /\ cursor < Len(batch) /\ cursor' = cursor + 1
  /\ batch' \in Seq(Record) /\ Len(batch') = Len(batch)
  /\ \A i \in 1 .. Len(batch) : batch'[i].id = batch[i].id
  /\ \A i \in 1 .. cursor : batch'[i] = batch[i]
  /\ cursor + 1 \in DOMAIN batch /\ Item = batch[cursor + 1] /\ Item.id \in Nat
  /\ WaySilent \/ WayReject \/ WayMain \/ WayHalf
  /\ UNCHANGED <<ingestVars, cfg, control, totals>>

\* A record goes one of four ways, and the others stay as they are.
LEMMA RouteEffect == Types /\ Route => RouteStep
<1> SUFFICES ASSUME Types, Route PROVE RouteStep
  OBVIOUS
<1>1. batch \in Seq(Record) /\ cursor \in 0 .. Len(batch) /\ Len(batch) \in Nat
  BY DEF Types, EmitterTypes
<1>2. phase = "emit" /\ ~Routed /\ cursor' = cursor + 1
            /\ UNCHANGED <<ingestVars, cfg, control, totals>>
  BY DEF Route, RouteSilently, RouteReject, RouteMain, Divert, Isolated, DivertHalfWritten, Next1
<1>3. /\ cursor < Len(batch) /\ cursor + 1 \in DOMAIN batch /\ Item = batch[cursor + 1]
      /\ Item \in Record /\ Item.id \in Nat /\ DOMAIN batch = 1 .. Len(batch)
  <2>1. cursor < Len(batch) /\ cursor + 1 \in 1 .. Len(batch) /\ DOMAIN batch = 1 .. Len(batch)
    BY <1>1, <1>2 DEF Routed
  <2>2. Item = batch[cursor + 1]
    BY DEF Item
  <2>3. batch[cursor + 1] \in Record
    BY <1>1, <2>1
  <2>4. QED
    BY <2>1, <2>2, <2>3 DEF Record
<1>4. Fail => /\ batch' \in Seq(Record) /\ Len(batch') = Len(batch)
              /\ \A i \in 1 .. Len(batch) : batch'[i].id = batch[i].id
              /\ \A i \in 1 .. cursor : batch'[i] = batch[i]
              /\ batch'[cursor + 1].status = "failed"
  <2> SUFFICES ASSUME Fail
               PROVE  /\ batch' \in Seq(Record) /\ Len(batch') = Len(batch)
                      /\ \A i \in 1 .. Len(batch) : batch'[i].id = batch[i].id
                      /\ \A i \in 1 .. cursor : batch'[i] = batch[i]
                      /\ batch'[cursor + 1].status = "failed"
    OBVIOUS
  <2>1. PICK r : r = [batch[cursor + 1] EXCEPT !.status = "failed"]
    OBVIOUS
  <2>2. r \in Record /\ r.id = batch[cursor + 1].id /\ r.status = "failed"
    BY <1>3, <2>1 DEF Record, Statuses
  <2>3. batch' = [batch EXCEPT ![cursor + 1] = r]
    BY <2>1 DEF Fail
  <2>4. /\ batch' \in Seq(Record) /\ Len(batch') = Len(batch)
        /\ \A i \in 1 .. Len(batch) : i # cursor + 1 => batch'[i] = batch[i]
        /\ batch'[cursor + 1] = r
    BY <1>1, <1>3, <2>2, <2>3
  <2>5. \A i \in 1 .. cursor : i \in 1 .. Len(batch) /\ i # cursor + 1
    BY <1>1
  <2>6. QED
    BY <2>2, <2>4, <2>5
<1>5. "failed" \notin Silent \cup {"active"}
  BY DEF Silent
<1>6. CASE RouteSilently
  <2>1. batch' = batch /\ WaySilent
    BY <1>3, <1>6 DEF RouteSilently, WaySilent, rows
  <2>2. QED
    BY <1>1, <1>2, <1>3, <2>1 DEF RouteStep
<1>7. CASE RouteReject(cfg.rejects)
  <2>1. batch' = batch /\ WayReject
    BY <1>3, <1>7 DEF RouteReject, WayReject, Reject, RejectRow
  <2>2. QED
    BY <1>1, <1>2, <1>3, <2>1 DEF RouteStep
<1>8. CASE RouteMain(cfg.sidecar)
  <2>1. batch' = batch /\ WayMain
    BY <1>3, <1>8 DEF RouteMain, WayMain
  <2>2. QED
    BY <1>1, <1>2, <1>3, <2>1 DEF RouteStep
<1>9. CASE Divert(cfg.rejects)
  <2>1. Fail /\ WayReject
    BY <1>4, <1>5, <1>9 DEF Divert, WayReject, RejectIsolated, Reject, RejectRow
  <2>2. QED
    BY <1>1, <1>2, <1>3, <1>4, <2>1 DEF RouteStep
<1>10. CASE DivertHalfWritten(cfg.sidecar, cfg.rejects)
  <2>1. Fail /\ WayHalf
    BY <1>4, <1>5, <1>10 DEF DivertHalfWritten, WayHalf, RejectIsolated, Reject,
                          RejectRow
  <2>2. QED
    BY <1>1, <1>2, <1>3, <1>4, <2>1 DEF RouteStep
<1>11. QED
  BY <1>6, <1>7, <1>8, <1>9, <1>10 DEF Route

\* What the other steps do: a batch is given up, taken from the queue, or read; it ends.
GaveUp ==
  /\ phase \in {"chain", "generate"} /\ phase' \in {"settle", "finalize"}
  /\ phase' = "finalize" => broken'
  /\ batch' = <<>> /\ lost' = lost + Len(batch)
  /\ UNCHANGED <<ingestVars, cfg, emitterVars, queue, next, count, stop>>

TookGenerated ==
  /\ phase = "take" /\ phase' = "chain" /\ queue # <<>>
  /\ batch' = Head(queue) /\ queue' = Tail(queue)
  /\ UNCHANGED <<ingestVars, cfg, emitterVars, next, count, lost>>

StartedBatch ==
  /\ phase = "read" /\ phase' = "chain"
  /\ batch' \in Seq(Record) /\ Len(batch') = Len(got)
  /\ \A i \in 1 .. Len(got) : batch'[i].id = got[i]
  /\ got' = <<>>
  /\ UNCHANGED <<cfg, pos, ahead, scanned, ingested, bad, emitterVars, queue, next, count, lost>>

\* The steps that give a batch up or begin one do just that.
LEMMA OtherEffects ==
  ASSUME Types
  PROVE  /\ GivesUp => GaveUp
         /\ TakeGenerated => TookGenerated
         /\ StartBatch => StartedBatch
<1>1. GivesUp => GaveUp
  BY DEF GivesUp, TimerFires, DomainAborts, StageTrips, Waiting, Abandon, GaveUp
<1>2. TakeGenerated => TookGenerated
  BY DEF TakeGenerated, Start, TookGenerated
<1>3. ASSUME StartBatch PROVE StartedBatch
  <2>1. got \in Seq(Nat) /\ DOMAIN got = 1 .. Len(got) /\ Len(got) \in Nat
    BY DEF Types, ReaderTypes
  <2>2. batch' = [i \in DOMAIN got |-> [id |-> got[i], status |-> "active"]]
    BY <1>3 DEF StartBatch, Start
  <2>3. batch' \in [1 .. Len(got) -> Record]
    BY <2>1, <2>2 DEF Record, Statuses
  <2>4. \A i \in 1 .. Len(got) : batch'[i].id = got[i]
    BY <2>1, <2>2
  <2>5. batch' \in Seq(Record) /\ Len(batch') = Len(got)
    BY <2>1, <2>3
  <2>6. QED
    BY <1>3, <2>4, <2>5 DEF StartBatch, Start, StartedBatch
<1>4. QED
  BY <1>1, <1>2, <1>3

\* Every step keeps the types of the emitter.
LEMMA EmitterTypesStep == Types /\ Placed /\ [Next]_vars => EmitterTypes'
<1> SUFFICES ASSUME Types, Placed, [Next]_vars PROVE EmitterTypes'
  OBVIOUS
<1>1. EmitterTypes
  BY DEF Types
<1> DEFINE Rows == <<main, side, rejects, swallowed, gone, halves, emitted, rejected>>
           Kept == UNCHANGED Rows /\ batch' \in Seq(Record) /\ cursor' \in 0 .. Len(batch')
<1>2. CASE Kept
  BY <1>1, <1>2 DEF EmitterTypes
<1>3. Calm \/ ReadFails \/ Read => Kept
  <2>1. Calm => Kept
    BY <1>1, CalmFrame DEF recordVars, rows, EmitterTypes
  <2>2. Read \/ ReadFails => Kept
    BY <1>1, ReadEffect DEF ReaderStep, rows, EmitterTypes
  <2>3. QED
    BY <2>1, <2>2
<1>4. StageReturns \/ ClassifyReturns \/ SessionReturns => Kept
  <2>1. ASSUME NEW n \in Nat, InChain, Grew(n) PROVE Kept
    BY <1>1, <2>1 DEF InChain, Grew, emitterVars, rows, totals, EmitterTypes
  <2>2. \A n, s \in Nat : n + s \in Nat
    OBVIOUS
  <2>3. QED
    BY <2>1, <2>2, StageEffect, ClassifyEffect, SessionEffect
<1>5. GenerateReturns \/ AllGenerated => Kept
  BY <1>1 DEF GenerateReturns, AllGenerated, emitterVars, rows, totals, EmitterTypes
<1>6. ASSUME cursor = 0, UNCHANGED emitterVars, batch' \in Seq(Record) PROVE Kept
  BY <1>6 DEF emitterVars, rows, totals
<1>7. GivesUp => Kept
  <2>1. GivesUp => cursor = 0 /\ UNCHANGED emitterVars /\ batch' = <<>>
    BY OtherEffects DEF GaveUp, Placed, Over
  <2>2. QED
    BY <1>6, <2>1
<1>8. TakeGenerated => Kept
  <2>1. TakeGenerated => /\ cursor = 0 /\ UNCHANGED emitterVars
                         /\ batch' = Head(queue) /\ queue # <<>> /\ queue \in Seq(Seq(Record))
    BY OtherEffects DEF TookGenerated, Placed, Over, Types, WorkflowTypes
  <2>2. TakeGenerated => batch' \in Seq(Record)
    BY <2>1
  <2>3. QED
    BY <1>6, <2>1, <2>2
<1>9. StartBatch => Kept
  <2>1. StartBatch => cursor = 0 /\ UNCHANGED emitterVars /\ batch' \in Seq(Record)
    BY OtherEffects DEF StartedBatch, Placed, Over
  <2>2. QED
    BY <1>6, <2>1
<1>10. CASE Route
  <2>1. RouteStep
    BY <1>10, RouteEffect
  <2>2. cursor' \in 0 .. Len(batch') /\ batch' \in Seq(Record) /\ emitted' = emitted
              /\ rejected' = rejected
    BY <1>1, <2>1 DEF RouteStep, totals, EmitterTypes
  <2>3. PICK e \in Nat : e = Item.id
    BY <2>1 DEF RouteStep
  <2>4. main \in Seq(Nat) /\ side \in Seq(Nat) /\ rejects \in Seq(Nat)
    BY <1>1 DEF EmitterTypes
  <2>5. Append(main, e) \in Seq(Nat) /\ ToSet(Append(main, e)) = ToSet(main) \cup {e}
    <3>1. main \in Seq(Nat) /\ e \in Nat
      BY <2>3, <2>4
    <3>2. Append(main, e) \in Seq(Nat)
      BY <3>1
    <3>3. ToSet(Append(main, e)) = ToSet(main) \cup {e}
      BY <3>1, IdAppended, Zenon
    <3>4. QED
      BY <3>2, <3>3
  <2>6. Append(side, e) \in Seq(Nat) /\ Append(rejects, e) \in Seq(Nat)
    BY <2>4
  <2>7. /\ main' \in Seq(Nat) /\ side' \in Seq(Nat) /\ rejects' \in Seq(Nat)
        /\ gone' \subseteq ToSet(main') /\ halves' \subseteq ToSet(main')
    <3>1. WaySilent \/ WayReject \/ WayMain \/ WayHalf
      BY <2>1 DEF RouteStep
    <3>2. gone \subseteq ToSet(main) /\ halves \subseteq ToSet(main)
      BY <1>1 DEF EmitterTypes
    <3>3. CASE WaySilent \/ WayReject
      <4>1. /\ rejects' = rejects \/ rejects' = Append(rejects, e)
            /\ UNCHANGED <<main, side, gone, halves>>
        BY <2>3, <3>3, Zenon DEF WaySilent, WayReject, RejectRow
      <4>2. QED
        BY <2>4, <2>6, <3>2, <4>1
    <3>4. CASE WayMain
      BY <2>3, <2>4, <2>5, <2>6, <3>2, <3>4 DEF WayMain
    <3>5. CASE WayHalf
      <4>1. /\ rejects' = rejects \/ rejects' = Append(rejects, e)
            /\ main' = Append(main, e) /\ halves' = halves \cup {e} /\ UNCHANGED <<side, gone>>
        BY <2>3, <3>5, Zenon DEF WayHalf, RejectRow
      <4>2. QED
        BY <2>4, <2>5, <2>6, <3>2, <4>1
    <3>6. QED
      BY <3>1, <3>3, <3>4, <3>5
  <2>8. swallowed' \in Nat
    <3>1. swallowed \in Nat
      BY <1>1 DEF EmitterTypes
    <3>2. swallowed' = swallowed \/ swallowed' = swallowed + 1
      BY <2>1, Zenon DEF RouteStep, WaySilent, WayReject, WayMain, WayHalf, RejectRow
    <3>3. QED
      BY <3>1, <3>2
  <2>9. emitted \in Nat /\ rejected \in Nat
    BY <1>1 DEF EmitterTypes
  <2>10. QED
    BY <2>2, <2>7, <2>8, <2>9 DEF EmitterTypes
<1>11. CASE BatchEnds
  <2>1. PICK g : g = Cardinality(gone)
    OBVIOUS
  <2>2. PICK r : r = Cardinality({i \in DOMAIN batch : batch[i].status \notin Silent \cup {"active"}})
    OBVIOUS
  <2>3. /\ emitted' = emitted + g /\ rejected' = rejected + r
        /\ gone' = {} /\ cursor' = 0 /\ batch' = <<>>
        /\ UNCHANGED <<main, side, rejects, swallowed, halves>>
    BY <1>11, <2>1, <2>2 DEF BatchEnds, Flush
  <2>4. g \in Nat /\ r \in Nat
    <3>1. IsFiniteSet(gone)
      <4>1. IsFiniteSet(ToSet(main))
        BY <1>1, SeqRowsFinite DEF EmitterTypes
      <4>2. QED
        BY <1>1, <4>1, FS_Subset DEF EmitterTypes
    <3>2. IsFiniteSet({i \in DOMAIN batch : batch[i].status \notin Silent \cup {"active"}})
      <4>1. IsFiniteSet(DOMAIN batch)
        <5>1. DOMAIN batch = 1 .. Len(batch) /\ Len(batch) \in Nat
          BY <1>1 DEF EmitterTypes
        <5>2. QED
          BY <5>1, FS_Interval
      <4>2. QED
        BY <4>1, FS_Subset
    <3>3. QED
      BY <2>1, <2>2, <3>1, <3>2, FS_CardinalityType
  <2>5. QED
    BY <1>1, <2>3, <2>4 DEF EmitterTypes
<1>12. QED
  BY <1>2, <1>3, <1>4, <1>5, <1>7, <1>8, <1>9, <1>10, <1>11, Steps

-------------------------------------------------------------------------------
(* The types of the workflow                                               *)

\* What BatchEnds adds to the counters.
Gains(gain, g, rest) ==
  /\ \A s \in Deducted : gain[s] = Tallied(s) /\ gain[s] \in Nat
  /\ g = Cardinality(gone) /\ g \in Nat
  /\ rest = Len(batch) - g - (gain["dropped_dup"] + gain["dropped_lowq"] + gain["dropped_verify"]
                                + gain["absorbed"] + gain["dropped_noise"] + gain["stitched"])
  /\ count' \in [Counters -> Nat]
  /\ \A s \in Deducted : count'[s] = count[s] + gain[s]
  /\ count'["emitted"] = count["emitted"] + g
  /\ count'["failed"] = count["failed"] + (IF rest > 0 THEN rest ELSE 0)
  /\ \A k \in {"generated", "fanout", "episodes"} : count'[k] = count[k]

\* The tally of a batch, with its sum written out.
LEMMA TallyEffect == Types /\ BatchEnds => \E gain, g, rest : Gains(gain, g, rest)
<1> SUFFICES ASSUME Types, BatchEnds PROVE \E gain, g, rest : Gains(gain, g, rest)
  OBVIOUS
<1>1. batch \in Seq(Record) /\ count \in [Counters -> Nat] /\ gone \subseteq ToSet(main)
        /\ main \in Seq(Nat)
  BY DEF Types, EmitterTypes, WorkflowTypes
<1> DEFINE gain == [s \in Deducted |-> Tallied(s)]
           g == Cardinality(gone)
           rest == Len(batch) - g - FoldFunctionOnSet(+, 0, gain, Deducted)
<1>7. count' = [k \in Counters |->
                  count[k] + (CASE k \in Deducted -> gain[k]
                                [] k = "emitted" -> g
                                [] k = "failed" -> IF rest > 0 THEN rest ELSE 0
                                [] OTHER -> 0)]
  BY Zenon DEF BatchEnds, Tally
<1>2. \A s \in Deducted : gain[s] = Tallied(s)
  OBVIOUS
<1>3. g = Cardinality(gone)
  OBVIOUS
<1>6. rest = Len(batch) - g - FoldFunctionOnSet(+, 0, gain, Deducted)
  OBVIOUS
<1> HIDE DEF gain, g, rest
<1>4. g \in Nat
  BY <1>1, <1>3, SeqRowsFinite, FS_Subset, FS_CardinalityType
<1>5. ASSUME NEW s \in Deducted PROVE gain[s] = Tallied(s) /\ gain[s] \in Nat
  <2>1. gain[s] = Tallied(s)
    BY <1>2
  <2>2. IsFiniteSet(DOMAIN batch)
    <3>1. DOMAIN batch = 1 .. Len(batch) /\ Len(batch) \in Nat
      BY <1>1
    <3>2. QED
      BY <3>1, FS_Interval
  <2>3. IsFiniteSet({i \in DOMAIN batch : batch[i].status = s})
    BY <2>2, FS_Subset
  <2>4. Tallied(s) \in Nat
    BY <2>3, FS_CardinalityType DEF Tallied
  <2>5. QED
    BY <2>1, <2>4
<1>8. FoldFunctionOnSet(+, 0, gain, Deducted)
        = gain["dropped_dup"] + gain["dropped_lowq"] + gain["dropped_verify"]
            + gain["absorbed"] + gain["dropped_noise"] + gain["stitched"]
  <2>1. PICK h : h = [s \in Deducted \cup {"emitted", "failed"} |->
                        IF s \in Deducted THEN gain[s] ELSE 0]
    OBVIOUS
  <2>2. \A k \in Deducted \cup {"emitted", "failed"} : h[k] \in Int
    BY <1>5, <2>1
  <2>3. \A k \in Deducted : h[k] = gain[k]
    BY <2>1
  <2>4. FoldFunctionOnSet(+, 0, h, Deducted) = FoldFunctionOnSet(+, 0, gain, Deducted)
    <3>1. IsFiniteSet(Deducted)
      BY DeductedFinite
    <3>2. SumOf(h, Deducted) = SumOf(gain, Deducted)
      BY <2>3, <3>1, SumAgree
    <3>3. QED
      BY <3>2 DEF FoldFunctionOnSet, SumOf, MapThenSumSet
  <2>5. FoldFunctionOnSet(+, 0, h, Deducted)
          = h["dropped_dup"] + h["dropped_lowq"] + h["dropped_verify"]
              + h["absorbed"] + h["dropped_noise"] + h["stitched"]
    BY <2>2, CounterSums
  <2>6. QED
    BY <2>3, <2>4, <2>5 DEF Deducted
<1>9. Len(batch) \in Nat /\ rest \in Int
  <2>1. /\ gain["dropped_dup"] \in Nat /\ gain["dropped_lowq"] \in Nat
        /\ gain["dropped_verify"] \in Nat /\ gain["absorbed"] \in Nat
        /\ gain["dropped_noise"] \in Nat /\ gain["stitched"] \in Nat
    BY <1>5 DEF Deducted
  <2>2. PICK d : d = gain["dropped_dup"] + gain["dropped_lowq"] + gain["dropped_verify"]
                       + gain["absorbed"] + gain["dropped_noise"] + gain["stitched"]
    OBVIOUS
  <2>3. d \in Int /\ Len(batch) \in Nat
    BY <1>1, <2>1, <2>2
  <2>4. rest = Len(batch) - g - d
    BY <1>6, <1>8, <2>2
  <2>5. QED
    BY <1>4, <2>3, <2>4
<1>10. /\ \A s \in Deducted : s \in Counters /\ s # "emitted" /\ s # "failed"
       /\ {"emitted", "failed", "generated", "fanout", "episodes"} \subseteq Counters
       /\ \A k \in {"emitted", "failed", "generated", "fanout", "episodes"} : k \notin Deducted
  BY DEF Deducted, Counters
<1>11. \A s \in Deducted : count'[s] = count[s] + gain[s]
  BY <1>7, <1>10
<1>12. count'["emitted"] = count["emitted"] + g
  BY <1>7, <1>10
<1>13. count'["failed"] = count["failed"] + (IF rest > 0 THEN rest ELSE 0)
  BY <1>7, <1>10
<1>14. \A k \in {"generated", "fanout", "episodes"} : count'[k] = count[k]
  BY <1>1, <1>7, <1>10
<1>15. count' \in [Counters -> Nat]
  <2>1. \A k \in Counters : k \in Deducted
              \/ k \in {"emitted", "failed", "generated", "fanout", "episodes"}
    BY DEF Counters
  <2>2. ASSUME NEW k \in Counters PROVE count'[k] \in Nat
    <3>1. count[k] \in Nat /\ count["emitted"] \in Nat /\ count["failed"] \in Nat
      BY <1>1, <1>10
    <3>2. QED
      BY <1>4, <1>5, <1>9, <1>11, <1>12, <1>13, <1>14, <2>1, <3>1
  <2>3. DOMAIN count' = Counters /\ count' = [k \in Counters |-> count'[k]]
    BY <1>7
  <2>4. QED
    BY <2>2, <2>3
<1>16. Gains(gain, g, rest)
  BY <1>3, <1>4, <1>5, <1>6, <1>8, <1>11, <1>12, <1>13, <1>14, <1>15 DEF Gains
<1>17. QED
  BY <1>16

\* Every step leads to a phase.
LEMMA PhaseSteps ==
  Types /\ [Next]_vars => phase' \in Phases
<1> SUFFICES ASSUME Types, [Next]_vars PROVE phase' \in Phases
  OBVIOUS
<1>1. phase \in Phases
  BY DEF Types, WorkflowTypes
<1>2. Open \/ OpenFails \/ StartReading \/ LeaveLoop \/ NoMoreBatches \/ StartEmission \/ Resume
        => phase' \in Phases
  BY DEF Open, OpenFails, StartReading, LeaveLoop, NoMoreBatches, StartEmission, Resume, EndsWith,
         Phases
<1>3. EmissionFails \/ StageFails \/ DeliveryEnds \/ PublishFails \/ Exit => phase' \in Phases
  BY DEF EmissionFails, StageFails, DeliveryEnds, PublishFails, Exit, EndsWith, Phases
<1>4. PublishOutput \/ PublishSidecar \/ PublishReport => phase' \in Phases
  BY DEF PublishOutput, PublishSidecar, PublishReport, Finalize, Phases
<1>5. RequestStop \/ BreakerOpens \/ UNCHANGED vars => phase' \in Phases
  BY <1>1 DEF RequestStop, BreakerOpens, vars, control
<1>6. Calm => phase' \in Phases
  BY <1>2, <1>3, <1>4, <1>5 DEF Calm
<1>7. GivesUp \/ TakeGenerated \/ StartBatch => phase' \in Phases
  BY OtherEffects DEF GaveUp, TookGenerated, StartedBatch, Phases
<1>8. Read \/ ReadFails => phase' \in Phases
  BY <1>1, ReadEffect DEF Phases
<1>9. StageReturns \/ ClassifyReturns \/ SessionReturns => phase' \in Phases
  BY StageEffect, ClassifyEffect, SessionEffect DEF InChain, Phases
<1>10. GenerateReturns \/ AllGenerated \/ Route \/ BatchEnds => phase' \in Phases
  BY <1>1 DEF GenerateReturns, AllGenerated, Route, BatchEnds, control, Phases
<1>11. QED
  BY <1>6, <1>7, <1>8, <1>9, <1>10, Steps

\* What a generator does, at either of its two places.
LEMMA GenerateEffect ==
  Types /\ (GenerateReturns \/ AllGenerated) =>
    \E n \in Nat :
      /\ QueueGrew(n) /\ count' = [count EXCEPT !["generated"] = @ + n]
      /\ (phase = "chain" /\ phase' = "chain") \/ (phase = "generate" /\ phase' = "settle")
      /\ UNCHANGED <<ingestVars, cfg, batch, emitterVars, lost, stop, timer, opened, broken,
                     fatal, code>>
<1> SUFFICES ASSUME Types, GenerateReturns \/ AllGenerated
             PROVE  \E n \in Nat :
                      /\ QueueGrew(n) /\ count' = [count EXCEPT !["generated"] = @ + n]
                      /\ \/ phase = "chain" /\ phase' = "chain"
                         \/ phase = "generate" /\ phase' = "settle"
                      /\ UNCHANGED <<ingestVars, cfg, batch, emitterVars, lost, stop, timer, opened,
                                     broken, fatal, code>>
  OBVIOUS
<1>1. /\ \/ phase = "chain" /\ phase' = "chain"
         \/ phase = "generate" /\ phase' = "settle"
      /\ UNCHANGED <<ingestVars, cfg, batch, emitterVars, lost, stop, timer, opened,
                     broken, fatal, code>>
  BY DEF GenerateReturns, AllGenerated, Returns
<1>2. PICK n \in 0 .. cfg.products : Enqueued(n)
  BY DEF GenerateReturns, AllGenerated
<1>3. n \in Nat
  BY ConfigsAssumption DEF Types, ReaderTypes
<1>4. QueueGrew(n) /\ count' = [count EXCEPT !["generated"] = @ + n]
  BY <1>2, <1>3, EnqueuedGrows
<1>5. QED
  BY <1>1, <1>3, <1>4

\* Counters that are raised.
LEMMA CountsRise ==
  ASSUME NEW c \in [Counters -> Nat], NEW n \in Nat, NEW m \in Nat
  PROVE  /\ [c EXCEPT !["fanout"] = @ + n] \in [Counters -> Nat]
         /\ [c EXCEPT !["generated"] = @ + n] \in [Counters -> Nat]
         /\ [c EXCEPT !["episodes"] = @ + n, !["fanout"] = @ + m] \in [Counters -> Nat]
<1>1. c["fanout"] + n \in Nat /\ c["generated"] + n \in Nat
  BY DEF Counters
<1>2. c["fanout"] + m \in Nat /\ c["episodes"] + n \in Nat
  BY DEF Counters
<1>3. [c EXCEPT !["fanout"] = @ + n] \in [Counters -> Nat]
  BY <1>1
<1>4. [c EXCEPT !["generated"] = @ + n] \in [Counters -> Nat]
  BY <1>1
<1>5. [c EXCEPT !["episodes"] = @ + n, !["fanout"] = @ + m] \in [Counters -> Nat]
  BY <1>2
<1>6. QED
  BY <1>3, <1>4, <1>5

\* Every step keeps the types of the workflow.
LEMMA WorkflowTypesStep == Types /\ [Next]_vars => WorkflowTypes'
<1> SUFFICES ASSUME Types, [Next]_vars PROVE WorkflowTypes'
  OBVIOUS
<1>1. WorkflowTypes /\ batch \in Seq(Record) /\ Len(batch) \in Nat /\ Len(cfg.lines) \in Nat
  <2>1. cfg.lines \in Seq(Line)
    BY ConfigsAssumption DEF Types, ReaderTypes
  <2>2. QED
    BY <2>1 DEF Types, EmitterTypes
<1>2. phase' \in Phases
  BY PhaseSteps
<1> DEFINE Rest == <<queue, next, count, lost, cfg>>
<1>3. UNCHANGED Rest => WorkflowTypes'
  BY <1>1, <1>2 DEF WorkflowTypes
<1>4. Calm \/ Read \/ ReadFails \/ StartBatch \/ Route => UNCHANGED Rest
  <2>1. Calm => UNCHANGED Rest
    BY CalmFrame DEF recordVars
  <2>2. Read \/ ReadFails => UNCHANGED Rest
    BY ReadEffect DEF ReaderStep
  <2>3. StartBatch => UNCHANGED Rest
    BY OtherEffects DEF StartedBatch
  <2>4. Route => UNCHANGED Rest
    BY DEF Route, control
  <2>5. QED
    BY <2>1, <2>2, <2>3, <2>4
<1>5. GivesUp => WorkflowTypes'
  <2>1. GivesUp => UNCHANGED <<queue, next, count, cfg>> /\ lost' = lost + Len(batch)
    BY OtherEffects DEF GaveUp
  <2>2. QED
    BY <1>1, <1>2, <2>1 DEF WorkflowTypes
<1>6. TakeGenerated => WorkflowTypes'
  <2>1. TakeGenerated => UNCHANGED <<next, count, cfg, lost>> /\ queue' = Tail(queue) /\ queue # <<>>
    BY OtherEffects DEF TookGenerated
  <2>2. queue \in Seq(Seq(Record)) /\ queue # <<>> => Tail(queue) \in Seq(Seq(Record))
    OBVIOUS
  <2>3. QED
    BY <1>1, <1>2, <2>1, <2>2 DEF WorkflowTypes
<1>7. /\ \A n \in Nat : [count EXCEPT !["fanout"] = @ + n] \in [Counters -> Nat]
      /\ \A n \in Nat : [count EXCEPT !["generated"] = @ + n] \in [Counters -> Nat]
      /\ \A n, s \in Nat :
           [count EXCEPT !["episodes"] = @ + n, !["fanout"] = @ + s] \in [Counters -> Nat]
  BY <1>1, CountsRise DEF WorkflowTypes
<1>8. ASSUME NEW n \in Nat, InChain, Grew(n), count' \in [Counters -> Nat] PROVE WorkflowTypes'
  BY <1>1, <1>2, <1>8 DEF InChain, Grew, WorkflowTypes
<1>9. StageReturns => WorkflowTypes'
  BY <1>1, <1>8, StageEffect DEF WorkflowTypes
<1>10. ClassifyReturns => WorkflowTypes'
  BY <1>7, <1>8, ClassifyEffect
<1>11. SessionReturns => WorkflowTypes'
  <2>1. \A n, s \in Nat : n + s \in Nat
    OBVIOUS
  <2>2. QED
    BY <1>7, <1>8, <2>1, SessionEffect
<1>12. CASE GenerateReturns \/ AllGenerated
  <2>1. PICK n \in Nat : /\ QueueGrew(n) /\ count' = [count EXCEPT !["generated"] = @ + n]
                         /\ cfg' = cfg /\ lost' = lost
    BY <1>12, GenerateEffect
  <2>2. count' \in [Counters -> Nat] /\ queue' \in Seq(Seq(Record)) /\ next' = next + n
    BY <1>7, <2>1 DEF QueueGrew
  <2>3. QED
    BY <1>1, <1>2, <2>1, <2>2 DEF WorkflowTypes
<1>13. CASE BatchEnds
  <2>1. count' \in [Counters -> Nat]
    BY <1>13, TallyEffect DEF Gains
  <2>2. UNCHANGED <<queue, next, cfg, lost>>
    BY <1>13 DEF BatchEnds
  <2>3. QED
    BY <1>1, <1>2, <2>1, <2>2 DEF WorkflowTypes
<1>14. QED
  BY <1>3, <1>4, <1>5, <1>6, <1>9, <1>10, <1>11, <1>12, <1>13, Steps

\* Every step keeps the types of the flags.
LEMMA FlagTypesStep == Types /\ [Next]_vars => FlagTypes'
<1> SUFFICES ASSUME Types, [Next]_vars PROVE FlagTypes'
  OBVIOUS
<1>1. FlagTypes
  BY DEF Types
<1> DEFINE Flags == <<stop, timer, opened, broken, fatal, undeliverable, files>>
<1> USE DEF emitterVars, totals
<1>2. UNCHANGED Flags => FlagTypes'
  BY <1>1 DEF FlagTypes
<1>3. Open \/ OpenFails \/ StartReading \/ LeaveLoop \/ NoMoreBatches \/ StartEmission \/ Resume
        => UNCHANGED Flags
  BY DEF Open, OpenFails, StartReading, LeaveLoop, NoMoreBatches, StartEmission, Resume, EndsWith
<1>4. PublishFails \/ Exit \/ UNCHANGED vars => UNCHANGED Flags
  BY DEF PublishFails, Exit, vars, control
<1>5. EmissionFails => FlagTypes'
  BY <1>1 DEF EmissionFails, WriteFails, FlagTypes
<1>6. StageFails => FlagTypes'
  BY <1>1 DEF StageFails, FlagTypes
<1>7. DeliveryEnds => FlagTypes'
  BY <1>1 DEF DeliveryEnds, FlagTypes
<1>8. RequestStop => FlagTypes'
  <2>1. RequestStop => stop' \in BOOLEAN /\ timer' \in BOOLEAN
    BY Zenon DEF RequestStop, Waiting
  <2>2. RequestStop => UNCHANGED <<opened, broken, fatal, undeliverable, files>>
    BY DEF RequestStop
  <2>3. QED
    BY <1>1, <2>1, <2>2 DEF FlagTypes
<1>9. BreakerOpens => FlagTypes'
  BY <1>1 DEF BreakerOpens, FlagTypes
<1>10. PublishOutput \/ PublishSidecar \/ PublishReport => FlagTypes'
  <2>1. PublishOutput \/ PublishSidecar \/ PublishReport
          => /\ DOMAIN files' = DOMAIN files /\ timer' \in {timer, FALSE}
             /\ UNCHANGED <<stop, opened, broken, fatal, undeliverable>>
    BY DEF PublishOutput, PublishSidecar, PublishReport, Finalize, Publish
  <2>2. QED
    BY <1>1, <2>1 DEF FlagTypes
<1>11. GivesUp => FlagTypes'
  BY <1>1 DEF GivesUp, TimerFires, DomainAborts, StageTrips, FlagTypes
<1>12. TakeGenerated \/ StartBatch => FlagTypes'
  BY <1>1 DEF TakeGenerated, StartBatch, Start, FlagTypes
<1>13. Read \/ ReadFails => UNCHANGED Flags
  BY ReadEffect DEF ReaderStep
<1>14. StageReturns \/ ClassifyReturns \/ SessionReturns => UNCHANGED Flags
  BY StageEffect, ClassifyEffect, SessionEffect DEF InChain
<1>15. GenerateReturns \/ AllGenerated \/ Route \/ BatchEnds => UNCHANGED Flags
  <2>1. GenerateReturns \/ AllGenerated => UNCHANGED Flags
    BY GenerateEffect
  <2>2. Route => UNCHANGED Flags
    BY RouteEffect DEF RouteStep, control
  <2>3. BatchEnds => UNCHANGED Flags
    BY DEF BatchEnds, Flush
  <2>4. QED
    BY <2>1, <2>2, <2>3
<1>16. QED
  BY <1>2, <1>3, <1>4, <1>5, <1>6, <1>7, <1>8, <1>9, <1>10, <1>11, <1>12, <1>13, <1>14, <1>15, Steps
     DEF Calm

-------------------------------------------------------------------------------
(* Where records can be, and what excuses a record that is left            *)

\* Every step leaves batches, sessions and pending records where they can be.
LEMMA PlacedStep == Types /\ Placed /\ [Next]_vars => Placed'
<1> SUFFICES ASSUME Types, Placed, [Next]_vars PROVE Placed'
  OBVIOUS
<1> USE DEF Placed, Over, Publishing
<1>1. Calm => UNCHANGED <<batch, cursor, gone, got, queue, ahead, cfg>>
  BY CalmFrame DEF recordVars, rows, ingestVars
<1>2. Open \/ OpenFails \/ StartReading => Placed'
  BY <1>1, ConfigsAssumption
     DEF Calm, Open, OpenFails, StartReading, EndsWith, Types, ReaderTypes
<1>3. LeaveLoop \/ NoMoreBatches \/ StartEmission \/ Resume => Placed'
  BY <1>1 DEF Calm, LeaveLoop, NoMoreBatches, StartEmission, Resume
<1>4. EmissionFails \/ StageFails \/ DeliveryEnds \/ PublishFails \/ Exit => Placed'
  <2>1. EmissionFails \/ StageFails \/ DeliveryEnds \/ PublishFails \/ Exit => phase' \in Over
    BY DEF EmissionFails, StageFails, DeliveryEnds, PublishFails, Exit, EndsWith
  <2>2. QED
    BY <1>1, <2>1 DEF Calm
<1>5. PublishOutput \/ PublishSidecar \/ PublishReport => Placed'
  <2>1. PublishOutput \/ PublishSidecar \/ PublishReport
          => phase \in Publishing /\ phase' \in {"sidecar", "report", "close"}
    BY DEF PublishOutput, PublishSidecar, PublishReport, Finalize
  <2>2. QED
    BY <1>1, <2>1 DEF Calm
<1>6. RequestStop \/ BreakerOpens \/ UNCHANGED vars => Placed'
  <2>1. RequestStop \/ BreakerOpens \/ UNCHANGED vars => phase' = phase
    BY DEF RequestStop, BreakerOpens, vars, control
  <2>2. QED
    BY <1>1, <2>1 DEF Calm
<1>7. GivesUp => Placed'
  BY OtherEffects DEF GaveUp, emitterVars, rows, totals, ingestVars
<1>8. TakeGenerated \/ StartBatch => Placed'
  BY OtherEffects DEF TookGenerated, StartedBatch, emitterVars, rows, totals, ingestVars
<1>9. Read \/ ReadFails => Placed'
  <2>1. Read \/ ReadFails => ReaderStep /\ phase' \in {phase, "close"}
    BY ReadEffect
  <2>2. ReaderStep => /\ phase = "read" /\ UNCHANGED <<batch, cursor, gone, queue, cfg>>
                      /\ ~cfg.stream /\ ahead = 0 => ahead' = 0
    BY DEF ReaderStep, Skips, Joins, Closing, Opens, rows
  <2>3. QED
    BY <2>1, <2>2
<1>10. StageReturns \/ ClassifyReturns \/ SessionReturns => Placed'
  BY StageEffect, ClassifyEffect, SessionEffect DEF InChain, emitterVars, rows, ingestVars
<1>11. GenerateReturns \/ AllGenerated => Placed'
  BY GenerateEffect DEF emitterVars, rows, ingestVars
<1>12. Route => Placed'
  <2>1. Route => phase' = "emit" /\ phase = "emit" /\ UNCHANGED <<got, queue, ahead, cfg>>
    BY DEF Route, control, ingestVars
  <2>2. QED
    BY <2>1
<1>13. BatchEnds => Placed'
  BY DEF BatchEnds, Flush, ingestVars
<1>14. QED
  BY <1>2, <1>3, <1>4, <1>5, <1>6, <1>7, <1>8, <1>9, <1>10, <1>11, <1>12, <1>13, Steps DEF Calm

\* Every step keeps what a stop request, the breaker and the disk have to do with the end.
LEMMA ExcusedStep == Types /\ Excused /\ [Next]_vars => Excused'
<1> SUFFICES ASSUME Types, Excused, [Next]_vars PROVE Excused'
  OBVIOUS
<1> USE DEF Excused, Over, Publishing
<1>1. Calm => UNCHANGED lost
  BY CalmFrame DEF recordVars
<1> DEFINE Kept == UNCHANGED <<lost, stop, broken, timer, undeliverable, files>>
<1>2. Open \/ OpenFails \/ StartReading \/ LeaveLoop \/ NoMoreBatches \/ StartEmission \/ Resume
        => Excused'
  BY DEF Open, OpenFails, StartReading, LeaveLoop, NoMoreBatches, StartEmission, Resume, EndsWith,
         emitterVars, totals
<1>3. EmissionFails \/ StageFails \/ DeliveryEnds \/ PublishFails \/ Exit => Excused'
  <2>1. EmissionFails \/ StageFails \/ DeliveryEnds \/ PublishFails \/ Exit
          => phase' \in Over /\ UNCHANGED <<stop, broken, timer>>
    BY DEF EmissionFails, StageFails, DeliveryEnds, PublishFails, Exit, EndsWith
  <2>2. QED
    BY <1>1, <2>1 DEF Calm
<1>4. PublishOutput \/ PublishSidecar => Excused'
  <2>1. PublishOutput \/ PublishSidecar
          => /\ phase \in Publishing /\ phase' \in {"sidecar", "report"}
             /\ UNCHANGED <<stop, broken, undeliverable>> /\ (timer' => timer)
    BY DEF PublishOutput, PublishSidecar, Finalize, Publish
  <2>2. PublishOutput \/ PublishSidecar => files'.report = files.report
    <3>1. DOMAIN files = {"output", "sidecar", "report"}
      BY DEF Types, FlagTypes
    <3>2. PublishOutput => files'.report = files.report
      <4>1. PublishOutput => files' = [files EXCEPT !["output"] = {main}]
        BY DEF PublishOutput, Finalize, Publish
      <4>2. QED
        BY <3>1, <4>1
    <3>3. PublishSidecar => files'.report = files.report
      <4>1. PublishSidecar => files' = [files EXCEPT !["sidecar"] = {side}]
        BY DEF PublishSidecar, Finalize, Publish
      <4>2. QED
        BY <3>1, <4>1
    <3>4. QED
      BY <3>2, <3>3
  <2>3. QED
    BY <1>1, <2>1, <2>2 DEF Calm
<1>5. PublishReport => Excused'
  BY <1>1 DEF Calm, PublishReport, Finalize
<1>6. RequestStop => Excused'
  BY <1>1 DEF Calm, RequestStop, Waiting, emitterVars, totals
<1>7. BreakerOpens \/ UNCHANGED vars => Excused'
  BY <1>1 DEF Calm, BreakerOpens, emitterVars, totals, vars, control
<1>8. GivesUp => Excused'
  <2>1. TimerFires => Excused'
    BY DEF TimerFires, Waiting, Abandon, emitterVars, totals
  <2>2. DomainAborts => Excused'
    BY DEF DomainAborts, Waiting, Abandon, emitterVars, totals
  <2>3. StageTrips => Excused'
    BY DEF StageTrips, Waiting, emitterVars, totals
  <2>4. QED
    BY <2>1, <2>2, <2>3 DEF GivesUp
<1>9. TakeGenerated \/ StartBatch => Excused'
  BY DEF TakeGenerated, StartBatch, Start, emitterVars, totals
<1>10. Read \/ ReadFails => Excused'
  BY ReadEffect DEF ReaderStep
<1>11. StageReturns \/ ClassifyReturns \/ SessionReturns => Excused'
  BY StageEffect, ClassifyEffect, SessionEffect DEF InChain, emitterVars, totals
<1>12. GenerateReturns \/ AllGenerated => Excused'
  BY GenerateEffect DEF emitterVars, totals
<1>13. Route => Excused'
  BY DEF Route, RouteSilently, RouteReject, RouteMain, Divert, DivertHalfWritten, control, totals
<1>14. BatchEnds => Excused'
  BY DEF BatchEnds, Flush
<1>15. QED
  BY <1>2, <1>3, <1>4, <1>5, <1>6, <1>7, <1>8, <1>9, <1>10, <1>11, <1>12, <1>13, <1>14, Steps
     DEF Calm

-------------------------------------------------------------------------------
(* The balance                                                             *)

\* What the counters say of the records that came in and have a fate.
Deductions(c) ==
  c["dropped_dup"] + c["dropped_lowq"] + c["dropped_verify"]
    + c["absorbed"] + c["dropped_noise"] + c["stitched"]
Net(c) ==
  (c["generated"] + c["fanout"] + c["episodes"]) - (Deductions(c) + c["emitted"] + c["failed"])

\* The residual of the report, in terms of the net.
LEMMA NetValue ==
  ASSUME NEW c \in [Counters -> Nat], NEW scans \in Int, NEW faults \in Int
  PROVE  /\ Net(c) \in Int
         /\ scans + c["generated"] + c["fanout"] + c["episodes"]
              - (faults + FoldFunctionOnSet(+, 0, c, Deducted \cup {"emitted", "failed"}))
              = scans - faults + Net(c)
<1>1. /\ c["generated"] \in Int /\ c["fanout"] \in Int /\ c["episodes"] \in Int
      /\ c["dropped_dup"] \in Int /\ c["dropped_lowq"] \in Int /\ c["dropped_verify"] \in Int
      /\ c["absorbed"] \in Int /\ c["dropped_noise"] \in Int /\ c["stitched"] \in Int
      /\ c["emitted"] \in Int /\ c["failed"] \in Int
  BY DEF Counters, Deducted
<1>2. \A k \in Deducted \cup {"emitted", "failed"} : c[k] \in Int
  BY DEF Counters
<1>3. FoldFunctionOnSet(+, 0, c, Deducted \cup {"emitted", "failed"})
        = c["dropped_dup"] + c["dropped_lowq"] + c["dropped_verify"]
            + c["absorbed"] + c["dropped_noise"] + c["stitched"]
            + c["emitted"] + c["failed"]
  BY <1>2, CounterSums
<1>4. PICK sum : sum = FoldFunctionOnSet(+, 0, c, Deducted \cup {"emitted", "failed"})
  OBVIOUS
<1>5. Deductions(c) \in Int /\ sum = Deductions(c) + c["emitted"] + c["failed"]
  <2>1. Deductions(c) \in Int
    BY <1>1 DEF Deductions
  <2>2. sum = c["dropped_dup"] + c["dropped_lowq"] + c["dropped_verify"]
                + c["absorbed"] + c["dropped_noise"] + c["stitched"]
                + c["emitted"] + c["failed"]
    BY <1>3, <1>4
  <2>3. QED
    BY <1>1, <2>1, <2>2 DEF Deductions
<1>6. /\ Net(c) \in Int
      /\ scans + c["generated"] + c["fanout"] + c["episodes"] - (faults + sum)
           = scans - faults + Net(c)
  BY <1>1, <1>5 DEF Net
<1>7. QED
  BY <1>4, <1>6

\* What a rise of one or two counters does to the net.
LEMMA NetRises ==
  ASSUME NEW c \in [Counters -> Nat], NEW n \in Nat, NEW m \in Nat
  PROVE  /\ Net([c EXCEPT !["fanout"] = @ + n]) = Net(c) + n
         /\ Net([c EXCEPT !["generated"] = @ + n]) = Net(c) + n
         /\ Net([c EXCEPT !["episodes"] = @ + n, !["fanout"] = @ + m]) = Net(c) + n + m
<1>1. /\ c["generated"] \in Int /\ c["fanout"] \in Int /\ c["episodes"] \in Int
      /\ c["dropped_dup"] \in Int /\ c["dropped_lowq"] \in Int /\ c["dropped_verify"] \in Int
      /\ c["absorbed"] \in Int /\ c["dropped_noise"] \in Int /\ c["stitched"] \in Int
      /\ c["emitted"] \in Int /\ c["failed"] \in Int
  BY DEF Counters, Deducted
<1>2. {"generated", "fanout", "episodes", "dropped_dup", "dropped_lowq", "dropped_verify",
       "absorbed", "dropped_noise", "stitched", "emitted", "failed"} \subseteq DOMAIN c
  BY DEF Counters, Deducted
<1>3. Net([c EXCEPT !["fanout"] = @ + n]) = Net(c) + n
  BY <1>1, <1>2 DEF Net, Deductions
<1>4. Net([c EXCEPT !["generated"] = @ + n]) = Net(c) + n
  BY <1>1, <1>2 DEF Net, Deductions
<1>5. Net([c EXCEPT !["episodes"] = @ + n, !["fanout"] = @ + m]) = Net(c) + n + m
  BY <1>1, <1>2 DEF Net, Deductions
<1>6. QED
  BY <1>3, <1>4, <1>5

\* Records that get their fates leave the net.
LEMMA NetSettles ==
  ASSUME NEW c \in [Counters -> Nat], NEW c2, NEW g \in Nat, NEW d \in Nat, NEW rest \in Nat,
         NEW n \in Nat, rest = n - g - d, Deductions(c2) = Deductions(c) + d,
         c2["emitted"] = c["emitted"] + g, c2["failed"] = c["failed"] + rest,
         c2["generated"] = c["generated"], c2["fanout"] = c["fanout"], c2["episodes"] = c["episodes"]
  PROVE  Net(c2) = Net(c) - n
<1>1. PICK a : a = Deductions(c)
  OBVIOUS
<1>2. a \in Nat
  BY <1>1 DEF Deductions, Counters, Deducted
<1>3. /\ c["emitted"] \in Nat /\ c["failed"] \in Nat /\ c["generated"] \in Nat
      /\ c["fanout"] \in Nat /\ c["episodes"] \in Nat
  BY DEF Counters
<1>4. PICK e \in Nat, b \in Nat, u \in Nat :
        /\ e = c["emitted"] /\ b = c["failed"]
        /\ u = c["generated"] + c["fanout"] + c["episodes"]
  BY <1>3
<1>5. Net(c) = u - (a + e + b)
  BY <1>1, <1>4, Zenon DEF Net
<1>6. Net(c2) = u - ((a + d) + (e + g) + (b + rest))
  BY <1>1, <1>4, Zenon DEF Net
<1>7. QED
  BY <1>2, <1>5, <1>6

\* What a batch can have emitted: not more records than are active in it.
LEMMA GoneAreActive ==
  ASSUME Types, RowsCounted, cursor = Len(batch)
  PROVE  Cardinality(gone) <= Tallied("active")
<1> DEFINE A == {i \in DOMAIN batch : batch[i].status = "active"}
<1>1. DOMAIN batch = 1 .. Len(batch) /\ Len(batch) \in Nat
  BY DEF Types, EmitterTypes
<1>2. gone = {batch[i].id : i \in A}
  BY <1>1 DEF RowsCounted
<1>3. IsFiniteSet(DOMAIN batch)
  BY <1>1, FS_Interval
<1>4. IsFiniteSet(A)
  BY <1>3, FS_Subset
<1> HIDE DEF A
<1> DEFINE f == [i \in A |-> batch[i].id]
<1>5. f \in Surjection(A, gone)
  BY <1>2 DEF Surjection
<1>6. Cardinality(gone) <= Cardinality(A)
  BY <1>4, <1>5, FS_Surjection
<1>7. QED
  BY <1>6 DEF A, Tallied

\* At its end every record of a batch gets a fate, and one only.
LEMMA BatchSettles ==
  ASSUME Types, RowsCounted, BatchEnds
  PROVE  count' \in [Counters -> Nat] /\ Net(count') = Net(count) - Len(batch)
<1>1. PICK gain, g, rest : Gains(gain, g, rest)
  BY TallyEffect
<1>2. batch \in Seq(Record) /\ DOMAIN batch = 1 .. Len(batch) /\ Len(batch) \in Nat
  BY DEF Types, EmitterTypes
<1>3. cursor = Len(batch)
  BY DEF BatchEnds, Flush, Routed
<1>4. g <= Tallied("active")
  BY <1>1, <1>3, GoneAreActive DEF Gains
<1> DEFINE f == [i \in 1 .. Len(batch) |-> batch[i].status]
<1>5. \A s : Tallied(s) = Cardinality({i \in 1 .. Len(batch) : f[i] = s})
  <2>1. ASSUME NEW s
        PROVE  {i \in DOMAIN batch : batch[i].status = s} = {i \in 1 .. Len(batch) : f[i] = s}
    BY <1>2
  <2>2. QED
    BY <2>1 DEF Tallied
<1> HIDE DEF f
<1>6. /\ \A s \in Deducted \cup {"active"} : Tallied(s) \in Nat
      /\ Tallied("dropped_dup") + Tallied("dropped_lowq") + Tallied("dropped_verify")
           + Tallied("absorbed") + Tallied("dropped_noise") + Tallied("stitched")
           + Tallied("active") <= Len(batch)
  <2> DEFINE C(s) == Labelled(1 .. Len(batch), f, s)
  <2>1. \A s \in Deducted \cup {"active"} : C(s) \in Nat
    BY <1>2, LabelsDisjoint
  <2>2. C("dropped_dup") + C("dropped_lowq") + C("dropped_verify") + C("absorbed")
          + C("dropped_noise") + C("stitched") + C("active") <= Len(batch)
    BY <1>2, LabelsDisjoint
  <2>3. \A s : Tallied(s) = C(s)
    BY <1>5 DEF Labelled
  <2> HIDE DEF C
  <2>4. QED
    BY <2>1, <2>2, <2>3
<1>7. /\ gain["dropped_dup"] = Tallied("dropped_dup") /\ gain["dropped_lowq"] = Tallied("dropped_lowq")
      /\ gain["dropped_verify"] = Tallied("dropped_verify") /\ gain["absorbed"] = Tallied("absorbed")
      /\ gain["dropped_noise"] = Tallied("dropped_noise") /\ gain["stitched"] = Tallied("stitched")
      /\ gain["dropped_dup"] \in Nat /\ gain["dropped_lowq"] \in Nat /\ gain["dropped_verify"] \in Nat
      /\ gain["absorbed"] \in Nat /\ gain["dropped_noise"] \in Nat /\ gain["stitched"] \in Nat
      /\ Tallied("active") \in Nat /\ g \in Nat
  BY <1>1, <1>6 DEF Gains, Deducted
<1>8. rest = Len(batch) - g - (gain["dropped_dup"] + gain["dropped_lowq"] + gain["dropped_verify"]
                                 + gain["absorbed"] + gain["dropped_noise"] + gain["stitched"])
  BY <1>1 DEF Gains
<1>9. rest \in Nat
  <2>1. PICK d : d = gain["dropped_dup"] + gain["dropped_lowq"] + gain["dropped_verify"]
                       + gain["absorbed"] + gain["dropped_noise"] + gain["stitched"]
    OBVIOUS
  <2>2. d \in Nat /\ d + Tallied("active") <= Len(batch)
    BY <1>6, <1>7, <2>1
  <2>3. rest = Len(batch) - g - d
    BY <1>8, <2>1
  <2>4. QED
    BY <1>2, <1>4, <1>7, <2>2, <2>3
<1>10. /\ count'["failed"] = count["failed"] + rest /\ count'["emitted"] = count["emitted"] + g
       /\ count'["dropped_dup"] = count["dropped_dup"] + gain["dropped_dup"]
       /\ count'["dropped_lowq"] = count["dropped_lowq"] + gain["dropped_lowq"]
       /\ count'["dropped_verify"] = count["dropped_verify"] + gain["dropped_verify"]
       /\ count'["absorbed"] = count["absorbed"] + gain["absorbed"]
       /\ count'["dropped_noise"] = count["dropped_noise"] + gain["dropped_noise"]
       /\ count'["stitched"] = count["stitched"] + gain["stitched"]
       /\ count'["generated"] = count["generated"] /\ count'["fanout"] = count["fanout"]
       /\ count'["episodes"] = count["episodes"]
  <2>1. count["failed"] \in Nat
    BY DEF Types, WorkflowTypes, Counters
  <2>2. count'["failed"] = count["failed"] + rest
    BY <1>1, <1>9, <2>1 DEF Gains
  <2>3. QED
    BY <1>1, <2>2 DEF Gains, Deducted
<1>11. /\ count["generated"] \in Nat /\ count["fanout"] \in Nat /\ count["episodes"] \in Nat
       /\ count["dropped_dup"] \in Nat /\ count["dropped_lowq"] \in Nat
             /\ count["dropped_verify"] \in Nat
       /\ count["absorbed"] \in Nat /\ count["dropped_noise"] \in Nat /\ count["stitched"] \in Nat
       /\ count["emitted"] \in Nat /\ count["failed"] \in Nat
  BY DEF Types, WorkflowTypes, Counters, Deducted
<1>12. Net(count') = Net(count) - Len(batch)
  <2>1. PICK d : d = gain["dropped_dup"] + gain["dropped_lowq"] + gain["dropped_verify"]
                       + gain["absorbed"] + gain["dropped_noise"] + gain["stitched"]
    OBVIOUS
  <2>2. d \in Nat /\ Deductions(count') = Deductions(count) + d
    BY <1>7, <1>10, <1>11, <2>1 DEF Deductions
  <2>3. rest = Len(batch) - g - d
    BY <1>8, <2>1
  <2>4. PICK c : c = count
    OBVIOUS
  <2>5. PICK c2 : c2 = count'
    OBVIOUS
  <2>6. c \in [Counters -> Nat] /\ g \in Nat
    BY <1>7, <2>4 DEF Types, WorkflowTypes
  <2>7. /\ Deductions(c2) = Deductions(c) + d
        /\ c2["emitted"] = c["emitted"] + g /\ c2["failed"] = c["failed"] + rest
        /\ c2["generated"] = c["generated"] /\ c2["fanout"] = c["fanout"]
        /\ c2["episodes"] = c["episodes"]
    BY <1>10, <2>2, <2>4, <2>5
  <2>8. Net(c2) = Net(c) - Len(batch)
    <3>1. PICK n : n = Len(batch)
      OBVIOUS
    <3>2. n \in Nat /\ d \in Nat /\ rest \in Nat /\ rest = n - g - d
      BY <1>2, <1>9, <2>2, <2>3, <3>1
    <3>3. Net(c2) = Net(c) - n
      BY ONLY <2>6, <2>7, <3>2, NetSettles
    <3>4. QED
      BY <3>1, <3>3
  <2>9. QED
    BY <2>4, <2>5, <2>8
<1>13. QED
  BY <1>1, <1>12 DEF Gains

\* The two sides of the balance, of any state.
Due(c, scans, faults) == (scans - faults) + Net(c)
Ahead(a) == IF a = 0 THEN 0 ELSE 1
Held(l, b, q, g, a) == (((l + Len(b)) + First(q, Len(q))) + Len(g)) + Ahead(a)

\* The residual is what is due and to be read, and what has no fate is what is held.
LEMMA SidesOf ==
  Types => /\ Residual = Due(count, Taken, bad) + Unread
           /\ Limbo = Held(lost, batch, queue, got, ahead)
<1> SUFFICES ASSUME Types
             PROVE  /\ Residual = Due(count, Taken, bad) + Unread
                    /\ Limbo = Held(lost, batch, queue, got, ahead)
  OBVIOUS
<1>1. /\ count \in [Counters -> Nat] /\ scanned \in Int /\ ingested \in Int /\ bad \in Int
      /\ queue \in Seq(Seq(Record))
  BY DEF Types, WorkflowTypes, ReaderTypes
<1>2. Residual = Due(count, scanned, bad)
  BY <1>1, NetValue DEF Residual, Sinks, Due
<1>3. Net(count) \in Int
  <2>1. 0 \in Int
    OBVIOUS
  <2>2. QED
    BY ONLY <1>1, <2>1, NetValue, Zenon
<1>4. Due(count, scanned, bad) = Due(count, Taken, bad) + Unread
  BY <1>1, <1>3 DEF Due, Taken, Unread
<1>5. Queued = First(queue, Len(queue))
  BY <1>1, QueuedIsSum DEF Queued
<1>6. Limbo = Held(lost, batch, queue, got, ahead)
  BY <1>5 DEF Limbo, Held, Ahead
<1>7. QED
  BY <1>2, <1>4, <1>6

\* The same of the next state.
LEMMA SidesOfNext ==
  Types' => /\ Residual' = Due(count', Taken', bad') + Unread'
            /\ Limbo' = Held(lost', batch', queue', got', ahead')
<1>1. (Types => /\ Residual = Due(count, Taken, bad) + Unread
                /\ Limbo = Held(lost, batch, queue, got, ahead))'
  BY SidesOf, PTL
<1>2. QED
  BY <1>1

\* The sizes of what is held are natural numbers.
LEMMA HeldType ==
  ASSUME NEW q \in Seq(Seq(Record))
  PROVE  First(q, Len(q)) \in Nat
<1>1. IsFiniteSet(1 .. Len(q)) /\ \A k \in 1 .. Len(q) : Lens(q)[k] \in Nat
  <2>1. DOMAIN q = 1 .. Len(q) /\ Len(q) \in Nat
    OBVIOUS
  <2>2. \A k \in 1 .. Len(q) : Len(q[k]) \in Nat
    OBVIOUS
  <2>3. QED
    BY <2>1, <2>2, FS_Interval DEF Lens
<1>2. QED
  BY <1>1, SumNatural DEF First

\* The balance is that of the two sides.
LEMMA BalanceOf ==
  Types => (Balanced <=> Due(count, Taken, bad) = Held(lost, batch, queue, got, ahead))
<1> SUFFICES ASSUME Types
             PROVE  Balanced <=> Due(count, Taken, bad) = Held(lost, batch, queue, got, ahead)
  OBVIOUS
<1>1. /\ count \in [Counters -> Nat] /\ queue \in Seq(Seq(Record)) /\ batch \in Seq(Record)
      /\ got \in Seq(Nat) /\ lost \in Nat
      /\ scanned \in Nat /\ ingested \in Nat /\ bad \in Nat
  BY DEF Types, ReaderTypes, EmitterTypes, WorkflowTypes
<1>2. Net(count) \in Int
  <2>1. 0 \in Int
    OBVIOUS
  <2>2. QED
    BY ONLY <1>1, <2>1, NetValue, Zenon
<1>3. Due(count, Taken, bad) \in Int /\ Unread \in Int
  BY <1>1, <1>2 DEF Due, Taken, Unread
<1>4. Held(lost, batch, queue, got, ahead) \in Int
  <2>1. First(queue, Len(queue)) \in Nat /\ Len(batch) \in Nat /\ Len(got) \in Nat
    BY <1>1, HeldType
  <2>2. QED
    BY <1>1, <2>1 DEF Held, Ahead
<1>5. Residual = Due(count, Taken, bad) + Unread /\ Limbo = Held(lost, batch, queue, got, ahead)
  BY SidesOf
<1>6. ASSUME NEW d \in Int, NEW u \in Int, NEW h \in Int PROVE d + u = h + u <=> d = h
  OBVIOUS
<1>7. QED
  BY <1>3, <1>4, <1>5, <1>6 DEF Balanced

\* Every step keeps the balance.
LEMMA BalancedStep ==
  Types /\ Types' /\ Placed /\ RowsCounted /\ Balanced /\ [Next]_vars => Balanced'
<1> SUFFICES ASSUME Types, Types', Placed, RowsCounted, Balanced, [Next]_vars PROVE Balanced'
  OBVIOUS
<1> DEFINE w == First(queue, Len(queue))
           w2 == First(queue', Len(queue'))
           Even == Due(count, Taken, bad) = Held(lost, batch, queue, got, ahead)
           Even2 == Due(count', Taken', bad') = Held(lost', batch', queue', got', ahead')
<1>1. Even /\ (Even2 => Balanced')
  <2>1. (Types => (Balanced <=> Due(count, Taken, bad) = Held(lost, batch, queue, got, ahead)))'
    BY BalanceOf, PTL
  <2>2. QED
    BY <2>1, BalanceOf
<1>2. /\ Net(count) \in Int /\ Taken \in Int /\ bad \in Int /\ lost \in Int
      /\ Len(batch) \in Nat /\ w \in Int /\ Len(got) \in Nat
      /\ batch \in Seq(Record) /\ queue \in Seq(Seq(Record)) /\ count \in [Counters -> Nat]
  <2>1. count \in [Counters -> Nat] /\ queue \in Seq(Seq(Record)) /\ batch \in Seq(Record)
          /\ got \in Seq(Nat)
    BY DEF Types, ReaderTypes, EmitterTypes, WorkflowTypes
  <2>2. w \in Int
    BY <2>1, HeldType
  <2>3. Net(count) \in Int
    <3>1. 0 \in Int
      OBVIOUS
    <3>2. QED
      BY ONLY <2>1, <3>1, NetValue, Zenon
  <2>4. Taken \in Int /\ bad \in Int /\ lost \in Int
    BY DEF Types, ReaderTypes, WorkflowTypes, Taken
  <2>5. QED
    BY <2>1, <2>2, <2>3, <2>4
<1>3. (Taken - bad) + Net(count)
        = (((lost + Len(batch)) + w) + Len(got)) + Ahead(ahead)
  BY <1>1 DEF Due, Held
<1>4. SUFFICES (Taken' - bad') + Net(count')
                 = (((lost' + Len(batch')) + w2) + Len(got')) + Ahead(ahead')
  BY <1>1 DEF Due, Held
<1>5. queue' = queue => w2 = w
  OBVIOUS
<1> HIDE DEF w, w2, Even, Even2
<1>6. Ahead(ahead) \in Int
  BY DEF Ahead
<1>6a. /\ Taken \in Int /\ bad \in Int /\ lost \in Int /\ w \in Int
       /\ Len(batch) \in Int /\ Len(got) \in Int
  BY <1>2
<1>7. CASE Calm
  <2>1. UNCHANGED <<Taken, bad, count, lost, batch, queue, got, ahead>>
    BY <1>7, CalmFrame, TakenStays DEF recordVars, ingestVars
  <2>2. QED
    BY <1>3, <1>5, <2>1
<1>8. CASE GivesUp
  <2>1. /\ UNCHANGED <<Taken, bad, count, queue, got, ahead>>
        /\ lost' = lost + Len(batch) /\ Len(batch') = 0
    BY <1>8, OtherEffects, TakenStays DEF GaveUp, ingestVars
  <2>2. w2 = w /\ Net(count') = Net(count) /\ Ahead(ahead') = Ahead(ahead)
    BY <1>5, <2>1
  <2>3. QED
    BY <1>2, <1>3, <2>1, <2>2
<1>9. CASE TakeGenerated
  <2>1. /\ UNCHANGED <<Taken, bad, count, lost, got, ahead>> /\ queue # <<>>
        /\ batch' = Head(queue) /\ queue' = Tail(queue) /\ batch = <<>>
    BY <1>9, OtherEffects, TakenStays DEF TookGenerated, ingestVars, Placed, Over
  <2>2. w = Len(batch') + w2
    BY <1>2, <2>1, FirstTail DEF w, w2
  <2>3. Len(batch') \in Nat /\ w2 \in Nat /\ Len(batch) = 0
    <3>1. queue' \in Seq(Seq(Record)) /\ batch' \in Seq(Record)
      BY DEF Types, EmitterTypes, WorkflowTypes
    <3>2. w2 \in Nat
      BY <3>1, HeldType, Zenon DEF w2
    <3>3. QED
      BY <2>1, <3>1, <3>2
  <2>4. Net(count') = Net(count) /\ Ahead(ahead') = Ahead(ahead)
    BY <2>1
  <2>5. UNCHANGED <<Taken, bad, lost, got>>
    BY <2>1
  <2>6. QED
    BY ONLY <1>2, <1>3, <1>6, <2>2, <2>3, <2>4, <2>5
<1>10. CASE Read \/ ReadFails
  <2>1. ReaderStep
    BY <1>10, ReadEffect
  <2>2. Net(count') = Net(count) /\ w2 = w /\ lost' = lost /\ Len(batch') = Len(batch)
    BY <1>5, <2>1 DEF ReaderStep
  <2>3. CASE Skips
    BY <1>2, <1>3, <1>6, <2>2, <2>3 DEF Skips
  <2>4. CASE Joins
    <3>1. Len(got') = Len(got) + 1 /\ Taken' = Taken + 1 /\ bad' = bad
                /\ Ahead(ahead') = Ahead(ahead)
      BY <2>4 DEF Joins, Types, ReaderTypes
    <3>2. QED
      BY <1>2, <1>3, <1>6, <2>2, <3>1, SMTT(20)
  <2>5. CASE Closing
    <3>1. pos \in Nat
      BY ConfigsAssumption DEF Types, ReaderTypes
    <3>2. /\ Ahead(ahead) = 0 /\ Ahead(ahead') = 1 /\ Taken' = Taken + 1 /\ bad' = bad
          /\ Len(got') = Len(got)
      BY <2>5, <3>1 DEF Closing, Ahead
    <3>3. QED
      BY <1>2, <1>3, <2>2, <3>2
  <2>6. CASE Opens
    <3>1. /\ Ahead(ahead) = 1 /\ Ahead(ahead') = 0 /\ Taken' = Taken /\ bad' = bad
          /\ Len(got) = 0 /\ Len(got') = 1
      BY <2>6 DEF Opens, Ahead
    <3>2. QED
      BY <1>2, <1>3, <2>2, <3>1
  <2>7. QED
    BY <2>1, <2>3, <2>4, <2>5, <2>6 DEF ReaderStep
<1>11. CASE StartBatch
  <2>1. /\ UNCHANGED <<Taken, bad, count, lost, queue, ahead>>
        /\ Len(batch') = Len(got) /\ got' = <<>> /\ batch = <<>>
    BY <1>11, OtherEffects, TakenStays DEF StartedBatch, Placed, Over
  <2>2. /\ UNCHANGED <<Taken, bad, lost>> /\ w2 = w /\ Net(count') = Net(count)
        /\ Ahead(ahead') = Ahead(ahead)
        /\ Len(batch') = Len(got) /\ Len(got') = 0 /\ Len(batch) = 0
    BY <1>5, <2>1
  <2>3. QED
    BY ONLY <1>2, <1>3, <1>6, <2>2
<1>12. ASSUME NEW n \in Nat, InChain, Grew(n), Net(count') = Net(count) + n
       PROVE  (Taken' - bad') + Net(count')
                = (((lost' + Len(batch')) + w2) + Len(got')) + Ahead(ahead')
  <2>1. /\ UNCHANGED <<Taken, bad, lost, got, ahead, queue>> /\ Len(batch') = Len(batch) + n
    BY <1>12, TakenStays DEF InChain, Grew, ingestVars
  <2>2. w2 = w /\ Ahead(ahead') = Ahead(ahead)
    BY <1>5, <2>1
  <2>3. Net(count') = Net(count) + n
    BY <1>12
  <2>4. UNCHANGED <<Taken, bad, lost, got>> /\ Len(batch') = Len(batch) + n
    BY <2>1
  <2>5. PICK m \in Int : m = Net(count)
    BY <1>2
  <2>5a. PICK m2 : m2 = Net(count')
    OBVIOUS
  <2>6. m2 = m + n /\ (Taken - bad) + m = (((lost + Len(batch)) + w) + Len(got)) + Ahead(ahead)
    BY <1>3, <2>3, <2>5, <2>5a
  <2>7. (Taken' - bad') + m2 = (((lost' + Len(batch')) + w2) + Len(got')) + Ahead(ahead')
    BY ONLY n \in Nat, m \in Int, <1>6a, <1>6, <2>6, <2>2, <2>4
  <2>8. QED
    BY <2>5, <2>5a, <2>7
<1>13. CASE StageReturns
  <2>1. InChain /\ Grew(0) /\ Net(count') = Net(count) + 0
    BY <1>2, <1>13, StageEffect
  <2>2. QED
    BY <1>12, <2>1
<1>14. CASE ClassifyReturns
  <2>1. PICK n \in Nat : InChain /\ Grew(n) /\ count' = [count EXCEPT !["fanout"] = @ + n]
    BY <1>14, ClassifyEffect
  <2>2. Net(count') = Net(count) + n
    BY <1>2, <2>1, NetRises
  <2>3. QED
    BY <1>12, <2>1, <2>2
<1>15. CASE SessionReturns
  <2>1. PICK n \in Nat, s \in Nat :
          /\ InChain /\ Grew(n + s)
          /\ count' = [count EXCEPT !["episodes"] = @ + n, !["fanout"] = @ + s]
    BY <1>15, SessionEffect
  <2>2. Net(count') = Net(count) + n + s
    BY <1>2, <2>1, NetRises
  <2>3. PICK m \in Nat : m = n + s
    OBVIOUS
  <2>4. Grew(m) /\ Net(count') = Net(count) + m
    BY <1>2, <2>1, <2>2, <2>3
  <2>5. QED
    BY <1>12, <2>1, <2>4
<1>16. CASE GenerateReturns \/ AllGenerated
  <2>1. PICK n \in Nat :
          /\ QueueGrew(n) /\ count' = [count EXCEPT !["generated"] = @ + n]
          /\ UNCHANGED <<ingestVars, cfg, batch, lost>>
    BY <1>16, GenerateEffect
  <2>2. Net(count') = Net(count) + n
    BY <1>2, <2>1, NetRises
  <2>3. w2 = w + n
    BY <2>1 DEF QueueGrew, w, w2
  <2>4. UNCHANGED <<Taken, bad, got, ahead, batch, lost>>
    BY <2>1, TakenStays DEF ingestVars
  <2>5. Ahead(ahead') = Ahead(ahead) /\ UNCHANGED <<Taken, bad, got, batch, lost>>
    BY <2>4
  <2>6. PICK m \in Int : m = Net(count)
    BY <1>2
  <2>6a. PICK m2 : m2 = Net(count')
    OBVIOUS
  <2>7. m2 = m + n /\ (Taken - bad) + m = (((lost + Len(batch)) + w) + Len(got)) + Ahead(ahead)
    BY <1>3, <2>2, <2>6, <2>6a
  <2>8. (Taken' - bad') + m2 = (((lost' + Len(batch')) + w2) + Len(got')) + Ahead(ahead')
    BY ONLY n \in Nat, m \in Int, <1>6a, <1>6, <2>7, <2>3, <2>5
  <2>9. QED
    BY <2>6, <2>6a, <2>8
<1>17. CASE Route
  <2>1. UNCHANGED <<Taken, bad, count, lost, queue, got, ahead>> /\ Len(batch') = Len(batch)
    BY <1>17, RouteEffect, TakenStays DEF RouteStep, ingestVars, control
  <2>2. QED
    BY <1>3, <1>5, <2>1
<1>18. CASE BatchEnds
  <2>1. Net(count') = Net(count) - Len(batch)
    BY <1>18, BatchSettles
  <2>2. UNCHANGED <<Taken, bad, lost, queue, got, ahead>> /\ Len(batch') = 0
    BY <1>18, TakenStays DEF BatchEnds, Flush, ingestVars
  <2>3. w2 = w /\ Ahead(ahead') = Ahead(ahead)
    BY <1>5, <2>2
  <2>4. UNCHANGED <<Taken, bad, lost, got>> /\ Len(batch') = 0
    BY <2>2
  <2>5. PICK m \in Int : m = Net(count)
    BY <1>2
  <2>5a. PICK m2 : m2 = Net(count')
    OBVIOUS
  <2>6. m2 = m - Len(batch) /\ (Taken - bad) + m
              = (((lost + Len(batch)) + w) + Len(got)) + Ahead(ahead)
    BY <1>3, <2>1, <2>5, <2>5a
  <2>7. (Taken' - bad') + m2 = (((lost' + Len(batch')) + w2) + Len(got')) + Ahead(ahead')
    BY ONLY m \in Int, <1>6a, <1>6, <2>6, <2>3, <2>4
  <2>8. QED
    BY <2>5, <2>5a, <2>7
<1>19. QED
  BY <1>7, <1>8, <1>9, <1>10, <1>11, <1>13, <1>14, <1>15, <1>16, <1>17, <1>18, Steps

\* The rows among the first lines are finitely many, and among more lines there are no fewer.
LEMMA RowsToType ==
  ASSUME Types, NEW n \in Nat, NEW m \in Nat, n <= m
  PROVE  /\ Cardinality(RowsTo(n)) \in Nat /\ Cardinality(RowsTo(m)) \in Nat
         /\ Cardinality(RowsTo(n)) <= Cardinality(RowsTo(m))
<1>1. IsFiniteSet(1 .. m)
  BY FS_Interval
<1>2. RowsTo(n) \subseteq RowsTo(m) /\ RowsTo(m) \subseteq 1 .. m
  BY DEF RowsTo
<1>3. IsFiniteSet(RowsTo(m)) /\ IsFiniteSet(RowsTo(n))
  BY <1>1, <1>2, FS_Subset
<1>4. QED
  BY <1>2, <1>3, FS_Subset, FS_CardinalityType

\* One row more.
LEMMA RowsToNext ==
  ASSUME Types, NEW n \in Nat, cfg.lines[n + 1].kind # "blank"
  PROVE  Cardinality(RowsTo(n + 1)) = Cardinality(RowsTo(n)) + 1
<1>1. IsFiniteSet(RowsTo(n))
  <2>1. IsFiniteSet(1 .. n) /\ RowsTo(n) \subseteq 1 .. n
    BY FS_Interval DEF RowsTo
  <2>2. QED
    BY <2>1, FS_Subset
<1>2. RowsTo(n + 1) = RowsTo(n) \cup {n + 1} /\ n + 1 \notin RowsTo(n)
  BY DEF RowsTo
<1>3. QED
  BY <1>1, <1>2, FS_AddElement

\* Nothing is read.
LEMMA FirstRowsStay ==
  ASSUME RowsFirst, UNCHANGED <<cfg, pos, scanned, ingested>>
  PROVE  RowsFirst'
<1>1. /\ Generated' = Generated /\ RowsTo(pos)' = RowsTo(pos)
      /\ RowsTo(Len(cfg.lines))' = RowsTo(Len(cfg.lines))
  BY DEF Generated, RowsTo
<1>2. QED
  BY <1>1 DEF RowsFirst

\* What the reader does to its counters.
LEMMA RowsFirstRead ==
  ASSUME Types, RowsFirst, UNCHANGED cfg, pos' <= Len(cfg.lines),
         \/ UNCHANGED <<pos, scanned, ingested>>
         \/ /\ pos' = pos + 1 /\ UNCHANGED ingested
            /\ scanned' = scanned \/ ~Generated
         \/ ReadFrame
  PROVE  RowsFirst'
<1>1. /\ Generated' = Generated /\ RowsTo(pos)' = RowsTo(pos')
      /\ RowsTo(Len(cfg.lines))' = RowsTo(Len(cfg.lines))
  BY DEF Generated, RowsTo
<1>2. pos \in Nat /\ pos + 1 \in Nat /\ ingested \in Nat
  BY ConfigsAssumption DEF Types, ReaderTypes
<1>3. CASE UNCHANGED <<pos, scanned, ingested>>
  BY <1>3, FirstRowsStay
<1>4. CASE /\ pos' = pos + 1 /\ UNCHANGED ingested
           /\ scanned' = scanned \/ ~Generated
  <2>1. ingested <= Cardinality(RowsTo(pos + 1))
    <3>1. /\ Cardinality(RowsTo(pos)) \in Nat /\ Cardinality(RowsTo(pos + 1)) \in Nat
          /\ Cardinality(RowsTo(pos)) <= Cardinality(RowsTo(pos + 1))
      BY <1>2, RowsToType, SMTT(20)
    <3>2. QED
      BY <1>2, <3>1 DEF RowsFirst
  <2>2. QED
    BY <1>1, <1>4, <2>1 DEF RowsFirst
<1>5. CASE ReadFrame
  <2>1. /\ pos' = pos + 1 /\ ingested' = ingested + 1 /\ cfg.lines[pos + 1].kind # "blank"
        /\ Generated =>
             scanned' = Cardinality({i \in DOMAIN cfg.lines : cfg.lines[i].kind # "blank"})
    BY <1>5 DEF ReadFrame, Reading
  <2>2. {i \in DOMAIN cfg.lines : cfg.lines[i].kind # "blank"} = RowsTo(Len(cfg.lines))
    <3>1. DOMAIN cfg.lines = 1 .. Len(cfg.lines)
      BY ConfigsAssumption DEF Types, ReaderTypes
    <3>2. QED
      BY <3>1 DEF RowsTo
  <2>3. ingested + 1 <= Cardinality(RowsTo(pos + 1))
    <3>1. Cardinality(RowsTo(pos + 1)) = Cardinality(RowsTo(pos)) + 1
      BY <1>2, <2>1, RowsToNext
    <3>2. Cardinality(RowsTo(pos)) \in Nat
      BY <1>2, RowsToType
    <3>3. QED
      BY <1>2, <3>1, <3>2 DEF RowsFirst
  <2>4. RowsTo(pos') = RowsTo(pos + 1)
    BY <2>1
  <2>5. (ingested <= Cardinality(RowsTo(pos)))'
    BY <1>1, <2>1, <2>3, <2>4
  <2>6. (Generated => scanned = Cardinality(RowsTo(Len(cfg.lines))))'
    BY <1>1, <2>1, <2>2
  <2>7. QED
    BY <2>5, <2>6, Zenon DEF RowsFirst
<1>6. QED
  BY <1>3, <1>4, <1>5

\* No step makes a record of a row that was not counted.
LEMMA RowsFirstStep ==
  Types /\ RowsFirst /\ [Next]_vars => RowsFirst'
<1> SUFFICES ASSUME Types, RowsFirst, [Next]_vars PROVE RowsFirst'
  OBVIOUS
<1>1. CASE UNCHANGED <<cfg, pos, scanned, ingested>>
  BY <1>1, FirstRowsStay
<1>2. CASE Read \/ ReadFails
  <2>1. cfg' = cfg /\ pos' <= Len(cfg.lines)
    BY <1>2, ReadEffect DEF ReaderStep
  <2>2. CASE Read
    BY <2>1, <2>2, RowsFirstRead DEF Read, SkipBlank, SkipBad, ReadRecord, SkipDisordered, JoinFrame,
                                   CloseBefore, TakeAhead
  <2>3. CASE ReadFails
    BY <2>1, <2>3, RowsFirstRead DEF ReadFails, InputFails
  <2>4. QED
    BY <1>2, <2>2, <2>3
<1>3. Calm \/ GivesUp \/ TakeGenerated => UNCHANGED <<cfg, pos, scanned, ingested>>
  <2>1. Calm => UNCHANGED <<cfg, pos, scanned, ingested>>
    BY CalmFrame DEF recordVars, ingestVars
  <2>2. GivesUp => UNCHANGED <<cfg, pos, scanned, ingested>>
    BY DEF GivesUp, TimerFires, DomainAborts, StageTrips, ingestVars
  <2>3. TakeGenerated => UNCHANGED <<cfg, pos, scanned, ingested>>
    BY DEF TakeGenerated, ingestVars
  <2>4. QED
    BY <2>1, <2>2, <2>3
<1>4. StageReturns \/ ClassifyReturns \/ SessionReturns => UNCHANGED <<cfg, pos, scanned, ingested>>
  BY StageEffect, ClassifyEffect, SessionEffect DEF InChain, ingestVars
<1>5. GenerateReturns \/ AllGenerated \/ Route \/ BatchEnds \/ StartBatch
        => UNCHANGED <<cfg, pos, scanned, ingested>>
  BY DEF GenerateReturns, AllGenerated, Route, BatchEnds, StartBatch, ingestVars
<1>6. QED
  BY <1>1, <1>2, <1>3, <1>4, <1>5, Steps

\* No more records than rows.
LEMMA UnreadType ==
  ASSUME Types, RowsFirst
  PROVE  Unread \in Nat
<1>1. scanned \in Nat /\ ingested \in Nat /\ pos \in Nat /\ Len(cfg.lines) \in Nat /\ pos <= Len(cfg.lines)
  BY ConfigsAssumption DEF Types, ReaderTypes
<1>2. /\ Cardinality(RowsTo(pos)) \in Nat /\ Cardinality(RowsTo(Len(cfg.lines))) \in Nat
      /\ Cardinality(RowsTo(pos)) <= Cardinality(RowsTo(Len(cfg.lines)))
  BY <1>1, RowsToType
<1>3. Generated => scanned - ingested \in Nat
  BY <1>1, <1>2 DEF RowsFirst
<1>4. QED
  BY <1>3 DEF Unread

-------------------------------------------------------------------------------
(* What is published                                                       *)

\* A step that moves no record and touches no flag changes neither the report nor what is left.
LEMMA ReportStays ==
  ASSUME Types, Types', UNCHANGED recordVars, UNCHANGED <<stop, broken, opened>>
  PROVE  Report' = Report /\ Limbo' = Limbo /\ (Complete' <=> Complete)
<1>1. /\ UNCHANGED <<bad, count, lost, batch, queue, got, ahead, cfg, rejected>>
      /\ Taken' = Taken /\ Unread' = Unread
  BY TakenStays DEF recordVars, ingestVars
<1>2. Residual' = Residual /\ Limbo' = Limbo
  BY <1>1, SidesOf, SidesOfNext
<1>3. Verdict' = Verdict
  BY <1>1 DEF Verdict
<1>4. Report' = Report
  BY <1>1, <1>2, <1>3 DEF Report
<1>5. QED
  BY <1>2, <1>4 DEF Complete

\* When the loop is left without a stop request only batches that were given up are missing.
LEMMA LoopComplete ==
  ASSUME Types, Placed, Excused, LeaveLoop \/ NoMoreBatches
  PROVE  Complete
<1>1. /\ batch = <<>> /\ (~stop => queue = <<>> /\ got = <<>> /\ ahead = 0)
  BY DEF LeaveLoop, NoMoreBatches, Stopped, Placed, Over, Publishing
<1>2. ~stop => Limbo = lost
  <2>1. First(<<>>, 0) = 0
    BY FirstNone
  <2>2. lost \in Int
    BY DEF Types, WorkflowTypes
  <2>3. ~stop => Limbo = (((lost + 0) + 0) + 0) + 0
    BY <1>1, <2>1, SidesOf DEF Held, Ahead
  <2>4. QED
    BY <2>2, <2>3
<1>3. QED
  BY <1>2 DEF Complete, Excused

\* While the outputs are published, and after, nothing else happens.
LEMMA OnlyPublishing ==
  ASSUME Types, [Next]_vars
  PROVE  /\ phase \in Publishing =>
              PublishOutput \/ PublishSidecar \/ PublishReport \/ PublishFails \/ UNCHANGED vars
         /\ phase \in Over => (phase = "close" /\ Exit) \/ UNCHANGED vars
<1> USE DEF Publishing, Over
<1>1. Open \/ OpenFails \/ StartReading \/ LeaveLoop \/ NoMoreBatches \/ StartEmission \/ Resume
        => phase \notin Publishing \cup Over
  BY DEF Open, OpenFails, StartReading, LeaveLoop, NoMoreBatches, StartEmission, Resume
<1>2. EmissionFails \/ RequestStop \/ BreakerOpens \/ StageFails \/ DeliveryEnds
        => phase \notin Publishing \cup Over
  BY DEF EmissionFails, RequestStop, BreakerOpens, StageFails, DeliveryEnds, Waiting
<1>3. GivesUp \/ TakeGenerated \/ StartBatch => phase \notin Publishing \cup Over
  BY OtherEffects DEF GaveUp, TookGenerated, StartedBatch
<1>4. Read \/ ReadFails => phase \notin Publishing \cup Over
  BY ReadEffect DEF ReaderStep
<1>5. StageReturns \/ ClassifyReturns \/ SessionReturns => phase \notin Publishing \cup Over
  BY StageEffect, ClassifyEffect, SessionEffect DEF InChain
<1>6. GenerateReturns \/ AllGenerated \/ Route \/ BatchEnds => phase \notin Publishing \cup Over
  BY GenerateEffect DEF Route, BatchEnds
<1>7. PublishOutput \/ PublishSidecar \/ PublishReport \/ PublishFails => phase \notin Over
  BY DEF PublishOutput, PublishSidecar, PublishReport, PublishFails, Finalize
<1>8. Exit => phase = "close"
  BY DEF Exit
<1>9. QED
  BY <1>1, <1>2, <1>3, <1>4, <1>5, <1>6, <1>7, <1>8, Steps DEF Calm

\* Every step keeps what is published, and what the report and the exit code say of it.
LEMMA PublishedStep ==
  Types /\ Types' /\ Placed /\ Excused /\ Excused' /\ Published /\ [Next]_vars => Published'
<1> SUFFICES ASSUME Types, Types', Placed, Excused, Excused', Published, [Next]_vars
             PROVE  Published'
  OBVIOUS
<1> USE DEF Publishing, Over
<1>1. CASE phase \notin Publishing \cup Over
  <2>1. files.report = {}
    BY <1>1 DEF Excused
  <2>2. /\ phase' \notin {"sidecar", "report"} /\ (phase' \in Over => files' = files)
        /\ (phase' = "finalize" => LeaveLoop \/ NoMoreBatches \/ GivesUp)
        /\ (phase' \in Over /\ cfg'.form = "flat" => code' # 0)
    <3> DEFINE Ok == /\ phase' \notin {"sidecar", "report"} /\ (phase' \in Over => files' = files)
                     /\ (phase' = "finalize" => LeaveLoop \/ NoMoreBatches \/ GivesUp)
                     /\ (phase' \in Over /\ cfg'.form = "flat" => code' # 0)
    <3>1. Open \/ OpenFails \/ StartReading \/ LeaveLoop \/ NoMoreBatches => Ok
      BY DEF Open, OpenFails, StartReading, LeaveLoop, NoMoreBatches, EndsWith, emitterVars, totals
    <3>2. StartEmission \/ Resume \/ RequestStop \/ BreakerOpens \/ UNCHANGED vars => Ok
      BY <1>1 DEF StartEmission, Resume, RequestStop, BreakerOpens, vars, control
    <3>3. EmissionFails \/ StageFails => Ok
      BY DEF EmissionFails, StageFails, EndsWith, WriteFails, emitterVars, totals
    <3>4. DeliveryEnds => Ok
      BY DEF DeliveryEnds, EndsWith, emitterVars, totals, Placed
    <3>5. PublishOutput \/ PublishSidecar \/ PublishReport \/ PublishFails \/ Exit => FALSE
      BY <1>1 DEF PublishOutput, PublishSidecar, PublishReport, PublishFails, Exit, Finalize
    <3>6. Calm => Ok
      BY <3>1, <3>2, <3>3, <3>4, <3>5 DEF Calm
    <3>7. GivesUp \/ TakeGenerated \/ StartBatch => Ok
      BY OtherEffects DEF GaveUp, TookGenerated, StartedBatch
    <3>8. Read \/ ReadFails => Ok
      BY ReadEffect DEF ReaderStep
    <3>9. StageReturns \/ ClassifyReturns \/ SessionReturns => Ok
      BY StageEffect, ClassifyEffect, SessionEffect DEF InChain
    <3>10. GenerateReturns \/ AllGenerated \/ Route \/ BatchEnds => Ok
      BY GenerateEffect DEF Route, BatchEnds, control
    <3>11. QED
      BY <3>6, <3>7, <3>8, <3>9, <3>10, Steps
  <2>3. files'.report = {}
    BY <2>1, <2>2 DEF Excused
  <2>4. phase' = "finalize" => Complete'
    <3>1. ASSUME phase' = "finalize", LeaveLoop \/ NoMoreBatches PROVE Complete'
      <4>1. UNCHANGED recordVars /\ UNCHANGED <<stop, broken, opened>>
        BY <3>1, CalmFrame DEF Calm, LeaveLoop, NoMoreBatches
      <4>2. QED
        BY <3>1, <4>1, ReportStays, LoopComplete
    <3>2. ASSUME phase' = "finalize", GivesUp PROVE Complete'
      BY <3>2, OtherEffects DEF GaveUp, Complete
    <3>3. QED
      BY <2>2, <3>1, <3>2
  <2>5. QED
    BY <2>2, <2>3, <2>4 DEF Published
<1>2. CASE phase \in Publishing
  <2>1. files.report = {} /\ ~undeliverable /\ Complete /\ gone = {} /\ cursor = 0
    BY <1>2 DEF Excused, Published, Placed
  <2>2. DOMAIN files = {"output", "sidecar", "report"}
    BY DEF Types, FlagTypes
  <2>3. CASE UNCHANGED vars
    <3>1. UNCHANGED recordVars /\ UNCHANGED <<stop, broken, opened, phase, code, files, fatal>>
      BY <2>3, CalmFrame DEF Calm, vars, control, emitterVars, totals
    <3>2. UNCHANGED <<main, side, cfg>>
      BY <3>1 DEF recordVars, rows
    <3>3. Complete'
      BY <2>1, <3>1, ReportStays
    <3>4. QED
      BY <1>2, <2>1, <3>1, <3>2, <3>3 DEF Published
  <2>4. CASE PublishFails
    <3>1. phase' = "close" /\ code' # 0 /\ files' = files
      BY <2>4 DEF PublishFails, EndsWith, emitterVars, totals
    <3>2. QED
      BY <2>1, <3>1 DEF Published
  <2>5. ASSUME PublishOutput \/ PublishSidecar \/ PublishReport
        PROVE  /\ UNCHANGED <<recordVars, stop, broken, opened, main, side, cfg, gone, cursor>>
               /\ UNCHANGED undeliverable /\ Complete' /\ Report' = Report
    <3>1. UNCHANGED recordVars
      BY <2>5, CalmFrame DEF Calm
    <3>2. UNCHANGED <<stop, broken, opened, undeliverable>>
      BY <2>5 DEF PublishOutput, PublishSidecar, PublishReport, Finalize, Publish
    <3>3. QED
      BY <2>1, <3>1, <3>2, ReportStays DEF recordVars, rows
  <2>6. CASE PublishOutput
    <3>1. /\ files' = [files EXCEPT !["output"] = {main}]
          /\ phase' = IF cfg.sidecar THEN "sidecar" ELSE "report"
      BY <2>6 DEF PublishOutput, Finalize, Publish
    <3>2. files'.output = {main} /\ files'.report = {}
      BY <2>1, <2>2, <3>1
    <3>3. QED
      BY <2>5, <2>6, <3>1, <3>2 DEF Published
  <2>7. CASE PublishSidecar
    <3>1. files' = [files EXCEPT !["sidecar"] = {side}] /\ phase = "sidecar" /\ phase' = "report"
      BY <2>7 DEF PublishSidecar, Finalize, Publish
    <3>2. files'.output = {main} /\ files'.sidecar = {side} /\ files'.report = {}
      BY <2>1, <2>2, <3>1 DEF Published
    <3>3. QED
      BY <2>5, <2>7, <3>1, <3>2 DEF Published
  <2>8. CASE PublishReport
    <3>1. /\ files' = [files EXCEPT !["report"] = {Report}] /\ phase = "report" /\ phase' = "close"
          /\ code' = Verdict
      BY <2>8 DEF PublishReport, Finalize, Publish
    <3>2. /\ files'.output = {main} /\ (cfg.sidecar => files'.sidecar = {side})
          /\ files'.report = {Report}
      BY <2>2, <3>1 DEF Published
    <3>3. Report.exit_code = Verdict
      BY DEF Report
    <3>4. QED
      BY <2>1, <2>5, <2>8, <3>1, <3>2, <3>3 DEF Published
  <2>9. QED
    BY <1>2, <2>3, <2>4, <2>6, <2>7, <2>8, OnlyPublishing
<1>3. CASE phase \in Over
  <2>1. Exit \/ UNCHANGED vars
    BY <1>3, OnlyPublishing
  <2>2. UNCHANGED recordVars /\ UNCHANGED <<stop, broken, opened, files, fatal, undeliverable>>
    <3>1. UNCHANGED recordVars
      BY <2>1, CalmFrame DEF Calm
    <3>2. UNCHANGED <<stop, broken, opened, files, fatal, undeliverable>>
      BY <2>1 DEF Exit, vars, control, emitterVars, totals
    <3>3. QED
      BY <3>1, <3>2
  <2>3. UNCHANGED <<main, side, cfg, gone, cursor>> /\ Report' = Report /\ (Complete' <=> Complete)
    BY <2>2, ReportStays DEF recordVars, rows
  <2>4. CASE Exit
    <3>1. /\ phase = "close" /\ phase' = "exited" /\ (code' = 0 => code = 0 /\ ~fatal)
      BY <2>4 DEF Exit
    <3>2. QED
      BY <2>2, <2>3, <3>1 DEF Published
  <2>5. CASE UNCHANGED vars
    <3>1. UNCHANGED <<phase, code>>
      BY <2>5 DEF vars, control
    <3>2. QED
      BY <1>3, <2>2, <2>3, <3>1 DEF Published
  <2>6. QED
    BY <2>1, <2>4, <2>5
<1>4. QED
  BY <1>1, <1>2, <1>3

-------------------------------------------------------------------------------
(* Identities                                                              *)

\* Identities that were given to no record are not known, and those that were stay so.
LEMMA KnownFacts ==
  ASSUME Types
  PROVE  /\ pos \in Nat /\ next \in Nat /\ Len(cfg.lines) \in Nat /\ pos <= Len(cfg.lines)
         /\ Len(cfg.lines) < next /\ ahead \in 0 .. pos /\ 0 \notin Known
         /\ \A i \in Int : i \in Known <=> (1 <= i /\ i <= pos) \/ (Len(cfg.lines) < i /\ i < next)
         /\ Spent \subseteq Nat
<1>1. cfg.lines \in Seq(Line)
  BY ConfigsAssumption DEF Types, ReaderTypes
<1>2. /\ pos \in Nat /\ next \in Nat /\ Len(cfg.lines) \in Nat /\ pos <= Len(cfg.lines)
      /\ Len(cfg.lines) < next /\ ahead \in 0 .. pos
  BY <1>1 DEF Types, ReaderTypes, WorkflowTypes
<1>3. \A i \in Int : i \in Known <=> (1 <= i /\ i <= pos) \/ (Len(cfg.lines) < i /\ i < next)
  BY <1>2 DEF Known
<1>4. Spent \subseteq Nat
  BY DEF Types, EmitterTypes, Spent, ToSet
<1>5. QED
  BY <1>2, <1>3, <1>4

\* The records of a batch, of the reader and of the rows: as the invariant has them.
LEMMA DistinctSame ==
  ASSUME Types, Distinct, UNCHANGED <<main, rejects, batch, cursor, got, ahead, pos, cfg>>,
         next' \in Nat, next <= next'
  PROVE  Distinct'
<1>1. Known \subseteq Known' /\ Spent' = Spent
  BY KnownFacts DEF Known, Spent
<1>2. QED
  BY <1>1 DEF Distinct

\* A batch without records.
LEMMA DistinctEmpty ==
  ASSUME Types, Distinct, UNCHANGED <<main, rejects, got, ahead, pos, cfg, next>>, batch' = <<>>
  PROVE  Distinct'
<1>1. Known' = Known /\ Spent' = Spent /\ DOMAIN batch' = {}
  BY DEF Known, Spent
<1>2. QED
  BY <1>1 DEF Distinct

\* A batch of records that waited.
LEMMA DistinctTaken ==
  ASSUME Types, Placed, Distinct, QueueDistinct, TookGenerated
  PROVE  Distinct' /\ QueueDistinct'
<1>1. /\ UNCHANGED <<main, rejects, got, ahead, pos, cfg, next, cursor>> /\ cursor = 0
      /\ batch' = Head(queue) /\ queue' = Tail(queue) /\ queue # <<>> /\ queue \in Seq(Seq(Record))
  BY DEF TookGenerated, ingestVars, emitterVars, rows, Placed, Over, Types, WorkflowTypes
<1>2. /\ batch' = queue[1] /\ 1 \in DOMAIN queue /\ Known' = Known /\ Spent' = Spent
      /\ \A k \in DOMAIN queue' : k \in Nat \ {0} /\ k + 1 \in DOMAIN queue /\ queue'[k] = queue[k + 1]
  BY <1>1 DEF Known, Spent
<1>3. ASSUME NEW k \in DOMAIN queue, NEW i \in DOMAIN queue[k]
      PROVE  queue[k][i].id \in Known /\ queue[k][i].id # ahead /\ queue[k][i].id \notin Spent
  <2>1. queue[k][i].id \in Len(cfg.lines) + 1 .. next - 1 /\ queue[k][i].id \notin Spent
    BY DEF QueueDistinct
  <2>2. QED
    BY <2>1, KnownFacts DEF Known
<1>4. Apart(queue)
  BY DEF QueueDistinct
<1>5. Distinct'
  <2>1. \A i \in DOMAIN batch' :
          /\ batch'[i].id \in Known' /\ batch'[i].id # ahead' /\ batch'[i].id \notin Spent'
    BY <1>1, <1>2, <1>3
  <2>2. \A i, j \in DOMAIN batch' : batch'[i].id = batch'[j].id => i = j
    BY <1>2, <1>4 DEF Apart
  <2>3. QED
    BY <1>1, <1>2, <2>1, <2>2 DEF Distinct
<1>6. QueueDistinct'
  <2>1. ASSUME NEW k \in DOMAIN queue', NEW i \in DOMAIN queue'[k]
        PROVE  /\ queue'[k][i].id \in Len(cfg'.lines) + 1 .. next' - 1
               /\ queue'[k][i].id \notin Spent'
               /\ \A j \in DOMAIN batch' : batch'[j].id # queue'[k][i].id
    <3>1. k + 1 \in DOMAIN queue /\ queue'[k] = queue[k + 1] /\ k + 1 # 1
      BY <1>2
    <3>2. queue[k + 1][i].id \in Len(cfg.lines) + 1 .. next - 1 /\ queue[k + 1][i].id \notin Spent
      BY <3>1 DEF QueueDistinct
    <3>3. \A j \in DOMAIN queue[1] : queue[1][j].id # queue[k + 1][i].id
      BY <1>2, <1>4, <3>1 DEF Apart
    <3>4. QED
      BY <1>1, <1>2, <3>1, <3>2, <3>3
  <2>2. Apart(queue')
    <3>1. ASSUME NEW k \in DOMAIN queue', NEW l \in DOMAIN queue', NEW i \in DOMAIN queue'[k],
                 NEW j \in DOMAIN queue'[l], queue'[k][i].id = queue'[l][j].id
          PROVE  k = l /\ i = j
      <4>1. k + 1 = l + 1 /\ i = j
        BY <1>2, <1>4, <3>1 DEF Apart
      <4>2. QED
        BY <1>2, <4>1
    <3>2. QED
      BY <3>1 DEF Apart
  <2>3. QED
    BY <2>1, <2>2 DEF QueueDistinct
<1>7. QED
  BY <1>5, <1>6

\* Lines that are read have new identities.
LEMMA DistinctRead ==
  ASSUME Types, Placed, Distinct, ReaderStep
  PROVE  Distinct'
<1>1. /\ UNCHANGED <<main, rejects, batch, cursor, cfg, next>> /\ batch = <<>> /\ Spent' = Spent
      /\ pos' <= Len(cfg.lines)
  BY DEF ReaderStep, rows, Placed, Over, Spent
<1>2. /\ got \in Seq(Nat) /\ \A i \in DOMAIN got : got[i] \in 1 .. pos
  BY DEF Types, ReaderTypes
<1>3. \A i \in Int : i \in Spent => i <= pos \/ i > Len(cfg.lines)
  BY KnownFacts DEF Distinct
<1>4. pos' \in {pos, pos + 1} /\ Known \subseteq Known'
  <2>1. pos' \in {pos, pos + 1}
    BY DEF ReaderStep, Skips, Joins, Closing, Opens
  <2>2. QED
    BY <1>1, <2>1, KnownFacts DEF Known
<1>5. 0 \notin Spent
  BY KnownFacts DEF Distinct
<1>6. CASE Skips
  BY <1>1, <1>4, <1>6 DEF Skips, Distinct
<1>7. CASE Joins
  <2>1. got' = Append(got, pos + 1) /\ pos' = pos + 1 /\ ahead' = ahead
    BY <1>7 DEF Joins
  <2>2. pos + 1 \notin Spent /\ pos + 1 # ahead
    BY <1>1, <1>3, <2>1, KnownFacts
  <2>3. \A i \in DOMAIN got' : got'[i] \notin Spent' /\ got'[i] # ahead'
    BY <1>1, <1>2, <2>1, <2>2 DEF Distinct
  <2>4. \A i, j \in DOMAIN got' : got'[i] = got'[j] => i = j
    <3>1. \A i \in DOMAIN got : got[i] # pos + 1
      BY <1>2, KnownFacts
    <3>2. QED
      BY <1>2, <2>1, <3>1 DEF Distinct
  <2>5. QED
    BY <1>1, <1>4, <2>1, <2>3, <2>4 DEF Distinct
<1>8. CASE Closing
  <2>1. got' = got /\ pos' = pos + 1 /\ ahead' = pos + 1
    BY <1>8 DEF Closing
  <2>2. pos + 1 \notin Spent
    BY <1>1, <1>3, <2>1, KnownFacts
  <2>3. \A i \in DOMAIN got : got[i] # pos + 1
    BY <1>2, KnownFacts
  <2>4. QED
    BY <1>1, <1>4, <2>1, <2>2, <2>3 DEF Distinct
<1>9. CASE Opens
  <2>1. got' = <<ahead>> /\ ahead' = 0 /\ ahead # 0 /\ DOMAIN got' = {1}
    BY <1>9 DEF Opens
  <2>2. QED
    BY <1>1, <1>4, <1>5, <2>1 DEF Distinct
<1>10. QED
  BY <1>6, <1>7, <1>8, <1>9 DEF ReaderStep

\* A batch of records that were read.
LEMMA DistinctStarted ==
  ASSUME Types, Placed, Distinct, StartedBatch
  PROVE  Distinct'
<1>1. /\ UNCHANGED <<main, rejects, cursor, cfg, next, pos, ahead>> /\ cursor = 0
      /\ Spent' = Spent /\ Known' = Known /\ got' = <<>>
  BY DEF StartedBatch, emitterVars, rows, Placed, Over, Spent, Known
<1>2. /\ got \in Seq(Nat) /\ \A i \in DOMAIN got : got[i] \in 1 .. pos
  BY DEF Types, ReaderTypes
<1>3. DOMAIN batch' = DOMAIN got /\ \A i \in DOMAIN got : batch'[i].id = got[i]
  BY <1>2 DEF StartedBatch
<1>4. \A i \in DOMAIN got : got[i] \in Known
  BY <1>2 DEF Known
<1>5. QED
  BY <1>1, <1>3, <1>4 DEF Distinct

\* Records that a stage adds to a batch.
LEMMA DistinctGrew ==
  ASSUME Types, Placed, Distinct, QueueDistinct, NEW n \in Nat, Grew(n), InChain
  PROVE  Distinct' /\ QueueDistinct'
<1>1. /\ UNCHANGED <<main, rejects, got, ahead, pos, cfg, cursor, queue>> /\ cursor = 0
      /\ Spent' = Spent
  BY DEF InChain, ingestVars, emitterVars, rows, Placed, Over, Spent
<1>2. /\ batch \in Seq(Record) /\ DOMAIN batch = 1 .. Len(batch) /\ Len(batch) \in Nat
      /\ batch' \in Seq(Record) /\ DOMAIN batch' = 1 .. (Len(batch) + n) /\ next' = next + n
      /\ \A i \in 1 .. Len(batch) : batch'[i].id = batch[i].id
      /\ \A i \in 1 .. n : batch'[Len(batch) + i].id = next + i - 1
  BY DEF Grew, Types, EmitterTypes
<1>3. Known \subseteq Known'
  BY <1>1, <1>2, KnownFacts DEF Known
<1>4. ASSUME NEW i \in DOMAIN batch'
      PROVE  \/ i \in DOMAIN batch /\ batch'[i].id = batch[i].id
             \/ i \notin DOMAIN batch /\ batch'[i].id = next + (i - Len(batch)) - 1
                  /\ i - Len(batch) \in 1 .. n
  <2>1. CASE i \in DOMAIN batch
    BY <1>2, <2>1
  <2>2. CASE i \notin DOMAIN batch
    <3>1. i - Len(batch) \in 1 .. n /\ Len(batch) + (i - Len(batch)) = i
      BY <1>2, <2>2
    <3>2. PICK k \in 1 .. n : k = i - Len(batch)
      BY <3>1
    <3>3. batch'[Len(batch) + k].id = next + k - 1
      BY <1>2
    <3>4. QED
      BY <2>2, <3>1, <3>2, <3>3
  <2>3. QED
    BY <2>1, <2>2
<1>5. ASSUME NEW i \in DOMAIN batch', i \notin DOMAIN batch
      PROVE  /\ batch'[i].id \in Int /\ batch'[i].id >= next /\ batch'[i].id < next'
             /\ batch'[i].id \notin Known /\ batch'[i].id \notin Spent
             /\ batch'[i].id # ahead /\ batch'[i].id \in Known'
  <2>0. next \in Nat /\ next' = next + n /\ Len(cfg.lines) \in Nat /\ Len(cfg.lines) < next
    BY <1>2, KnownFacts
  <2>1. /\ batch'[i].id \in Int /\ batch'[i].id >= next /\ batch'[i].id < next'
    <3>1. batch'[i].id = next + (i - Len(batch)) - 1 /\ i - Len(batch) \in 1 .. n
      BY <1>4, <1>5
    <3>2. PICK k \in 1 .. n : k = i - Len(batch)
      BY <3>1
    <3>3. batch'[i].id = next + k - 1
      BY <3>1, <3>2
    <3>4. QED
      BY ONLY <2>0, <3>3, n \in Nat, k \in 1 .. n
  <2>2. batch'[i].id \notin Known /\ batch'[i].id # ahead
    BY <2>1, KnownFacts
  <2>3. batch'[i].id \notin Spent
    BY <2>2 DEF Distinct
  <2>4. batch'[i].id \in Known'
    <3>1. PICK e : e = batch'[i].id
      OBVIOUS
    <3>2. e \in Len(cfg.lines) + 1 .. next' - 1
      BY ONLY <2>0, <2>1, <3>1, n \in Nat
    <3>3. QED
      BY <1>1, <3>1, <3>2 DEF Known
  <2>5. QED
    BY <2>1, <2>2, <2>3, <2>4
<1>6. Distinct'
  <2>1. \A i \in DOMAIN batch' :
          batch'[i].id \in Known' /\ batch'[i].id # ahead' /\ batch'[i].id \notin Spent'
    BY <1>1, <1>2, <1>3, <1>4, <1>5 DEF Distinct
  <2>2. \A i, j \in DOMAIN batch' : batch'[i].id = batch'[j].id => i = j
    <3>1. ASSUME NEW i \in DOMAIN batch', NEW j \in DOMAIN batch', batch'[i].id = batch'[j].id
          PROVE  i = j
      <4>1. CASE i \in DOMAIN batch /\ j \in DOMAIN batch
        BY <1>2, <3>1, <4>1 DEF Distinct
      <4>2. CASE i \in DOMAIN batch /\ j \notin DOMAIN batch
        <5>1. batch[i].id \in Known /\ batch'[i].id = batch[i].id /\ batch'[j].id \notin Known
          BY <1>2, <1>5, <4>2 DEF Distinct
        <5>2. QED
          BY <3>1, <5>1
      <4>3. CASE i \notin DOMAIN batch /\ j \in DOMAIN batch
        <5>1. batch[j].id \in Known /\ batch'[j].id = batch[j].id /\ batch'[i].id \notin Known
          BY <1>2, <1>5, <4>3 DEF Distinct
        <5>2. QED
          BY <3>1, <5>1
      <4>4. CASE i \notin DOMAIN batch /\ j \notin DOMAIN batch
        <5>1. /\ batch'[i].id = next + (i - Len(batch)) - 1
              /\ batch'[j].id = next + (j - Len(batch)) - 1
          BY <1>4, <4>4
        <5>2. next \in Int /\ Len(batch) \in Int /\ i \in Int /\ j \in Int
          BY <1>2, KnownFacts
        <5>3. next + (i - Len(batch)) - 1 = next + (j - Len(batch)) - 1
          BY <3>1, <5>1
        <5>4. QED
          BY ONLY <5>2, <5>3
      <4>5. QED
        BY <4>1, <4>2, <4>3, <4>4
    <3>2. QED
      BY <3>1
  <2>3. QED
    BY <1>1, <1>3, <2>1, <2>2 DEF Distinct
<1>7. QueueDistinct'
  <2>1. ASSUME NEW k \in DOMAIN queue, NEW i \in DOMAIN queue[k]
        PROVE  /\ queue[k][i].id \in Len(cfg.lines) + 1 .. next' - 1
               /\ \A j \in DOMAIN batch' : batch'[j].id # queue[k][i].id
    <3>1. /\ queue[k][i].id \in Len(cfg.lines) + 1 .. next - 1
          /\ \A j \in DOMAIN batch : batch[j].id # queue[k][i].id
      BY DEF QueueDistinct
    <3>2. ASSUME NEW j \in DOMAIN batch' PROVE batch'[j].id # queue[k][i].id
      <4>1. CASE j \in DOMAIN batch
        BY <1>2, <3>1, <4>1
      <4>2. CASE j \notin DOMAIN batch
        <5>1. batch'[j].id >= next /\ batch'[j].id \in Int
          BY <1>5, <4>2
        <5>2. QED
          BY <3>1, <5>1, KnownFacts
      <4>3. QED
        BY <4>1, <4>2
    <3>3. next \in Nat /\ next' = next + n /\ Len(cfg.lines) \in Nat
      BY <1>2, KnownFacts
    <3>4. queue[k][i].id \in Len(cfg.lines) + 1 .. next' - 1
      BY ONLY <3>1, <3>3, n \in Nat
    <3>5. QED
      BY <3>2, <3>4
  <2>2. QED
    BY <1>1, <2>1 DEF QueueDistinct
<1>8. QED
  BY <1>6, <1>7

\* Records that are generated.
LEMMA DistinctQueued ==
  ASSUME Types, Distinct, QueueDistinct, NEW n \in Nat, QueueGrew(n),
         UNCHANGED <<ingestVars, cfg, batch, emitterVars>>
  PROVE  Distinct' /\ QueueDistinct'
<1>1. /\ UNCHANGED <<main, rejects, got, ahead, pos, cfg, cursor, batch>> /\ Spent' = Spent
  BY DEF ingestVars, emitterVars, rows, Spent
<1>2. next' = next + n /\ next' \in Nat /\ next <= next'
  BY KnownFacts DEF QueueGrew
<1>3. Distinct'
  BY <1>1, <1>2, DistinctSame
<1>4. ASSUME NEW k \in DOMAIN queue', NEW i \in DOMAIN queue'[k]
      PROVE  /\ k \in DOMAIN queue =>
                  queue'[k] = queue[k] /\ queue'[k][i].id \in Len(cfg.lines) + 1 .. next - 1
             /\ k \notin DOMAIN queue => queue'[k][i].id \in next .. next' - 1
             /\ queue'[k][i].id \in Len(cfg.lines) + 1 .. next' - 1
             /\ queue'[k][i].id \notin Spent
             /\ \A j \in DOMAIN batch : batch[j].id # queue'[k][i].id
  <2>1. CASE k \in DOMAIN queue
    <3>1. queue'[k] = queue[k]
      BY <2>1 DEF QueueGrew
    <3>2. /\ queue[k][i].id \in Len(cfg.lines) + 1 .. next - 1 /\ queue[k][i].id \notin Spent
          /\ \A j \in DOMAIN batch : batch[j].id # queue[k][i].id
      BY <2>1, <3>1 DEF QueueDistinct
    <3>3. QED
      BY <1>2, <2>1, <3>1, <3>2, KnownFacts
  <2>2. CASE k \notin DOMAIN queue
    <3>1. queue'[k][i].id \in next .. next' - 1
      BY <2>2 DEF QueueGrew
    <3>2. queue'[k][i].id \notin Known
      BY <1>2, <3>1, KnownFacts
    <3>3. QED
      BY <1>2, <2>2, <3>1, <3>2, KnownFacts DEF Distinct
  <2>3. QED
    BY <2>1, <2>2
<1>5. Apart(queue')
  <2>1. ASSUME NEW k \in DOMAIN queue', NEW l \in DOMAIN queue', NEW i \in DOMAIN queue'[k],
               NEW j \in DOMAIN queue'[l], queue'[k][i].id = queue'[l][j].id
        PROVE  k = l /\ i = j
    <3>1. CASE k \in DOMAIN queue /\ l \in DOMAIN queue
      <4>1. queue'[k] = queue[k] /\ queue'[l] = queue[l] /\ Apart(queue)
        BY <3>1 DEF QueueGrew, QueueDistinct
      <4>2. QED
        BY <2>1, <3>1, <4>1 DEF Apart
    <3>2. CASE k \notin DOMAIN queue /\ l \notin DOMAIN queue
      BY <2>1, <3>2 DEF QueueGrew
    <3>3. CASE \/ k \in DOMAIN queue /\ l \notin DOMAIN queue
               \/ k \notin DOMAIN queue /\ l \in DOMAIN queue
      BY <1>2, <1>4, <2>1, <3>3, KnownFacts
    <3>4. QED
      BY <3>1, <3>2, <3>3
  <2>2. QED
    BY <2>1 DEF Apart
<1>6. QED
  BY <1>1, <1>3, <1>4, <1>5 DEF QueueDistinct

\* A record that is routed gets its rows, and keeps its identity.
LEMMA DistinctRouted ==
  ASSUME Types, Placed, Distinct, QueueDistinct, RouteStep
  PROVE  Distinct' /\ QueueDistinct'
<1>1. /\ UNCHANGED <<got, ahead, pos, cfg, next, queue>> /\ Known' = Known /\ got = <<>>
      /\ cursor' = cursor + 1 /\ cursor \in Nat /\ cursor + 1 \in DOMAIN batch
      /\ DOMAIN batch' = DOMAIN batch /\ \A i \in DOMAIN batch : batch'[i].id = batch[i].id
      /\ DOMAIN batch = 1 .. Len(batch)
  BY DEF RouteStep, ingestVars, control, Known, Placed, Over, Publishing, Types, EmitterTypes
<1>2. PICK e \in Nat : e = Item.id /\ e = batch[cursor + 1].id
  BY DEF RouteStep
<1>3. Spent' \subseteq Spent \cup {e}
  <2>1. main \in Seq(Nat) /\ rejects \in Seq(Nat)
    BY DEF Types, EmitterTypes
  <2>2. /\ ToSet(Append(main, e)) = ToSet(main) \cup {e}
        /\ ToSet(Append(rejects, e)) = ToSet(rejects) \cup {e}
    BY ONLY <2>1, e \in Nat, IdAppended
  <2>3. main' \in {main, Append(main, e)} /\ rejects' \in {rejects, Append(rejects, e)}
    BY <1>2 DEF RouteStep, WaySilent, WayReject, WayMain, WayHalf, RejectRow
  <2>4. QED
    BY <2>2, <2>3 DEF Spent
<1>4. e \in Known /\ e # ahead /\ \A i \in DOMAIN batch : i > cursor + 1 => batch[i].id # e
  BY <1>1, <1>2 DEF Distinct
<1>5. Distinct'
  <2>1. Spent' \subseteq Known' /\ ahead' \notin Spent'
    BY <1>1, <1>3, <1>4 DEF Distinct
  <2>2. ASSUME NEW i \in DOMAIN batch', i > cursor' PROVE batch'[i].id \notin Spent'
    <3>1. i \in DOMAIN batch /\ i > cursor /\ i > cursor + 1 /\ batch'[i].id = batch[i].id
      BY <1>1, <2>2
    <3>2. batch[i].id \notin Spent /\ batch[i].id # e
      BY <1>4, <3>1 DEF Distinct
    <3>3. QED
      BY <1>3, <3>1, <3>2
  <2>3. \A i \in DOMAIN batch' : batch'[i].id \in Known' /\ batch'[i].id # ahead'
    BY <1>1 DEF Distinct
  <2>4. \A i, j \in DOMAIN batch' : batch'[i].id = batch'[j].id => i = j
    BY <1>1 DEF Distinct
  <2>5. DOMAIN got' = {}
    BY <1>1
  <2>6. QED
    BY <2>1, <2>2, <2>3, <2>4, <2>5 DEF Distinct
<1>6. QueueDistinct'
  <2>1. ASSUME NEW k \in DOMAIN queue, NEW i \in DOMAIN queue[k]
        PROVE  /\ queue[k][i].id \notin Spent'
               /\ \A j \in DOMAIN batch' : batch'[j].id # queue[k][i].id
    <3>1. /\ queue[k][i].id \notin Spent /\ \A j \in DOMAIN batch : batch[j].id # queue[k][i].id
      BY DEF QueueDistinct
    <3>2. queue[k][i].id # e
      BY <1>1, <1>2, <3>1
    <3>3. QED
      BY <1>1, <1>3, <3>1, <3>2
  <2>2. QED
    BY <1>1, <2>1 DEF QueueDistinct
<1>7. QED
  BY <1>5, <1>6

\* Every step keeps the identities apart.
LEMMA DistinctStep ==
  Types /\ Placed /\ Distinct /\ QueueDistinct /\ [Next]_vars => Distinct' /\ QueueDistinct'
<1> SUFFICES ASSUME Types, Placed, Distinct, QueueDistinct, [Next]_vars
             PROVE  Distinct' /\ QueueDistinct'
  OBVIOUS
<1>1. CASE Calm
  <2>1. UNCHANGED <<main, rejects, batch, cursor, got, ahead, pos, cfg, next, queue>>
    BY <1>1, CalmFrame DEF recordVars, rows, ingestVars
  <2>2. next' \in Nat /\ next <= next' /\ Spent' = Spent
    BY <2>1, KnownFacts DEF Spent
  <2>3. QED
    BY <2>1, <2>2, DistinctSame DEF QueueDistinct
<1>2. CASE GivesUp \/ BatchEnds
  <2>1. UNCHANGED <<main, rejects, got, ahead, pos, cfg, next, queue>> /\ batch' = <<>>
    BY <1>2, OtherEffects DEF GaveUp, BatchEnds, Flush, ingestVars, emitterVars, rows
  <2>2. Spent' = Spent /\ DOMAIN batch' = {}
    BY <2>1 DEF Spent
  <2>3. QED
    BY <2>1, <2>2, DistinctEmpty DEF QueueDistinct
<1>3. CASE TakeGenerated
  BY <1>3, OtherEffects, DistinctTaken
<1>4. CASE Read \/ ReadFails
  <2>1. ReaderStep
    BY <1>4, ReadEffect
  <2>2. UNCHANGED <<main, rejects, batch, cfg, next, queue>> /\ Spent' = Spent
    BY <2>1 DEF ReaderStep, rows, Spent
  <2>3. QED
    BY <2>1, <2>2, DistinctRead DEF QueueDistinct
<1>5. CASE StartBatch
  <2>1. queue' = <<>>
    BY <1>5, OtherEffects DEF StartedBatch, Placed
  <2>2. DOMAIN queue' = {}
    BY <2>1
  <2>3. QueueDistinct'
    BY <2>2 DEF QueueDistinct, Apart
  <2>4. QED
    BY <1>5, <2>3, OtherEffects, DistinctStarted
<1>6. CASE StageReturns \/ ClassifyReturns \/ SessionReturns
  <2>1. PICK n \in Nat : InChain /\ Grew(n)
    <3>1. \A n, s \in Nat : n + s \in Nat
      OBVIOUS
    <3>2. QED
      BY <1>6, <3>1, StageEffect, ClassifyEffect, SessionEffect
  <2>2. QED
    BY <2>1, DistinctGrew
<1>7. CASE GenerateReturns \/ AllGenerated
  <2>1. PICK n \in Nat : QueueGrew(n) /\ UNCHANGED <<ingestVars, cfg, batch, emitterVars>>
    BY <1>7, GenerateEffect
  <2>2. QED
    BY <2>1, DistinctQueued
<1>8. CASE Route
  BY <1>8, RouteEffect, DistinctRouted
<1>9. QED
  BY <1>1, <1>2, <1>3, <1>4, <1>5, <1>6, <1>7, <1>8, Steps

-------------------------------------------------------------------------------
(* Rows                                                                    *)

\* A row that is new keeps the order of the two files.
LEMMA OrderKept ==
  ASSUME NEW m \in Seq(Nat), NEW d \in Seq(Nat), NEW e \in Nat, e \notin ToSet(m),
         ToSet(d) \subseteq ToSet(m),
         \A i, j \in DOMAIN d, k, l \in DOMAIN m : m[k] = d[i] /\ m[l] = d[j] /\ i < j => k < l
  PROVE  LET m2 == Append(m, e)
             d2 == Append(d, e)
         IN /\ \A i, j \in DOMAIN d, k, l \in DOMAIN m2 :
                 m2[k] = d[i] /\ m2[l] = d[j] /\ i < j => k < l
            /\ \A i, j \in DOMAIN d2, k, l \in DOMAIN m2 :
                 m2[k] = d2[i] /\ m2[l] = d2[j] /\ i < j => k < l
<1> DEFINE m2 == Append(m, e)
           d2 == Append(d, e)
<1>1. /\ DOMAIN m2 = DOMAIN m \cup {Len(m) + 1}
      /\ \A k \in DOMAIN m : m2[k] = m[k] /\ k \in Nat /\ k <= Len(m)
      /\ m2[Len(m) + 1] = e /\ Len(m) \in Nat
  OBVIOUS
<1>2. /\ DOMAIN d2 = DOMAIN d \cup {Len(d) + 1}
      /\ \A i \in DOMAIN d : d2[i] = d[i] /\ i \in Nat /\ i <= Len(d)
      /\ d2[Len(d) + 1] = e /\ Len(d) \in Nat
  OBVIOUS
<1> HIDE DEF m2, d2
<1>3. \A i \in DOMAIN d : d[i] # e
  BY DEF ToSet
<1>4. ASSUME NEW i \in DOMAIN d, NEW k \in DOMAIN m2, m2[k] = d[i]
      PROVE  k \in DOMAIN m /\ m[k] = d[i]
  BY <1>1, <1>3, <1>4
<1>5. ASSUME NEW i \in DOMAIN d, NEW j \in DOMAIN d, NEW k \in DOMAIN m2, NEW l \in DOMAIN m2,
             m2[k] = d[i], m2[l] = d[j], i < j
      PROVE  k < l
  BY <1>4, <1>5
<1>6. \A i \in DOMAIN d, j \in DOMAIN d2 : i < j \/ j \in DOMAIN d
  BY <1>2
<1>7. ASSUME NEW i \in DOMAIN d2, NEW j \in DOMAIN d2, NEW k \in DOMAIN m2, NEW l \in DOMAIN m2,
             m2[k] = d2[i], m2[l] = d2[j], i < j
      PROVE  k < l
  <2>1. CASE i \in DOMAIN d /\ j \in DOMAIN d
    BY <1>2, <1>5, <1>7, <2>1
  <2>2. CASE i \in DOMAIN d /\ j \notin DOMAIN d
    <3>1. d2[j] = e /\ k \in DOMAIN m
      BY <1>2, <1>4, <1>7, <2>2
    <3>2. l \notin DOMAIN m
      BY <1>1, <1>7, <3>1 DEF ToSet
    <3>3. QED
      BY <1>1, <3>1, <3>2
  <2>3. CASE i \notin DOMAIN d
    BY <1>2, <1>7, <2>3
  <2>4. QED
    BY <2>1, <2>2, <2>3
<1>8. QED
  BY <1>5, <1>7 DEF m2, d2

\* Routing a record keeps the rows of every file apart and in order.
LEMMA RowsRouted ==
  ASSUME Types, Distinct, RowsUnique, RouteStep
  PROVE  RowsUnique'
<1>1. PICK e \in Nat : e = Item.id /\ e = batch[cursor + 1].id
  BY DEF RouteStep
<1>2. /\ main \in Seq(Nat) /\ side \in Seq(Nat) /\ rejects \in Seq(Nat) /\ halves \subseteq ToSet(main)
      /\ cfg' = cfg
  BY DEF Types, EmitterTypes, RouteStep
<1>3. e \notin ToSet(main) /\ e \notin ToSet(rejects)
  <2>1. cursor + 1 \in DOMAIN batch /\ cursor \in Nat
    BY DEF RouteStep, Types, EmitterTypes
  <2>2. cursor + 1 > cursor
    BY <2>1
  <2>3. QED
    BY <1>1, <2>1, <2>2 DEF Distinct, Spent
<1>4. /\ IsInjective(main) /\ IsInjective(rejects) /\ ToSet(main) \cap ToSet(rejects) \subseteq halves
      /\ cfg.sidecar => IsInjective(side) /\ ToSet(side) = ToSet(main) \ halves /\ SameOrder
  BY DEF RowsUnique
<1>5. /\ IsInjective(Append(main, e)) /\ ToSet(Append(main, e)) = ToSet(main) \cup {e}
      /\ IsInjective(Append(rejects, e)) /\ ToSet(Append(rejects, e)) = ToSet(rejects) \cup {e}
      /\ ToSet(Append(side, e)) = ToSet(side) \cup {e}
      /\ cfg.sidecar => IsInjective(Append(side, e))
  <2>1. IsInjective(Append(main, e)) /\ ToSet(Append(main, e)) = ToSet(main) \cup {e}
    BY <1>2, <1>3, <1>4, RowAppended
  <2>2. IsInjective(Append(rejects, e)) /\ ToSet(Append(rejects, e)) = ToSet(rejects) \cup {e}
    BY <1>2, <1>3, <1>4, RowAppended
  <2>3. ToSet(Append(side, e)) = ToSet(side) \cup {e}
    BY ONLY <1>2, e \in Nat, IdAppended
  <2>4. cfg.sidecar => IsInjective(Append(side, e))
    BY <1>2, <1>3, <1>4, RowAppended
  <2>5. QED
    BY <2>1, <2>2, <2>3, <2>4
<1>6. cfg.sidecar =>
        /\ \A i, j \in DOMAIN side, k, l \in DOMAIN Append(main, e) :
             Append(main, e)[k] = side[i] /\ Append(main, e)[l] = side[j] /\ i < j => k < l
        /\ \A i, j \in DOMAIN Append(side, e), k, l \in DOMAIN Append(main, e) :
             /\ Append(main, e)[k] = Append(side, e)[i] /\ Append(main, e)[l] = Append(side, e)[j]
             /\ i < j
             => k < l
  <2> SUFFICES ASSUME cfg.sidecar
               PROVE  /\ \A i, j \in DOMAIN side, k, l \in DOMAIN Append(main, e) :
                           Append(main, e)[k] = side[i] /\ Append(main, e)[l] = side[j] /\ i < j
                                 => k < l
                      /\ \A i, j \in DOMAIN Append(side, e), k, l \in DOMAIN Append(main, e) :
                           /\ Append(main, e)[k] = Append(side, e)[i]
                           /\ Append(main, e)[l] = Append(side, e)[j] /\ i < j
                           => k < l
    OBVIOUS
  <2>1. ToSet(side) \subseteq ToSet(main) /\ SameOrder
    BY <1>4
  <2>2. \A i, j \in DOMAIN side, k, l \in DOMAIN main :
          main[k] = side[i] /\ main[l] = side[j] /\ i < j => k < l
    BY <2>1 DEF SameOrder
  <2>3. QED
    BY ONLY <1>1, <1>2, <1>3, <2>1, <2>2, OrderKept, Zenon
<1>7. /\ rejects' \in {rejects, Append(rejects, e)}
      /\ \/ UNCHANGED <<main, side, halves>>
         \/ rejects' = rejects /\ main' = Append(main, e) /\ halves' = halves
              /\ side' = (IF cfg.sidecar THEN Append(side, e) ELSE side)
         \/ main' = Append(main, e) /\ halves' = halves \cup {e} /\ side' = side
  BY <1>1 DEF RouteStep, WaySilent, WayReject, WayMain, WayHalf, RejectRow
<1>8. CASE UNCHANGED <<main, side, halves>>
  <2>1. IsInjective(rejects') /\ ToSet(main') \cap ToSet(rejects') \subseteq halves'
    BY <1>3, <1>4, <1>5, <1>7, <1>8
  <2>2. SameOrder => SameOrder'
    BY <1>8 DEF SameOrder
  <2>3. QED
    BY <1>2, <1>4, <1>8, <2>1, <2>2 DEF RowsUnique
<1>9. CASE /\ rejects' = rejects /\ main' = Append(main, e) /\ halves' = halves
           /\ side' = (IF cfg.sidecar THEN Append(side, e) ELSE side)
  <2>1. ToSet(main') \cap ToSet(rejects') \subseteq halves'
    BY <1>3, <1>4, <1>5, <1>9
  <2>2. cfg.sidecar => IsInjective(side') /\ ToSet(side') = ToSet(main') \ halves'
    BY <1>2, <1>3, <1>4, <1>5, <1>9
  <2>3. cfg.sidecar => SameOrder'
    BY <1>6, <1>9, ZenonT(30) DEF SameOrder
  <2>4. QED
    BY <1>2, <1>4, <1>5, <1>9, <2>1, <2>2, <2>3 DEF RowsUnique
<1>10. CASE main' = Append(main, e) /\ halves' = halves \cup {e} /\ side' = side
  <2>1. IsInjective(rejects') /\ ToSet(main') \cap ToSet(rejects') \subseteq halves'
    BY <1>3, <1>4, <1>5, <1>7, <1>10
  <2>2. cfg.sidecar => IsInjective(side') /\ ToSet(side') = ToSet(main') \ halves'
    BY <1>2, <1>3, <1>4, <1>5, <1>10
  <2>3. cfg.sidecar => SameOrder'
    BY <1>6, <1>10, Zenon DEF SameOrder
  <2>4. QED
    BY <1>2, <1>4, <1>5, <1>10, <2>1, <2>2, <2>3 DEF RowsUnique
<1>11. QED
  BY <1>7, <1>8, <1>9, <1>10

\* Only routing changes the rows.
LEMMA RowsKept ==
  ASSUME Types, Placed, [Next]_vars, ~Route
  PROVE  UNCHANGED <<main, side, rejects, halves, cfg>>
<1> USE DEF rows, emitterVars
<1>1. Calm => UNCHANGED <<main, side, rejects, halves, cfg>>
  BY CalmFrame DEF recordVars
<1>2. GivesUp \/ TakeGenerated \/ StartBatch => UNCHANGED <<main, side, rejects, halves, cfg>>
  BY OtherEffects DEF GaveUp, TookGenerated, StartedBatch
<1>3. Read \/ ReadFails => UNCHANGED <<main, side, rejects, halves, cfg>>
  BY ReadEffect DEF ReaderStep
<1>4. StageReturns \/ ClassifyReturns \/ SessionReturns
            => UNCHANGED <<main, side, rejects, halves, cfg>>
  BY StageEffect, ClassifyEffect, SessionEffect DEF InChain
<1>5. GenerateReturns \/ AllGenerated \/ BatchEnds => UNCHANGED <<main, side, rejects, halves, cfg>>
  BY GenerateEffect DEF BatchEnds, Flush
<1>6. QED
  BY <1>1, <1>2, <1>3, <1>4, <1>5, Steps

\* Every step keeps the rows of every file apart and in order.
LEMMA RowsUniqueStep ==
  Types /\ Placed /\ Distinct /\ RowsUnique /\ [Next]_vars => RowsUnique'
<1> SUFFICES ASSUME Types, Placed, Distinct, RowsUnique, [Next]_vars PROVE RowsUnique'
  OBVIOUS
<1>1. CASE Route
  BY <1>1, RouteEffect, RowsRouted
<1>2. CASE ~Route
  <2>1. UNCHANGED <<main, side, rejects, halves, cfg>>
    BY <1>2, RowsKept
  <2>2. SameOrder => SameOrder'
    BY <2>1 DEF SameOrder
  <2>3. QED
    BY <2>1, <2>2 DEF RowsUnique
<1>3. QED
  BY <1>1, <1>2

\* The totals of the batches before, and an empty part of the current one.
LEMMA CountedIdle ==
  ASSUME Types, RowsCounted, cursor = 0, cursor' = 0,
         UNCHANGED <<cfg, main, rejects, swallowed, gone, halves, emitted, rejected>>,
         count'["emitted"] = count["emitted"]
  PROVE  RowsCounted'
<1>1. /\ {i \in 1 .. cursor : batch[i].status = "active"} = {}
      /\ {i \in 1 .. cursor' : batch'[i].status = "active"} = {}
      /\ {i \in 1 .. cursor : Rejectable(i)} = {}
      /\ {i \in 1 .. cursor' : Rejectable(i)'} = {}
  BY DEF Rejectable
<1>2. gone = {}
  BY <1>1 DEF RowsCounted
<1>3. gone' = {batch'[i].id : i \in {i \in 1 .. cursor' : batch'[i].status = "active"}}
  BY <1>1, <1>2
<1>4. Cardinality({i \in 1 .. cursor' : Rejectable(i)'})
            = Cardinality({i \in 1 .. cursor : Rejectable(i)})
  BY <1>1
<1>5. /\ count'["emitted"] = emitted'
      /\ Len(main') = emitted' + Cardinality(gone') + Cardinality(halves')
      /\ cfg'.rejects =>
           Len(rejects') + swallowed' = rejected' + Cardinality({i \in 1 .. cursor' : Rejectable(i)'})
  BY <1>4 DEF RowsCounted
<1>6. QED
  BY <1>3, <1>5 DEF RowsCounted

\* A routed record counts in one place.
LEMMA CountedRouted ==
  ASSUME Types, Distinct, RowsCounted, RouteStep
  PROVE  RowsCounted'
<1>1. /\ UNCHANGED <<cfg, count, emitted, rejected>> /\ cursor' = cursor + 1 /\ cursor \in Nat
      /\ \A i \in 1 .. cursor : batch'[i] = batch[i]
      /\ cursor + 1 \in DOMAIN batch
      /\ batch'[cursor + 1].id = Item.id /\ batch[cursor + 1].id = Item.id
  <2>1. batch \in Seq(Record) /\ cursor \in Nat
    BY DEF Types, EmitterTypes
  <2>2. UNCHANGED <<cfg, count, emitted, rejected>>
    BY DEF RouteStep, control, totals
  <2>3. QED
    BY <2>1, <2>2 DEF RouteStep
<1>2. PICK e \in Nat : e = Item.id
  BY DEF RouteStep
<1>3. /\ main \in Seq(Nat) /\ rejects \in Seq(Nat) /\ gone \subseteq ToSet(main)
      /\ halves \subseteq ToSet(main) /\ emitted \in Nat /\ rejected \in Nat /\ swallowed \in Nat
  BY DEF Types, EmitterTypes
<1>4. e \notin ToSet(main)
  <2>1. cursor + 1 > cursor
    BY <1>1
  <2>2. QED
    BY <1>1, <1>2, <2>1 DEF Distinct, Spent
<1>5. IsFiniteSet(gone) /\ IsFiniteSet(halves) /\ Cardinality(gone) \in Nat
            /\ Cardinality(halves) \in Nat
  <2>1. IsFiniteSet(ToSet(main))
    BY <1>3, SeqRowsFinite
  <2>2. QED
    BY <1>3, <2>1, FS_Subset, FS_CardinalityType
<1>6. /\ Cardinality(gone \cup {e}) = Cardinality(gone) + 1
      /\ Cardinality(halves \cup {e}) = Cardinality(halves) + 1
  BY <1>3, <1>4, <1>5, FS_AddElement
<1> DEFINE A == {i \in 1 .. cursor : batch[i].status = "active"}
           A2 == {i \in 1 .. cursor' : batch'[i].status = "active"}
           R == {i \in 1 .. cursor : Rejectable(i)}
           R2 == {i \in 1 .. cursor' : batch'[i].status \notin Silent \cup {"active"}}
<1>7. /\ gone = {batch[i].id : i \in A}
      /\ cfg.rejects => Len(rejects) + swallowed = rejected + Cardinality(R)
      /\ count["emitted"] = emitted /\ Len(main) = emitted + Cardinality(gone) + Cardinality(halves)
  BY DEF RowsCounted
<1>8. /\ batch'[cursor + 1].status = "active" => A2 = A \cup {cursor + 1}
      /\ batch'[cursor + 1].status # "active" => A2 = A
      /\ batch'[cursor + 1].status \notin Silent \cup {"active"} => R2 = R \cup {cursor + 1}
      /\ batch'[cursor + 1].status \in Silent \cup {"active"} => R2 = R
      /\ A \subseteq 1 .. cursor /\ R \subseteq 1 .. cursor
  <2>1. 1 .. cursor' = (1 .. cursor) \cup {cursor + 1} /\ cursor + 1 \notin 1 .. cursor
    BY <1>1
  <2>2. \A i \in 1 .. cursor :
          /\ batch'[i].status = batch[i].status
          /\ Rejectable(i) <=> batch'[i].status \notin Silent \cup {"active"}
    BY <1>1 DEF Rejectable
  <2>3. QED
    BY <2>1, <2>2
<1>9. IsFiniteSet(R) /\ Cardinality(R) \in Nat /\ Cardinality(R \cup {cursor + 1}) = Cardinality(R) + 1
  <2>1. IsFiniteSet(1 .. cursor)
    BY <1>1, FS_Interval
  <2>2. IsFiniteSet(R) /\ Cardinality(R) \in Nat
    BY <1>8, <2>1, FS_Subset, FS_CardinalityType
  <2>3. cursor + 1 \notin R
    BY <1>1, <1>8
  <2>4. QED
    BY <2>2, <2>3, FS_AddElement
<1>10. {batch'[i].id : i \in A} = gone /\ {batch'[i].id : i \in A \cup {cursor + 1}} = gone \cup {e}
  <2>1. \A i \in A : batch'[i] = batch[i]
    BY <1>1, <1>8
  <2>2. {batch'[i].id : i \in A} = gone
    BY <1>7, <2>1
  <2>3. QED
    BY <1>1, <1>2, <2>2
<1>11. Len(Append(main, e)) = Len(main) + 1 /\ Len(Append(rejects, e)) = Len(rejects) + 1
         /\ Len(main) \in Nat /\ Len(rejects) \in Nat
  BY <1>3
<1> HIDE DEF A, A2, R, R2
<1>12. SUFFICES /\ count'["emitted"] = emitted'
                /\ Len(main') = emitted' + Cardinality(gone') + Cardinality(halves')
                /\ gone' = {batch'[i].id : i \in A2}
                /\ cfg.rejects => Len(rejects') + swallowed' = rejected' + Cardinality(R2)
  <2>1. \A i \in 1 .. cursor' : Rejectable(i)' <=> batch'[i].status \notin Silent \cup {"active"}
    BY DEF Rejectable
  <2>2. {i \in 1 .. cursor' : Rejectable(i)'} = R2
    BY <2>1 DEF R2
  <2>3. QED
    BY <1>1, <2>2 DEF RowsCounted, A2
<1>13. "active" \notin Silent
  BY DEF Silent
<1>14. CASE WaySilent
  <2>1. A2 = A /\ R2 = R /\ UNCHANGED <<main, rejects, swallowed, gone, halves>>
    BY <1>8, <1>13, <1>14 DEF WaySilent
  <2>2. QED
    BY <1>1, <1>7, <1>10, <2>1
<1>15. CASE WayReject
  <2>1. /\ A2 = A /\ R2 = R \cup {cursor + 1} /\ UNCHANGED <<main, gone, halves>>
        /\ cfg.rejects => \/ rejects' = Append(rejects, e) /\ swallowed' = swallowed
                          \/ rejects' = rejects /\ swallowed' = swallowed + 1
    BY <1>2, <1>8, <1>15 DEF WayReject, RejectRow
  <2>2. cfg.rejects => Len(rejects') + swallowed' = rejected' + Cardinality(R2)
    BY <1>1, <1>3, <1>7, <1>9, <1>11, <2>1, SMTT(20)
  <2>3. QED
    BY <1>1, <1>7, <1>10, <2>1, <2>2
<1>16. CASE WayMain
  <2>1. /\ A2 = A \cup {cursor + 1} /\ R2 = R /\ UNCHANGED <<rejects, swallowed, halves>>
        /\ main' = Append(main, e) /\ gone' = gone \cup {e}
    BY <1>2, <1>8, <1>16 DEF WayMain
  <2>2. Len(main') = emitted' + Cardinality(gone') + Cardinality(halves')
    BY <1>1, <1>3, <1>5, <1>6, <1>7, <1>11, <2>1
  <2>3. QED
    BY <1>1, <1>7, <1>10, <2>1, <2>2
<1>17. CASE WayHalf
  <2>1. /\ A2 = A /\ R2 = R \cup {cursor + 1} /\ gone' = gone
        /\ main' = Append(main, e) /\ halves' = halves \cup {e}
        /\ cfg.rejects => \/ rejects' = Append(rejects, e) /\ swallowed' = swallowed
                          \/ rejects' = rejects /\ swallowed' = swallowed + 1
    BY <1>2, <1>8, <1>17 DEF WayHalf, RejectRow
  <2>2. Len(main') = emitted' + Cardinality(gone') + Cardinality(halves')
    BY <1>1, <1>3, <1>5, <1>6, <1>7, <1>11, <2>1
  <2>3. cfg.rejects => Len(rejects') + swallowed' = rejected' + Cardinality(R2)
    BY <1>1, <1>3, <1>7, <1>9, <1>11, <2>1, SMTT(20)
  <2>4. QED
    BY <1>1, <1>7, <1>10, <2>1, <2>2, <2>3
<1>18. QED
  BY <1>14, <1>15, <1>16, <1>17 DEF RouteStep

\* At the end of a batch the totals take what the batch counted.
LEMMA CountedEnded ==
  ASSUME Types, RowsCounted, BatchEnds
  PROVE  RowsCounted'
<1>1. /\ UNCHANGED <<cfg, main, rejects, swallowed, halves>>
      /\ gone' = {} /\ cursor' = 0 /\ cursor = Len(batch)
      /\ emitted' = emitted + Cardinality(gone)
      /\ rejected' = rejected
           + Cardinality({i \in DOMAIN batch : batch[i].status \notin Silent \cup {"active"}})
  BY DEF BatchEnds, Flush, Routed
<1>2. count'["emitted"] = count["emitted"] + Cardinality(gone) /\ Cardinality(gone) \in Nat
  BY TallyEffect DEF Gains
<1>3. {i \in DOMAIN batch : batch[i].status \notin Silent \cup {"active"}}
        = {i \in 1 .. cursor : Rejectable(i)}
  <2>1. DOMAIN batch = 1 .. cursor
    BY <1>1 DEF Types, EmitterTypes
  <2>2. QED
    BY <2>1 DEF Rejectable
<1>4. 1 .. cursor' = {} /\ Cardinality({}) = 0
  BY <1>1, FS_EmptySet
<1>5. /\ {i \in 1 .. cursor' : batch'[i].status = "active"} = {}
      /\ {i \in 1 .. cursor' : Rejectable(i)'} = {}
  BY <1>4
<1>6. Len(main') = emitted' + Cardinality(gone') + Cardinality(halves')
  <2>1. PICK g : g = Cardinality(gone)
    OBVIOUS
  <2>2. PICK h : h = Cardinality(halves)
    OBVIOUS
  <2>3. g \in Nat /\ emitted \in Nat
    BY <1>2, <2>1 DEF Types, EmitterTypes
  <2>4. h \in Nat
    <3>1. main \in Seq(Nat) /\ halves \in SUBSET ToSet(main)
      BY DEF Types, EmitterTypes
    <3>2. IsFiniteSet(ToSet(main))
      BY <3>1, SeqRowsFinite
    <3>3. QED
      BY <2>2, <3>1, <3>2, FS_Subset, FS_CardinalityType
  <2>5. Len(main) = emitted + g + h
    BY <2>1, <2>2 DEF RowsCounted
  <2>6. Len(main') = Len(main) /\ emitted' = emitted + g /\ Cardinality(gone') = 0
              /\ Cardinality(halves') = h
    BY <1>1, <1>4, <2>1, <2>2
  <2>7. QED
    BY <2>3, <2>4, <2>5, <2>6
<1>7. cfg'.rejects =>
        Len(rejects') + swallowed' = rejected' + Cardinality({i \in 1 .. cursor' : Rejectable(i)'})
  <2>1. PICK r : r = Cardinality({i \in 1 .. cursor : Rejectable(i)})
    OBVIOUS
  <2>2. rejected' = rejected + r /\ (cfg.rejects => Len(rejects) + swallowed = rejected + r)
    BY <1>1, <1>3, <2>1 DEF RowsCounted
  <2>3. r \in Nat /\ rejected \in Nat
    <3>1. cursor \in Nat
      BY DEF Types, EmitterTypes
    <3>2. IsFiniteSet(1 .. cursor)
      BY <3>1, FS_Interval
    <3>3. IsFiniteSet({i \in 1 .. cursor : Rejectable(i)})
      BY <3>2, FS_Subset
    <3>4. QED
      BY <2>1, <3>3, FS_CardinalityType DEF Types, EmitterTypes
  <2>4. QED
    BY <1>1, <1>4, <1>5, <2>2, <2>3
<1>8. count'["emitted"] = emitted'
  BY <1>1, <1>2 DEF RowsCounted
<1>9. QED
  BY <1>1, <1>5, <1>6, <1>7, <1>8 DEF RowsCounted

\* No stage raises the counter of the emitted records.
LEMMA EmittedStays ==
  ASSUME Types, StageReturns \/ ClassifyReturns \/ SessionReturns \/ GenerateReturns \/ AllGenerated
  PROVE  count'["emitted"] = count["emitted"]
<1>1. count \in [Counters -> Nat] /\ "emitted" \in Counters
  BY DEF Types, WorkflowTypes, Counters
<1>2. ASSUME NEW n, NEW m
      PROVE  /\ [count EXCEPT !["fanout"] = @ + n]["emitted"] = count["emitted"]
             /\ [count EXCEPT !["generated"] = @ + n]["emitted"] = count["emitted"]
             /\ [count EXCEPT !["episodes"] = @ + n, !["fanout"] = @ + m]["emitted"]
                  = count["emitted"]
  BY <1>1
<1>3. CASE StageReturns
  BY <1>3, StageEffect
<1>4. CASE ClassifyReturns
  <2>1. PICK n \in Nat : count' = [count EXCEPT !["fanout"] = @ + n]
    BY <1>4, ClassifyEffect
  <2>2. QED
    BY <1>2, <2>1, Zenon
<1>5. CASE SessionReturns
  <2>1. PICK n \in Nat, m \in Nat : count' = [count EXCEPT !["episodes"] = @ + n, !["fanout"] = @ + m]
    BY <1>5, SessionEffect
  <2>2. QED
    BY <1>2, <2>1, Zenon
<1>6. CASE GenerateReturns \/ AllGenerated
  <2>1. PICK n \in Nat : count' = [count EXCEPT !["generated"] = @ + n]
    BY <1>6, GenerateEffect
  <2>2. QED
    BY <1>2, <2>1, Zenon
<1>7. QED
  BY <1>3, <1>4, <1>5, <1>6

\* Every step keeps the totals and the rows together.
LEMMA RowsCountedStep ==
  Types /\ Placed /\ Distinct /\ RowsCounted /\ [Next]_vars => RowsCounted'
<1> SUFFICES ASSUME Types, Placed, Distinct, RowsCounted, [Next]_vars PROVE RowsCounted'
  OBVIOUS
<1>1. CASE Calm
  <2>1. UNCHANGED <<cfg, batch, cursor, main, rejects, swallowed, gone, halves, emitted, rejected,
                    count>>
    BY <1>1, CalmFrame DEF recordVars, rows
  <2>2. {i \in 1 .. cursor' : Rejectable(i)'} = {i \in 1 .. cursor : Rejectable(i)}
    BY <2>1 DEF Rejectable
  <2>3. gone' = {batch'[i].id : i \in {i \in 1 .. cursor' : batch'[i].status = "active"}}
    BY <2>1 DEF RowsCounted
  <2>4. QED
    BY <2>1, <2>2, <2>3 DEF RowsCounted
<1>2. CASE Route
  BY <1>2, RouteEffect, CountedRouted
<1>3. CASE BatchEnds
  BY <1>3, CountedEnded
<1>4. ASSUME phase \notin {"emit"} \cup Over, UNCHANGED <<cfg, cursor, rows, emitted, rejected>>,
             count'["emitted"] = count["emitted"]
      PROVE  RowsCounted'
  BY <1>4, CountedIdle DEF Placed, rows
<1>5. CASE GivesUp \/ TakeGenerated \/ StartBatch
  <2>1. /\ phase \in {"chain", "generate", "take", "read"}
        /\ UNCHANGED <<cfg, emitterVars, count>>
    BY <1>5, OtherEffects DEF GaveUp, TookGenerated, StartedBatch
  <2>2. QED
    BY <1>4, <2>1 DEF Over, emitterVars, totals
<1>6. CASE Read \/ ReadFails
  BY <1>4, <1>6, ReadEffect DEF Over, ReaderStep
<1>7. CASE StageReturns \/ ClassifyReturns \/ SessionReturns
  <2>1. InChain /\ count'["emitted"] = count["emitted"]
    BY <1>7, EmittedStays, StageEffect, ClassifyEffect, SessionEffect
  <2>2. QED
    BY <1>4, <2>1 DEF Over, InChain, emitterVars, totals
<1>8. CASE GenerateReturns \/ AllGenerated
  <2>1. /\ phase \in {"chain", "generate"} /\ count'["emitted"] = count["emitted"]
        /\ UNCHANGED <<cfg, emitterVars>>
    BY <1>8, EmittedStays, GenerateEffect
  <2>2. QED
    BY <1>4, <2>1 DEF Over, emitterVars, totals
<1>9. QED
  BY <1>1, <1>2, <1>3, <1>5, <1>6, <1>7, <1>8, Steps

-------------------------------------------------------------------------------
(* The theorems                                                            *)

\* When a run begins no record has come and nothing has a row.
LEMMA InitInv == Init => WorkflowInv
<1> SUFFICES ASSUME Init PROVE WorkflowInv
  OBVIOUS
<1> USE DEF Init, InitIngest, InitEmitter
<1>1. cfg \in Configs /\ cfg.lines \in Seq(Line) /\ Len(cfg.lines) \in Nat
  BY ConfigsAssumption
<1>2. <<>> \in Seq(Nat) /\ <<>> \in Seq(Record) /\ <<>> \in Seq(Seq(Record))
      /\ Len(<<>>) = 0 /\ DOMAIN <<>> = {} /\ ToSet(<<>>) = {}
  BY DEF ToSet
<1>3. ReaderTypes
  BY <1>1, <1>2 DEF ReaderTypes
<1>4. EmitterTypes
  BY <1>1, <1>2 DEF EmitterTypes
<1>5. WorkflowTypes
  <2>1. count \in [Counters -> Nat]
    OBVIOUS
  <2>2. QED
    BY <1>1, <1>2, <2>1 DEF WorkflowTypes, Phases
<1>6. FlagTypes
  BY DEF FlagTypes
<1>7. Types
  BY <1>3, <1>4, <1>5, <1>6 DEF Types
<1>8. Placed
  BY DEF Placed, Over, Publishing
<1>9. files.report = {}
  OBVIOUS
<1>10. Excused /\ Published
  BY <1>9 DEF Excused, Published, Over, Publishing
<1>11. Spent = {}
  BY <1>2 DEF Spent
<1>12. Distinct /\ QueueDistinct
  BY <1>2, <1>11 DEF Distinct, QueueDistinct, Apart
<1>13. RowsUnique
  BY <1>2 DEF RowsUnique, IsInjective, SameOrder
<1>14. RowsCounted
  <2>1. Cardinality({}) = 0 /\ 1 .. cursor = {}
    BY FS_EmptySet
  <2>2. {batch[i].id : i \in {i \in 1 .. cursor : batch[i].status = "active"}} = {}
    BY <2>1
  <2>3. {i \in 1 .. cursor : Rejectable(i)} = {}
    BY <2>1
  <2>4. count["emitted"] = 0
    BY DEF Counters
  <2>5. QED
    BY <1>2, <2>1, <2>2, <2>3, <2>4 DEF RowsCounted
<1>15. Balanced
  <2>1. \A k \in Counters : count[k] = 0
    OBVIOUS
  <2>2. Net(count) = 0
    BY <2>1 DEF Net, Deductions, Counters, Deducted
  <2>3. First(<<>>, 0) = 0
    BY FirstNone
  <2>1a. Unread = 0 /\ Taken = 0
    BY DEF Unread, Taken, Init, InitIngest
  <2>4. Residual = 0
    BY <1>7, <2>1a, <2>2, SidesOf DEF Due
  <2>5. Limbo = 0
    BY <1>2, <1>7, <2>3, SidesOf DEF Held, Ahead
  <2>6. QED
    BY <2>1a, <2>4, <2>5 DEF Balanced
<1>15a. RowsFirst
  BY <1>7, RowsToType DEF RowsFirst, Init, InitIngest
<1>16. QED
  BY <1>7, <1>8, <1>10, <1>12, <1>13, <1>14, <1>15, <1>15a DEF WorkflowInv

\* Every step keeps the invariant.
LEMMA StepInv == WorkflowInv /\ [Next]_vars => WorkflowInv'
<1> SUFFICES ASSUME WorkflowInv, [Next]_vars PROVE WorkflowInv'
  OBVIOUS
<1> USE DEF WorkflowInv
<1>1. Types'
  BY ReaderTypesStep, EmitterTypesStep, WorkflowTypesStep, FlagTypesStep DEF Types
<1>2. Placed' /\ Excused'
  BY PlacedStep, ExcusedStep
<1>3. Published'
  BY <1>1, <1>2, PublishedStep
<1>4. Distinct' /\ QueueDistinct'
  BY DistinctStep
<1>5. RowsUnique'
  BY RowsUniqueStep
<1>6. RowsCounted'
  BY RowsCountedStep
<1>7. Balanced' /\ RowsFirst'
  BY <1>1, BalancedStep, RowsFirstStep
<1>8. QED
  BY <1>1, <1>2, <1>3, <1>4, <1>5, <1>6, <1>7

\* A run that was loaded otherwise than by this program keeps the invariant as well.
THEOREM WorkflowInvariant == Spec => []WorkflowInv
<1>1. Init => WorkflowInv
  BY InitInv
<1>2. WorkflowInv /\ [Next]_vars => WorkflowInv'
  BY StepInv
<1>3. QED
  BY <1>1, <1>2, PTL DEF Spec

\* Until the project is launched the workflow has not begun.
ApplicationInv == WorkflowInv /\ (load # "launched" => phase = "open")

\* Loading a project changes nothing of the workflow but the exit code.
LEMMA LoadingFrame == Loading => IdleWorkflow /\ load # "launched"
<1> USE DEF IdleWorkflow, vars, control
<1>1. EditProject \/ ReadFiles => IdleWorkflow /\ load # "launched"
  BY DEF EditProject, ReadFiles
<1>2. FilesUnreadable \/ Check => IdleWorkflow /\ load # "launched"
  BY DEF FilesUnreadable, Check
<1>3. PlanFails \/ CredentialsMissing \/ Compose => IdleWorkflow /\ load # "launched"
  BY DEF PlanFails, CredentialsMissing, Compose
<1>4. QED
  BY <1>1, <1>2, <1>3 DEF Loading

\* The invariant says nothing of the exit code of a run that has not begun.
LEMMA LoadingStep == WorkflowInv /\ phase = "open" /\ IdleWorkflow => WorkflowInv'
<1> SUFFICES ASSUME WorkflowInv, phase = "open", IdleWorkflow PROVE WorkflowInv'
  OBVIOUS
<1>1. UNCHANGED recordVars
  BY DEF IdleWorkflow, recordVars, emitterVars, totals
<1>2. UNCHANGED <<files, undeliverable, phase, queue, stop, timer, opened, broken, fatal>>
  BY DEF IdleWorkflow, emitterVars, totals
<1>3. UNCHANGED <<cfg, batch, cursor, main, side, rejects, swallowed, gone, halves, emitted, rejected>>
  BY <1>1 DEF recordVars, rows
<1>4. UNCHANGED <<pos, ahead, got, scanned, ingested, bad, next, count, lost>>
  BY <1>1 DEF recordVars, ingestVars
<1> USE DEF WorkflowInv
<1>5. Types'
  BY <1>2, <1>3, <1>4 DEF Types, ReaderTypes, EmitterTypes, WorkflowTypes, FlagTypes
<1>6. Placed' /\ Excused'
  BY <1>2, <1>3, <1>4 DEF Placed, Excused
<1>7. files.report = {}
  BY DEF Excused, Over
<1>8. Published'
  BY <1>2, <1>7 DEF Published, Publishing, Over
<1>9. Spent' = Spent /\ Known' = Known
  BY <1>3, <1>4 DEF Spent, Known
<1>10. Distinct' /\ QueueDistinct'
  BY <1>2, <1>3, <1>4, <1>9 DEF Distinct, QueueDistinct, Apart
<1>11. RowsUnique'
  BY <1>3 DEF RowsUnique, SameOrder
<1>12. RowsCounted'
  <2>1. {i \in 1 .. cursor' : Rejectable(i)'} = {i \in 1 .. cursor : Rejectable(i)}
    BY <1>3 DEF Rejectable
  <2>2. gone' = {batch'[i].id : i \in {i \in 1 .. cursor' : batch'[i].status = "active"}}
    BY <1>3 DEF RowsCounted
  <2>3. QED
    BY <1>3, <1>4, <2>1, <2>2 DEF RowsCounted
<1>13. Balanced' /\ RowsFirst'
  <2>1. Taken' = Taken /\ Unread' = Unread
    BY <1>3, <1>4, TakenStays
  <2>2. Balanced'
    BY <1>2, <1>3, <1>4, <1>5, <2>1, SidesOf, SidesOfNext DEF Balanced
  <2>3. RowsFirst'
    BY <1>3, <1>4, FirstRowsStay
  <2>4. QED
    BY <2>2, <2>3
<1>14. QED
  BY <1>5, <1>6, <1>8, <1>10, <1>11, <1>12, <1>13

\* The program keeps the invariant from its command line to its exit.
THEOREM ApplicationInvariant == ApplicationSpec => []ApplicationInv
<1>1. StartUp => ApplicationInv
  BY InitInv DEF StartUp, Init, ApplicationInv
<1>2. ApplicationInv /\ [Loading \/ Running(Next)]_allVars => ApplicationInv'
  <2> SUFFICES ASSUME ApplicationInv, [Loading \/ Running(Next)]_allVars PROVE ApplicationInv'
    OBVIOUS
  <2>1. CASE Loading
    <3>1. phase = "open" /\ phase' = "open" /\ IdleWorkflow
      BY <2>1, LoadingFrame DEF ApplicationInv, IdleWorkflow
    <3>2. QED
      BY <3>1, LoadingStep DEF ApplicationInv
  <2>2. CASE Running(Next)
    BY <2>2, StepInv DEF ApplicationInv, Running, applicationVars
  <2>3. CASE UNCHANGED allVars
    <3>1. UNCHANGED vars /\ UNCHANGED load /\ UNCHANGED phase
      BY <2>3 DEF allVars, applicationVars, vars, control
    <3>2. QED
      BY <3>1, StepInv DEF ApplicationInv
  <2>4. QED
    BY <2>1, <2>2, <2>3
<1>3. QED
  BY <1>1, <1>2, PTL DEF ApplicationSpec

\* What waits or was given up is a number of records.
LEMMA LimboType == Types => Limbo \in Nat
<1> SUFFICES ASSUME Types PROVE Limbo \in Nat
  OBVIOUS
<1>1. /\ lost \in Nat /\ batch \in Seq(Record) /\ got \in Seq(Nat)
      /\ queue \in Seq(Seq(Record))
  BY DEF Types, ReaderTypes, EmitterTypes, WorkflowTypes
<1>2. PICK waiting \in Nat : waiting = First(queue, Len(queue))
  BY <1>1, HeldType
<1>3. Limbo = (((lost + Len(batch)) + waiting) + Len(got)) + Ahead(ahead)
  BY <1>2, SidesOf DEF Held
<1>4. Len(batch) \in Nat /\ Len(got) \in Nat /\ Ahead(ahead) \in Nat
  BY <1>1 DEF Ahead
<1>5. QED
  BY <1>1, <1>2, <1>3, <1>4

(* No record is lost or counted twice by a run of the program, however it  *)
(* is stopped, broken or cancelled (Balanced).                             *)
THEOREM BalancedCorrect == ApplicationSpec => []Balanced
<1>1. ApplicationInv => Balanced
  BY DEF ApplicationInv, WorkflowInv
<1>2. QED
  BY <1>1, ApplicationInvariant, PTL

(* A run that exits with 0 published everything, met no fatal error and no *)
(* open breaker, and left out records only on request (VerdictTrue).       *)
THEOREM VerdictTrueCorrect == ApplicationSpec => []VerdictTrue
<1>1. WorkflowInv => VerdictTrue
  <2> SUFFICES ASSUME WorkflowInv, phase = "exited", code = 0, cfg.form = "flat"
               PROVE  /\ \E report \in files.report : report.exit_code = 0
                      /\ ~opened /\ ~broken /\ ~fatal /\ ~undeliverable
                      /\ cfg.strict => rejected = 0
                      /\ Limbo > 0 => stop
    BY DEF VerdictTrue
  <2>1. PICK report : report \in files.report
    BY DEF WorkflowInv, Published, Over
  <2>2. report = Report /\ report.exit_code = 0 /\ ~undeliverable /\ ~fatal /\ Complete
    BY <2>1 DEF WorkflowInv, Published
  <2>3. Verdict = 0
    BY <2>2 DEF Report
  <2>4. ~broken /\ ~opened /\ ~(cfg.strict /\ rejected > 0)
    BY <2>3 DEF Verdict
  <2>5. rejected \in Nat
    BY DEF WorkflowInv, Types, EmitterTypes
  <2>6. Limbo > 0 => stop
    BY <2>2, <2>4 DEF Complete
  <2>7. QED
    BY <2>1, <2>2, <2>4, <2>5, <2>6
<1>2. ApplicationInv => WorkflowInv
  BY DEF ApplicationInv
<1>3. QED
  BY <1>1, <1>2, ApplicationInvariant, PTL

(* A report on disk has its outputs beside it, and agrees with their rows  *)
(* (DeliveredRows).                                                        *)
THEOREM DeliveredRowsCorrect == ApplicationSpec => []DeliveredRows
<1>1. WorkflowInv => DeliveredRows
  <2> SUFFICES ASSUME WorkflowInv, NEW report \in files.report
               PROVE  /\ files.output = {main} /\ (cfg.sidecar => files.sidecar = {side})
                      /\ report.emitted = emitted /\ emitted = Len(main) - Cardinality(halves)
                      /\ cfg.sidecar => /\ IsInjective(side) /\ ToSet(side) = ToSet(main) \ halves
                                        /\ SameOrder
                      /\ cfg.rejects => Len(rejects) + swallowed = rejected
                      /\ IsInjective(main) /\ IsInjective(rejects)
                      /\ ToSet(main) \cap ToSet(rejects) \subseteq halves
                      /\ report.unprocessed \subseteq {Limbo + Unread}
    BY Zenon DEF DeliveredRows, SameOrder
  <2> USE DEF WorkflowInv
  <2>1. /\ report = Report /\ gone = {} /\ cursor = 0 /\ files.output = {main}
        /\ cfg.sidecar => files.sidecar = {side}
    BY DEF Published
  <2>2. Cardinality(gone) = 0 /\ 1 .. cursor = {}
    BY <2>1, FS_EmptySet
  <2>3. report.emitted = emitted
    BY <2>1 DEF RowsCounted, Report
  <2>4. emitted = Len(main) - Cardinality(halves)
    <3>1. main \in Seq(Nat) /\ halves \in SUBSET ToSet(main) /\ emitted \in Nat
      BY DEF Types, EmitterTypes
    <3>2. IsFiniteSet(ToSet(main))
      BY <3>1, SeqRowsFinite
    <3>3. PICK h \in Nat : h = Cardinality(halves)
      BY <3>1, <3>2, FS_Subset, FS_CardinalityType
    <3>4. Len(main) = emitted + 0 + h
      BY <2>2, <3>3 DEF RowsCounted
    <3>5. QED
      BY <3>1, <3>3, <3>4
  <2>5. cfg.rejects => Len(rejects) + swallowed = rejected
    <3>1. {i \in 1 .. cursor : Rejectable(i)} = {}
      BY <2>2
    <3>2. Cardinality({i \in 1 .. cursor : Rejectable(i)}) = 0
      BY <3>1, FS_EmptySet
    <3>3. rejected \in Nat
      BY DEF Types, EmitterTypes
    <3>4. QED
      BY <3>2, <3>3 DEF RowsCounted
  <2>6. report.unprocessed \subseteq {Limbo + Unread}
    <3>1. Residual = Limbo + Unread /\ Limbo \in Nat /\ Unread \in Nat
      BY LimboType, UnreadType DEF Balanced
    <3>2. (IF Residual > 0 THEN Residual ELSE 0) = Limbo + Unread
      BY <3>1
    <3>3. QED
      BY <2>1, <3>2 DEF Report
  <2>7. QED
    BY <2>1, <2>3, <2>4, <2>5, <2>6 DEF RowsUnique
<1>2. ApplicationInv => WorkflowInv
  BY DEF ApplicationInv
<1>3. QED
  BY <1>1, <1>2, ApplicationInvariant, PTL

-------------------------------------------------------------------------------
(* The dry run                                                             *)

\* The fold of the dry run, as a function of the set of lines it has seen.
Places == [i \in DOMAIN cfg.lines |-> i]
RehearsalStart ==
  [frames |-> 0, highest |-> [k \in DOMAIN highest |-> 0], first |-> 0, last |-> 0,
   length |-> 0, lens |-> <<>>]
Rehearsing(F) ==
  F = [s \in SUBSET DOMAIN Places |->
         IF s = {} THEN RehearsalStart ELSE RehearseLine(F[s \ {Max(s)}], Places[Max(s)])]
RehearsingUpTo(F, n) ==
  F = [s \in UpTo(DOMAIN Places, n) |->
         IF s = {} THEN RehearsalStart ELSE RehearseLine(F[s \ {Max(s)}], Places[Max(s)])]

\* Where the dry run is after n lines, and what it makes of that at the end.
DryRun == CHOOSE F : Rehearsing(F)
At(n) == DryRun[1 .. n]
Finish(st) == IF st.length > 0 THEN Append(st.lens, st.length) ELSE st.lens

\* A set of lines has a last one.
LEMMA LastLine ==
  ASSUME NEW n \in Nat, NEW s \in SUBSET (1 .. n), s # {}
  PROVE  Max(s) \in s /\ \A x \in s : Max(s) >= x
<1> DEFINE D == {n - x : x \in s}
<1>0. \A x \in s : x \in Nat /\ n - x \in Nat
  OBVIOUS
<1>1. D \in SUBSET Nat /\ D # {}
  BY <1>0
<1>2. PICK d \in D : \A e \in D : d <= e
  BY <1>1, LeastNatural
<1>3. PICK x \in s : d = n - x
  OBVIOUS
<1>4. \A y \in s : x >= y
  <2>1. ASSUME NEW y \in s PROVE x >= y
    <3>1. n - y \in D
      OBVIOUS
    <3>2. n - x <= n - y /\ x \in Nat /\ y \in Nat
      BY <1>0, <1>2, <1>3, <3>1
    <3>3. QED
      BY <3>2
  <2>2. QED
    BY <2>1
<1>5. QED
  BY <1>4, Zenon DEF Max

\* The fold has a solution: it is extended from the sets of n lines to those of n + 1.
LEMMA RehearsalExists ==
  ASSUME cfg.lines \in Seq(Line)
  PROVE  \E F : Rehearsing(F)
<1> DEFINE S == DOMAIN Places
           Q == {n \in Nat : \E F : RehearsingUpTo(F, n)}
<1>1. S = 1 .. Len(cfg.lines) /\ Len(cfg.lines) \in Nat /\ IsFiniteSet(S)
  BY FS_Interval DEF Places
<1>2. \A s \in SUBSET S : s # {} => Max(s) \in s
  BY <1>1, LastLine
<1>a. IsFiniteSet(S)
  BY <1>1
<1> HIDE DEF S
<1>b. \A s \in SUBSET S :
        /\ Cardinality(s) \in Nat /\ Cardinality(s) <= Cardinality(S)
        /\ (Cardinality(s) = 0 <=> s = {})
        /\ \A x \in s : Cardinality(s \ {x}) = Cardinality(s) - 1 /\ s \ {x} \in SUBSET S
  BY <1>a, SubsetSizes
<1>3. 0 \in Q
  <2> DEFINE F == [s \in UpTo(S, 0) |-> RehearsalStart]
  <2>1. \A s \in UpTo(S, 0) : s = {}
    BY <1>b DEF UpTo
  <2>2. RehearsingUpTo(F, 0)
    BY <2>1 DEF RehearsingUpTo, S
  <2>3. QED
    BY <2>2
<1>4. ASSUME NEW n \in Q PROVE n + 1 \in Q
  <2>1. PICK F : RehearsingUpTo(F, n)
    OBVIOUS
  <2> DEFINE G == [s \in UpTo(S, n + 1) |->
                     IF s = {} THEN RehearsalStart
                     ELSE RehearseLine(F[s \ {Max(s)}], Places[Max(s)])]
  <2>2. \A s \in UpTo(S, n) : s \in UpTo(S, n + 1) /\ G[s] = F[s]
    <3>1. ASSUME NEW s \in UpTo(S, n) PROVE s \in UpTo(S, n + 1)
      BY <1>b DEF UpTo
    <3>2. ASSUME NEW s \in UpTo(S, n) PROVE G[s] = F[s]
      BY <2>1, <3>1 DEF RehearsingUpTo, S
    <3>3. QED
      BY <3>1, <3>2
  <2>3. \A s \in UpTo(S, n + 1) : s # {} => s \ {Max(s)} \in UpTo(S, n)
    BY <1>2, <1>b DEF UpTo
  <2>4. G = [s \in UpTo(S, n + 1) |->
               IF s = {} THEN RehearsalStart
               ELSE RehearseLine(G[s \ {Max(s)}], Places[Max(s)])]
    BY <2>2, <2>3
  <2>5. RehearsingUpTo(G, n + 1)
    BY <2>4 DEF RehearsingUpTo, S
  <2>6. QED
    BY <2>5
<1>5. Q = Nat
  BY <1>3, <1>4, SetInduction
<1>6. Cardinality(S) \in Q
  BY <1>1, <1>5, FS_CardinalityType
<1>7. UpTo(S, Cardinality(S)) = SUBSET S
  BY <1>b DEF UpTo
<1>8. QED
  BY <1>6, <1>7 DEF RehearsingUpTo, Rehearsing, S

\* The dry run takes one line after the other, to the last.
LEMMA RehearsalSteps ==
  ASSUME cfg.lines \in Seq(Line)
  PROVE  /\ At(0) = RehearsalStart
         /\ \A n \in Nat : n < Len(cfg.lines) => At(n + 1) = RehearseLine(At(n), n + 1)
         /\ Rehearsed = Finish(At(Len(cfg.lines)))
<1> DEFINE F == DryRun
<1>1. Rehearsing(F)
  BY RehearsalExists, Zenon DEF DryRun
<1>2. DOMAIN Places = 1 .. Len(cfg.lines) /\ Len(cfg.lines) \in Nat
  BY DEF Places
<1>3. Rehearsed = Finish(At(Len(cfg.lines)))
  <2>1. FoldLeft(RehearseLine, RehearsalStart, Places) = F[DOMAIN Places]
    BY DEF FoldLeft, MapThenFoldSet, Rehearsing, DryRun
  <2>2. Rehearsed = Finish(FoldLeft(RehearseLine, RehearsalStart, Places))
    BY Zenon DEF Rehearsed, Finish, RehearsalStart, Places
  <2>3. QED
    BY <1>2, <2>1, <2>2 DEF At
<1> HIDE DEF F
<1>4. \A s \in SUBSET DOMAIN Places :
        F[s] = IF s = {} THEN RehearsalStart ELSE RehearseLine(F[s \ {Max(s)}], Places[Max(s)])
  BY <1>1, Zenon DEF Rehearsing
<1>5. At(0) = RehearsalStart
  <2>1. 1 .. 0 = {} /\ {} \in SUBSET DOMAIN Places
    OBVIOUS
  <2>2. QED
    BY <1>4, <2>1 DEF At, F
<1>6. ASSUME NEW n \in Nat, n < Len(cfg.lines) PROVE At(n + 1) = RehearseLine(At(n), n + 1)
  <2>1. 1 .. n + 1 \in SUBSET DOMAIN Places /\ 1 .. n + 1 # {} /\ n + 1 \in DOMAIN Places
    <3>1. \A x \in 1 .. n + 1 : x \in 1 .. Len(cfg.lines)
      BY <1>2, <1>6
    <3>2. n + 1 \in 1 .. n + 1
      OBVIOUS
    <3>3. QED
      BY <1>2, <3>1, <3>2
  <2>2. Max(1 .. n + 1) = n + 1
    <3>1. n + 1 \in Nat /\ n + 1 \in 1 .. n + 1 /\ 1 .. n + 1 \in SUBSET (1 .. n + 1)
      OBVIOUS
    <3>2. Max(1 .. n + 1) \in 1 .. n + 1 /\ Max(1 .. n + 1) >= n + 1
      BY <3>1, LastLine
    <3>3. QED
      BY <3>2
  <2>3. (1 .. n + 1) \ {n + 1} = 1 .. n /\ Places[n + 1] = n + 1
    BY <1>2, <2>1 DEF Places
  <2>4. F[1 .. n + 1] = RehearseLine(F[1 .. n], n + 1)
    BY <1>4, <2>1, <2>2, <2>3
  <2>5. QED
    BY <2>4 DEF At, F
<1>7. QED
  BY <1>3, <1>5, <1>6

\* The dry run of a project does not change while the project runs.
LEMMA DryRunStays ==
  ASSUME cfg' = cfg, DOMAIN highest' = DOMAIN highest
  PROVE  DryRun' = DryRun
<1>1. RehearsalStart' = RehearsalStart /\ Places' = Places
  BY DEF RehearsalStart, Places
<1>2. ASSUME NEW st, NEW i PROVE RehearseLine(st, i)' = RehearseLine(st, i)
  BY DEF RehearseLine, Closes, Full
<1>3. ASSUME NEW F PROVE Rehearsing(F)' <=> Rehearsing(F)
  BY <1>1, <1>2 DEF Rehearsing
<1>4. QED
  BY <1>3 DEF DryRun

-------------------------------------------------------------------------------
(* The reader and the dry run side by side                                 *)

\* The dry run has a session open as given, or has closed it as full.
Stands(st, first, last, length, lens) ==
  IF Full(length) THEN st.length = 0 /\ st.lens = Append(lens, length)
  ELSE st.length = length /\ st.first = first /\ st.last = last /\ st.lens = lens

\* The dry run is where the reader is.
Alike ==
  LET st == At(pos)
  IN /\ DOMAIN st = {"frames", "highest", "first", "last", "length", "lens"}
     /\ st.frames = ingested /\ st.highest = highest
     /\ ingested \in Nat /\ ingested <= cfg.limit
     /\ ahead # 0 => Stands(st, ahead, ahead, 1,
                            IF got = <<>> THEN closed ELSE Append(closed, Len(got)))
     /\ ahead = 0 /\ got # <<>> => Stands(st, Head(got), Last(got), Len(got), closed)
     /\ ahead = 0 /\ got = <<>> => closed = Finish(st) /\ (st.length = 0 \/ Exhausted)

\* Every row has a text, or text_field is not asked for.
NoneBare == \A i \in DOMAIN cfg.lines : cfg.lines[i].kind # "bare"

ReaderInv ==
  cfg.stream /\ NoneBare =>
    /\ phase \notin Over => Alike
    /\ phase = "finalize" => stop \/ broken \/ (Exhausted /\ ahead = 0 /\ got = <<>>)

\* A line is read by both.
LEMMA BothRead ==
  ASSUME Types, ~Exhausted, pos' = pos + 1, cfg' = cfg, DOMAIN highest' = DOMAIN highest
  PROVE  At(pos)' = RehearseLine(At(pos), pos + 1) /\ pos + 1 \in 1 .. Len(cfg.lines)
<1>1. cfg.lines \in Seq(Line) /\ pos \in Nat /\ pos < Len(cfg.lines)
  BY ConfigsAssumption DEF Types, ReaderTypes, Exhausted
<1>2. At(pos)' = DryRun[1 .. pos + 1]
  BY DryRunStays DEF At
<1>3. At(pos + 1) = RehearseLine(At(pos), pos + 1)
  BY <1>1, RehearsalSteps
<1>4. QED
  BY <1>1, <1>2, <1>3 DEF At

\* A record has a text.
LEMMA RecordHasText ==
  ASSUME Types, NoneBare, ReadFrame
  PROVE  Reading.kind \in {"frame", "event"}
<1>1. cfg.lines \in Seq(Line) /\ pos \in Nat /\ pos < Len(cfg.lines)
  BY ConfigsAssumption DEF Types, ReaderTypes, Exhausted, ReadFrame
<1>2. Reading.kind # "bare"
  BY <1>1 DEF NoneBare, Reading
<1>3. QED
  BY <1>2 DEF ReadFrame

\* What the dry run makes of a line that is no frame, or comes after the limit.
LEMMA DryRunSkips ==
  ASSUME NEW st, NEW i,
         cfg.lines[i].kind \notin {"frame", "event"} \/ st.frames >= cfg.limit
  PROVE  RehearseLine(st, i) = st
BY DEF RehearseLine

\* What it makes of a frame that is out of order.
LEMMA DryRunLate ==
  ASSUME NEW st, DOMAIN st = {"frames", "highest", "first", "last", "length", "lens"},
         NEW i, NEW line, line = cfg.lines[i], NEW after, after = RehearseLine(st, i),
         line.kind \in {"frame", "event"}, ~(st.frames >= cfg.limit),
         cfg.meta /\ (line.time = 0 \/ line.time < st.highest[line.key])
  PROVE  /\ DOMAIN after = DOMAIN st /\ after.frames = st.frames + 1
         /\ after.highest = st.highest /\ after.first = st.first
         /\ after.last = st.last /\ after.length = st.length /\ after.lens = st.lens
<1>1. after = [st EXCEPT !.frames = @ + 1]
  BY DEF RehearseLine
<1>2. QED
  BY <1>1

\* What it makes of any other frame.
LEMMA DryRunTakes ==
  ASSUME NEW st, DOMAIN st = {"frames", "highest", "first", "last", "length", "lens"},
         NEW i, NEW line, line = cfg.lines[i], NEW after, after = RehearseLine(st, i),
         line.kind \in {"frame", "event"}, ~(st.frames >= cfg.limit),
         ~(cfg.meta /\ (line.time = 0 \/ line.time < st.highest[line.key]))
  PROVE  LET closes == st.length > 0 /\ Closes(line, i, st.first, st.last, cfg.lines)
         IN /\ DOMAIN after = DOMAIN st /\ after.frames = st.frames + 1
            /\ after.highest = IF cfg.meta THEN [st.highest EXCEPT ![line.key] = line.time]
                               ELSE st.highest
            /\ closes => Stands(after, i, i, 1, Append(st.lens, st.length))
            /\ ~closes => Stands(after, IF st.length + 1 = 1 THEN i ELSE st.first, i,
                                 st.length + 1, st.lens)
BY DEF RehearseLine, Stands

\* The reader takes a line, and so does the dry run.
LEMMA AlikeLine ==
  ASSUME Types, cfg.stream, Alike, ~Exhausted, NEW st, st = At(pos), NEW after, after = At(pos)',
         pos' = pos + 1, cfg' = cfg, DOMAIN highest' = DOMAIN highest,
         NEW line, line = Reading
  PROVE  /\ after = RehearseLine(st, pos + 1) /\ line = cfg.lines[pos + 1]
         /\ DOMAIN st = {"frames", "highest", "first", "last", "length", "lens"}
         /\ ~(st.frames >= cfg.limit) /\ st.frames = ingested /\ st.highest = highest
         /\ ingested \in Nat /\ ingested + 1 <= cfg.limit /\ pos \in Nat
<1>1. after = RehearseLine(st, pos + 1)
  BY BothRead
<1>2. line = cfg.lines[pos + 1]
  BY DEF Reading
<1>3. /\ DOMAIN st = {"frames", "highest", "first", "last", "length", "lens"}
      /\ st.frames = ingested /\ st.highest = highest /\ ingested \in Nat /\ ingested <= cfg.limit
  BY DEF Alike
<1>4. cfg.limit \in Nat /\ ingested # cfg.limit /\ pos \in Nat
  BY ConfigsAssumption DEF Exhausted, Types, ReaderTypes
<1>5. QED
  BY <1>1, <1>2, <1>3, <1>4

\* A line that is skipped leaves both where they are.
LEMMA AlikeSkip ==
  ASSUME Types, cfg.stream, Alike, SkipBlank \/ SkipBad
  PROVE  Alike'
<1>1. /\ ~Exhausted /\ pos' = pos + 1 /\ Reading.kind \notin {"frame", "event"}
      /\ UNCHANGED <<cfg, ahead, got, closed, highest, ingested>>
  BY DEF SkipBlank, SkipBad
<1>2. PICK st : st = At(pos)
  OBVIOUS
<1>3. PICK after : after = At(pos)'
  OBVIOUS
<1>4. PICK line : line = Reading
  OBVIOUS
<1>5. /\ after = RehearseLine(st, pos + 1) /\ line = cfg.lines[pos + 1]
      /\ line.kind \notin {"frame", "event"}
      /\ DOMAIN st = {"frames", "highest", "first", "last", "length", "lens"}
  BY <1>1, <1>2, <1>3, <1>4, AlikeLine
<1>6. after = st
  BY <1>5, DryRunSkips
<1>7. QED
  BY <1>1, <1>2, <1>3, <1>6 DEF Alike, Stands, Full, Finish

\* A frame that is out of order counts for the limit only.
LEMMA AlikeLate ==
  ASSUME Types, NoneBare, cfg.stream, Alike, ahead = 0, SkipDisordered
  PROVE  Alike'
<1>1. /\ ~Exhausted /\ pos' = pos + 1 /\ Reading.kind \in {"frame", "event"} /\ ingested' = ingested + 1
      /\ UNCHANGED <<cfg, ahead, got, closed, highest>> /\ Disordered(Reading)
  BY RecordHasText DEF SkipDisordered, ReadFrame
<1>2. PICK st : st = At(pos)
  OBVIOUS
<1>3. PICK after : after = At(pos)'
  OBVIOUS
<1>4. PICK line : line = Reading
  OBVIOUS
<1>5. /\ after = RehearseLine(st, pos + 1) /\ line = cfg.lines[pos + 1]
      /\ line.kind \in {"frame", "event"}
      /\ DOMAIN st = {"frames", "highest", "first", "last", "length", "lens"}
      /\ ~(st.frames >= cfg.limit) /\ st.frames = ingested /\ st.highest = highest
      /\ ingested \in Nat /\ ingested + 1 <= cfg.limit
  BY <1>1, <1>2, <1>3, <1>4, AlikeLine
<1>6. cfg.meta /\ (line.time = 0 \/ line.time < st.highest[line.key])
  BY <1>1, <1>4, <1>5 DEF Disordered
<1>7. /\ DOMAIN after = DOMAIN st /\ after.frames = st.frames + 1
      /\ after.highest = st.highest /\ after.first = st.first
      /\ after.last = st.last /\ after.length = st.length /\ after.lens = st.lens
  <2>1. PICK i : i = pos + 1
    OBVIOUS
  <2>2. after = RehearseLine(st, i) /\ line = cfg.lines[i]
    BY <1>5, <2>1
  <2>3. QED
    BY <1>5, <1>6, <2>2, DryRunLate
<1>8. QED
  BY <1>1, <1>2, <1>3, <1>5, <1>7 DEF Alike, Stands, Full, Finish

\* A frame joins the session or closes it, in both.
LEMMA AlikeFrame ==
  ASSUME Types, NoneBare, cfg.stream, Alike, ahead = 0, ~SessionClosed, JoinFrame \/ CloseBefore
  PROVE  Alike'
<1>1. /\ ~Exhausted /\ pos' = pos + 1 /\ Reading.kind \in {"frame", "event"} /\ ingested' = ingested + 1
      /\ UNCHANGED <<cfg, closed>> /\ ~Disordered(Reading) /\ Raise(Reading)
  BY RecordHasText DEF JoinFrame, CloseBefore, ReadFrame
<1>2. PICK st : st = At(pos)
  OBVIOUS
<1>3. PICK after : after = At(pos)'
  OBVIOUS
<1>4. PICK line : line = Reading
  OBVIOUS
<1>5. DOMAIN highest' = DOMAIN highest
  BY <1>1 DEF Raise
<1>6. /\ after = RehearseLine(st, pos + 1) /\ line = cfg.lines[pos + 1]
      /\ line.kind \in {"frame", "event"}
      /\ DOMAIN st = {"frames", "highest", "first", "last", "length", "lens"}
      /\ ~(st.frames >= cfg.limit) /\ st.frames = ingested /\ st.highest = highest
      /\ ingested \in Nat /\ ingested + 1 <= cfg.limit /\ pos \in Nat
  BY <1>1, <1>2, <1>3, <1>4, <1>5, AlikeLine
<1>7. ~(cfg.meta /\ (line.time = 0 \/ line.time < st.highest[line.key]))
  BY <1>1, <1>4, <1>6 DEF Disordered
<1>8. /\ DOMAIN after = DOMAIN st /\ after.frames = ingested' /\ ingested' <= cfg.limit
      /\ after.highest = highest'
  BY <1>1, <1>4, <1>6, <1>7, DryRunTakes DEF Raise
<1> DEFINE closes == st.length > 0 /\ Closes(line, pos + 1, st.first, st.last, cfg.lines)
<1>9. /\ closes => Stands(after, pos + 1, pos + 1, 1, Append(st.lens, st.length))
      /\ ~closes => Stands(after, IF st.length + 1 = 1 THEN pos + 1 ELSE st.first, pos + 1,
                           st.length + 1, st.lens)
  BY <1>6, <1>7, DryRunTakes
<1>10. got \in Seq(Nat)
  BY DEF Types, ReaderTypes
<1>11. CASE got = <<>>
  <2>1. JoinFrame
    BY <1>11 DEF CloseBefore
  <2>2. st.length = 0 /\ st.lens = closed
    BY <1>1, <1>2, <1>11 DEF Alike, Finish
  <2>3. Stands(after, pos + 1, pos + 1, 1, closed)
    BY <1>9, <2>2
  <2>4. got' = <<pos + 1>> /\ ahead' = 0
    BY <1>11, <2>1 DEF JoinFrame
  <2>5. got' # <<>> /\ Head(got') = pos + 1 /\ Last(got') = pos + 1 /\ Len(got') = 1
    BY <2>4 DEF Last
  <2>6. QED
    BY <1>1, <1>3, <1>6, <1>8, <2>3, <2>4, <2>5 DEF Alike, Stands, Full
<1>12. CASE got # <<>>
  <2>1. ~Full(Len(got))
    BY <1>12 DEF SessionClosed
  <2>2. /\ st.length = Len(got) /\ st.first = Head(got) /\ st.last = Last(got)
        /\ st.lens = closed /\ Len(got) \in Nat /\ Len(got) > 0
    BY <1>2, <1>10, <1>12, <2>1 DEF Alike, Stands
  <2>3. CASE JoinFrame
    <3>1. ~closes
      BY <1>4, <1>12, <2>2, <2>3 DEF JoinFrame
    <3>2. Stands(after, Head(got), pos + 1, Len(got) + 1, closed)
      BY <1>9, <2>2, <3>1
    <3>3. got' = Append(got, pos + 1) /\ ahead' = 0
      BY <2>3 DEF JoinFrame
    <3>4. /\ got' # <<>> /\ Head(got') = Head(got) /\ Last(got') = pos + 1
          /\ Len(got') = Len(got) + 1
      BY <1>6, <1>10, <1>12, <3>3 DEF Last
    <3>5. QED
      BY <1>1, <1>3, <1>6, <1>8, <3>2, <3>3, <3>4 DEF Alike, Stands, Full
  <2>4. CASE CloseBefore
    <3>1. closes
      BY <1>4, <2>2, <2>4 DEF CloseBefore
    <3>2. Stands(after, pos + 1, pos + 1, 1, Append(closed, Len(got)))
      BY <1>9, <2>2, <3>1
    <3>3. got' = got /\ ahead' = pos + 1 /\ ahead' # 0
      BY <1>6, <2>4 DEF CloseBefore
    <3>4. QED
      BY <1>1, <1>3, <1>6, <1>8, <1>12, <3>2, <3>3 DEF Alike, Stands, Full
  <2>5. QED
    BY <2>3, <2>4
<1>13. QED
  BY <1>11, <1>12

\* The frame that closed a session opens the next one.
LEMMA AlikeOpens ==
  ASSUME Types, cfg.stream, Alike, TakeAhead
  PROVE  Alike'
<1>1. /\ ahead # 0 /\ got = <<>> /\ got' = <<ahead>> /\ ahead' = 0
      /\ UNCHANGED <<cfg, pos, closed, highest, ingested>>
  BY DEF TakeAhead
<1>2. At(pos)' = At(pos)
  BY <1>1, DryRunStays DEF At
<1>3. PICK st : st = At(pos)
  OBVIOUS
<1>4. Stands(st, ahead, ahead, 1, closed)
  BY <1>1, <1>3 DEF Alike
<1>5. got' # <<>> /\ Head(got') = ahead /\ Last(got') = ahead /\ Len(got') = 1
  BY <1>1 DEF Last
<1>6. QED
  BY <1>1, <1>2, <1>3, <1>4, <1>5 DEF Alike, Stands, Full

\* A session that is closed is one of the dry run.
LEMMA AlikeStarts ==
  ASSUME Types, cfg.stream, Alike, StartBatch
  PROVE  Alike'
<1>1. /\ SessionClosed /\ got' = <<>> /\ closed' = Append(closed, Len(got))
      /\ UNCHANGED <<cfg, pos, ahead, highest, ingested>>
  BY DEF StartBatch, Enough
<1>2. At(pos)' = At(pos)
  BY <1>1, DryRunStays DEF At
<1>3. PICK st : st = At(pos)
  OBVIOUS
<1>4. got \in Seq(Nat) /\ got # <<>> /\ Len(got) \in Nat /\ Len(got) > 0
  BY <1>1 DEF Types, ReaderTypes, SessionClosed
<1>5. CASE ahead # 0
  BY <1>1, <1>2, <1>3, <1>4, <1>5 DEF Alike, Stands, Full
<1>6. CASE ahead = 0
  <2>1. Stands(st, Head(got), Last(got), Len(got), closed) /\ (Full(Len(got)) \/ Exhausted)
    BY <1>1, <1>3, <1>4, <1>6 DEF Alike, SessionClosed
  <2>2. closed' = Finish(st) /\ (st.length = 0 \/ Exhausted)
    BY <1>1, <1>4, <2>1 DEF Stands, Finish
  <2>3. Exhausted' = Exhausted
    BY <1>1 DEF Exhausted
  <2>4. QED
    BY <1>1, <1>2, <1>3, <1>6, <2>2, <2>3 DEF Alike, Finish
<1>7. QED
  BY <1>5, <1>6

\* Steps that do not read leave both where they are.
LEMMA AlikeStays ==
  ASSUME Alike, UNCHANGED <<ingestVars, cfg>>
  PROVE  Alike'
<1>1. UNCHANGED <<pos, ahead, got, closed, highest, ingested, cfg>>
  BY DEF ingestVars
<1>2. At(pos)' = At(pos)
  BY <1>1, DryRunStays DEF At
<1>3. Exhausted' = Exhausted
  BY <1>1 DEF Exhausted
<1>4. QED
  BY <1>1, <1>2, <1>3 DEF Alike, Stands, Full, Finish

\* The loop of a run of sessions is left when all is read, or for a stop or a breaker.
LEMMA LeftForCause ==
  ASSUME Types, [Next]_vars, phase' = "finalize", phase # "finalize", cfg.stream
  PROVE  stop' \/ broken' \/ (Exhausted /\ ahead = 0 /\ got = <<>> /\ UNCHANGED <<ingestVars, cfg>>)
<1>1. CASE NoMoreBatches
  BY <1>1 DEF NoMoreBatches
<1>2. ASSUME Open \/ OpenFails \/ StartReading \/ LeaveLoop \/ StartEmission \/ Resume PROVE FALSE
  BY <1>2 DEF Open, OpenFails, StartReading, LeaveLoop, StartEmission, Resume, EndsWith
<1>3. ASSUME EmissionFails \/ RequestStop \/ BreakerOpens \/ StageFails \/ DeliveryEnds PROVE FALSE
  BY <1>3 DEF EmissionFails, RequestStop, BreakerOpens, StageFails, DeliveryEnds, EndsWith
<1>4. ASSUME PublishOutput \/ PublishSidecar \/ PublishReport \/ PublishFails \/ Exit PROVE FALSE
  BY <1>4 DEF PublishOutput, PublishSidecar, PublishReport, PublishFails, Exit, Finalize, EndsWith
<1>5. ASSUME UNCHANGED vars PROVE FALSE
  BY <1>5 DEF vars, control
<1>6. CASE GivesUp
  BY <1>6, OtherEffects DEF GaveUp
<1>7. ASSUME TakeGenerated \/ StartBatch PROVE FALSE
  BY <1>7, OtherEffects DEF TookGenerated, StartedBatch
<1>8. ASSUME Read \/ ReadFails PROVE FALSE
  BY <1>8, ReadEffect DEF ReaderStep
<1>9. ASSUME StageReturns \/ ClassifyReturns \/ SessionReturns PROVE FALSE
  BY <1>9, StageEffect, ClassifyEffect, SessionEffect DEF InChain
<1>10. ASSUME GenerateReturns \/ AllGenerated \/ Route \/ BatchEnds PROVE FALSE
  BY <1>10, GenerateEffect DEF Route, BatchEnds, control
<1>11. QED
  BY <1>1, <1>2, <1>3, <1>4, <1>5, <1>6, <1>7, <1>8, <1>9, <1>10, Steps DEF Calm

\* Every step keeps reader and dry run together.
LEMMA ReaderInvStep == Types /\ ReaderInv /\ [Next]_vars => ReaderInv'
<1> SUFFICES ASSUME Types, ReaderInv, [Next]_vars, cfg'.stream, NoneBare' PROVE
       /\ phase' \notin Over => Alike'
       /\ phase' = "finalize" => stop' \/ broken' \/ (Exhausted' /\ ahead' = 0 /\ got' = <<>>)
  BY DEF ReaderInv
<1>1. \/ UNCHANGED <<ingestVars, cfg>>
      \/ Read \/ ReadFails \/ StartBatch
  <2>1. Calm => UNCHANGED <<ingestVars, cfg>>
    BY CalmFrame DEF recordVars
  <2>2. GivesUp \/ TakeGenerated => UNCHANGED <<ingestVars, cfg>>
    BY OtherEffects DEF GaveUp, TookGenerated
  <2>3. StageReturns \/ ClassifyReturns \/ SessionReturns => UNCHANGED <<ingestVars, cfg>>
    BY StageEffect, ClassifyEffect, SessionEffect DEF InChain
  <2>4. GenerateReturns \/ AllGenerated \/ Route \/ BatchEnds => UNCHANGED <<ingestVars, cfg>>
    BY GenerateEffect DEF Route, BatchEnds
  <2>5. QED
    BY <2>1, <2>2, <2>3, <2>4, Steps
<1>1a. NoneBare
  <2>1. Read \/ ReadFails \/ StartBatch => cfg' = cfg
    BY ReadEffect, OtherEffects DEF ReaderStep, StartedBatch
  <2>2. QED
    BY <1>1, <2>1 DEF NoneBare
<1>2. CASE UNCHANGED <<ingestVars, cfg>>
  <2>1. phase \in Over => phase' \in Over
    BY OnlyPublishing DEF Exit, Over, vars, control
  <2>2. phase' \notin Over => Alike'
    BY <1>1a, <1>2, <2>1, AlikeStays DEF ReaderInv
  <2>3. Exhausted' = Exhausted /\ ahead' = ahead /\ got' = got /\ cfg.stream
    BY <1>2 DEF Exhausted, ingestVars
  <2>4. ASSUME phase' = "finalize", phase # "finalize"
        PROVE  stop' \/ broken' \/ (Exhausted' /\ ahead' = 0 /\ got' = <<>>)
    BY <2>3, <2>4, LeftForCause
  <2>5. ASSUME phase' = "finalize", phase = "finalize"
        PROVE  stop' \/ broken' \/ (Exhausted' /\ ahead' = 0 /\ got' = <<>>)
    <3>1. UNCHANGED vars
      BY <2>5, OnlyPublishing
         DEF Publishing, PublishOutput, PublishSidecar, PublishReport, PublishFails, Finalize, EndsWith
    <3>2. QED
      BY <1>1a, <2>3, <2>5, <3>1 DEF ReaderInv, vars, control
  <2>6. QED
    BY <2>2, <2>4, <2>5
<1>3. CASE Read
  <2>1. /\ phase = "read" /\ phase' = "read" /\ cfg' = cfg
    BY <1>3, ReadEffect DEF ReaderStep
  <2>2. Alike /\ cfg.stream /\ ~SessionClosed
    BY <1>1a, <1>3, <2>1 DEF ReaderInv, Over, Read, Enough
  <2>3. \/ SkipBlank \/ SkipBad \/ TakeAhead
        \/ ahead = 0 /\ (SkipDisordered \/ JoinFrame \/ CloseBefore)
    BY <1>3, <2>2 DEF Read
  <2>4. Alike'
    BY <1>1a, <2>2, <2>3, AlikeSkip, AlikeLate, AlikeFrame, AlikeOpens
  <2>5. QED
    BY <2>1, <2>4
<1>4. CASE ReadFails
  BY <1>4, ReadEffect DEF Over
<1>5. CASE StartBatch
  <2>1. phase = "read" /\ phase' = "chain" /\ cfg' = cfg
    BY <1>5, OtherEffects DEF StartedBatch
  <2>2. Alike'
    BY <1>1a, <1>5, <2>1, AlikeStarts DEF ReaderInv, Over
  <2>3. QED
    BY <2>1, <2>2
<1>6. QED
  BY <1>1, <1>2, <1>3, <1>4, <1>5

\* Before the first line both are at their start.
LEMMA ReaderInvInit == Init => ReaderInv
<1> SUFFICES ASSUME Init PROVE ReaderInv
  OBVIOUS
<1>1. cfg.lines \in Seq(Line) /\ cfg.limit \in Nat
  BY ConfigsAssumption DEF Init
<1>2. At(pos) = RehearsalStart
  BY <1>1, RehearsalSteps DEF Init, InitIngest
<1>3. highest = [k \in DOMAIN highest |-> 0]
  BY DEF Init, InitIngest
<1>4. Alike
  BY <1>1, <1>2, <1>3 DEF Alike, RehearsalStart, Finish, Init, InitIngest
<1>5. QED
  BY <1>4 DEF ReaderInv, Init

\* Behind the limit the dry run counts no more.
LEMMA DryRunEnds ==
  ASSUME Types, Alike, Exhausted
  PROVE  At(Len(cfg.lines)) = At(pos)
<1>1. /\ cfg.lines \in Seq(Line) /\ Len(cfg.lines) \in Nat /\ cfg.limit \in Nat
      /\ pos \in Nat /\ pos <= Len(cfg.lines)
  BY ConfigsAssumption DEF Types, ReaderTypes
<1>2. CASE pos = Len(cfg.lines)
  BY <1>2
<1>3. CASE ingested = cfg.limit
  <2> DEFINE Q == {n \in Nat : pos + n <= Len(cfg.lines) => At(pos + n) = At(pos)}
  <2>1. 0 \in Q
    BY <1>1
  <2>2. ASSUME NEW n \in Q PROVE n + 1 \in Q
    <3>1. SUFFICES ASSUME pos + (n + 1) <= Len(cfg.lines) PROVE At(pos + (n + 1)) = At(pos)
      BY <1>1
    <3>2. PICK i \in Nat : i = pos + n
      BY <1>1
    <3>3. i < Len(cfg.lines) /\ pos + (n + 1) = i + 1 /\ At(i) = At(pos)
      BY <1>1, <3>1, <3>2
    <3>4. At(i + 1) = RehearseLine(At(i), i + 1)
      BY <1>1, <3>3, RehearsalSteps
    <3>5. At(pos).frames >= cfg.limit
      BY <1>1, <1>3 DEF Alike
    <3>6. RehearseLine(At(pos), i + 1) = At(pos)
      BY <3>5, DryRunSkips
    <3>7. QED
      BY <3>3, <3>4, <3>6
  <2>3. Q = Nat
    BY <2>1, <2>2, SetInduction
  <2>4. PICK n \in Nat : Len(cfg.lines) = pos + n
    <3>1. Len(cfg.lines) - pos \in Nat /\ Len(cfg.lines) = pos + (Len(cfg.lines) - pos)
      BY <1>1
    <3>2. QED
      BY <3>1
  <2>5. n \in Q
    BY <2>3
  <2>6. pos + n <= Len(cfg.lines) => At(pos + n) = At(pos)
    BY <2>5
  <2>7. pos + n <= Len(cfg.lines)
    BY <1>1, <2>4
  <2>8. QED
    BY <2>4, <2>6, <2>7
<1>4. QED
  BY <1>2, <1>3 DEF Exhausted

(* The dry run closes the sessions that the run closes, for every input and *)
(* every setting of the assembler (RehearsalAgrees).                        *)
THEOREM RehearsalAgreesCorrect == ApplicationSpec => []RehearsalAgrees
<1>1. StartUp => ReaderInv
  BY ReaderInvInit DEF StartUp
<1>2. ApplicationInv /\ ReaderInv /\ [Loading \/ Running(Next)]_allVars => ReaderInv'
  <2> SUFFICES ASSUME ApplicationInv, ReaderInv, [Loading \/ Running(Next)]_allVars
               PROVE  ReaderInv'
    OBVIOUS
  <2>1. Types
    BY DEF ApplicationInv, WorkflowInv
  <2>2. CASE Loading
    <3>1. phase = "open" /\ phase' = "open" /\ UNCHANGED <<ingestVars, cfg>>
      BY <2>2, LoadingFrame DEF ApplicationInv, IdleWorkflow
    <3>2. NoneBare' <=> NoneBare
      BY <3>1 DEF NoneBare
    <3>3. QED
      BY <3>1, <3>2, AlikeStays DEF ReaderInv, Over
  <2>3. CASE Running(Next) \/ UNCHANGED allVars
    BY <2>1, <2>3, ReaderInvStep DEF Running, allVars
  <2>4. QED
    BY <2>2, <2>3
<1>3. ApplicationInv /\ ReaderInv => RehearsalAgrees
  <2> SUFFICES ASSUME ApplicationInv, ReaderInv, cfg.stream, phase = "finalize", ~stop, ~broken,
                      NoneBare
               PROVE  closed = Rehearsed
    BY DEF RehearsalAgrees, NoneBare
  <2>1. Types
    BY DEF ApplicationInv, WorkflowInv
  <2>2. Alike /\ Exhausted /\ ahead = 0 /\ got = <<>>
    BY DEF ReaderInv, Over
  <2>3. closed = Finish(At(pos))
    BY <2>2 DEF Alike
  <2>4. cfg.lines \in Seq(Line)
    BY <2>1, ConfigsAssumption DEF Types, ReaderTypes
  <2>5. Rehearsed = Finish(At(pos))
    BY <2>1, <2>2, <2>4, DryRunEnds, RehearsalSteps
  <2>6. QED
    BY <2>3, <2>5
<1>4. QED
  BY <1>1, <1>2, <1>3, ApplicationInvariant, PTL DEF ApplicationSpec
-------------------------------------------------------------------------------
(* What the checks accept, the stages can be run with                      *)

\* What is known of the project while it is checked and once it is accepted.
LoadInv ==
  /\ load \in {"check", "accepted"} => options = Parsed
  /\ load = "accepted" => ~Misread /\ Valid

\* Nothing is written to the project after it was read: what was checked holds.
LEMMA CheckedStays ==
  ASSUME UNCHANGED <<project, options>>
  PROVE  Valid' = Valid /\ Misread' = Misread /\ Parsed' = Parsed
<1>1. Valid' = Valid
  BY DEF Valid, Dedup, ProfileRefs, CrossField, GenerationForm, RunMode, SchemaAndHooks,
         GlobalRubric, ClassifyAndViews, VisionProfiles, StageMatrix, StageSwitches, StreamKeys,
         SegmentImage, FrameFamily, SequenceGeneration, Windows, StaticBudget, RequiredAndPaths,
         Table, Present, Written, Profiles, Profile, Embeddings, On, Modality, ProcessMode,
         SequenceForm, ImageMode, SequenceResolved, SegmentCalls, Own, ClassNames, HasViews,
         Selector, ClassQuality, ClassPostprocessor, ClassSchema, GlobalLevels, ClassLevels,
         FrameNames, FrameViewOn, FramePostprocessor, QualityProfiles, VerifyPanel, LlmOf,
         RepairProfile, VisionUsers, ReferencedAtLoad, Regions, ClassView, ClassTable,
         FrameClassView, Effective
<1>2. Misread' = Misread /\ Parsed' = Parsed
  BY DEF Misread, Parsed, Table
<1>3. QED
  BY <1>1, <1>2

\* Reading parses what is written, and only a project that passes is accepted.
LEMMA LoadInvStep == LoadInv /\ [Loading \/ Running(Next)]_allVars => LoadInv'
<1> SUFFICES ASSUME LoadInv, [Loading \/ Running(Next)]_allVars PROVE LoadInv'
  OBVIOUS
<1>1. CASE EditProject
  BY <1>1 DEF EditProject, LoadInv
<1>2. CASE ReadFiles
  <2>1. options' = Parsed /\ load' = "check" /\ UNCHANGED project
    BY <1>2 DEF ReadFiles
  <2>2. Parsed' = Parsed
    BY <2>1 DEF Parsed, Table
  <2>3. QED
    BY <2>1, <2>2 DEF LoadInv
<1>3. CASE Check
  <2>1. load = "check" /\ UNCHANGED <<project, options>>
    BY <1>3 DEF Check
  <2>2. (load' = "accepted" /\ ~Misread /\ Valid) \/ load' = "refused"
    BY <1>3 DEF Check, Refused
  <2>3. QED
    BY <2>1, <2>2, CheckedStays DEF LoadInv
<1>4. CASE FilesUnreadable \/ PlanFails \/ CredentialsMissing \/ Compose
  <2>1. load' \notin {"check", "accepted"}
    BY <1>4 DEF FilesUnreadable, PlanFails, CredentialsMissing, Compose, Refused
  <2>2. QED
    BY <2>1 DEF LoadInv
<1>5. CASE Running(Next) \/ UNCHANGED allVars
  <2>1. load' = load /\ UNCHANGED <<project, options>>
    BY <1>5 DEF Running, applicationVars, allVars
  <2>2. QED
    BY <2>1, CheckedStays DEF LoadInv
<1>6. QED
  BY <1>1, <1>2, <1>3, <1>4, <1>5 DEF Loading

\* A class overrides how records are selected, never which models rate them.
LEMMA PanelOfView ==
  ASSUME options = Parsed, NEW c
  PROVE  /\ ClassQuality(c).llm = options.quality.llm
         /\ ClassQuality(c).judges = options.quality.judges
         /\ PanelOf(ClassQuality(c))
              \subseteq {options.quality.llm} \union Range(options.quality.judges)
<1>1. DOMAIN options.quality = DOMAIN QualityDefaults
  BY DEF Parsed, Sections, Parse
<1>2. /\ ClassQuality(c).llm = options.quality.llm
      /\ ClassQuality(c).judges = options.quality.judges
  BY <1>1 DEF ClassQuality, SelectionGroup, QualityDefaults
<1>3. QED
  BY <1>2 DEF PanelOf

\* The sequence form has no segmentation, no stage behind one, and a class.
LEMMA SequenceFormIsPlain ==
  ASSUME Valid, SequenceForm
  PROVE  /\ \A s \in {"segment", "stitch", "extract", "classify", "frame_classify"} : ~On(s)
         /\ ~ImageMode /\ ~SequenceResolved /\ ~SegmentCalls
         /\ On("generate") /\ On("dedup") /\ Modality = "text" /\ ClassNames # {}
<1>1. /\ On("generate") /\ On("dedup") /\ Modality = "text"
      /\ ~On("classify") /\ ~On("frame_classify")
  BY DEF Valid, GenerationForm
<1>2. ~On("segment") /\ ~On("stitch") /\ ~On("extract")
  BY <1>1 DEF Valid, StageSwitches
<1>3. ~ImageMode /\ ~SequenceResolved /\ ~SegmentCalls
  BY <1>2 DEF ImageMode, SequenceResolved, SegmentCalls
<1>4. ClassNames # {}
  BY DEF Valid, SequenceGeneration
<1>5. QED
  BY <1>1, <1>2, <1>3, <1>4

\* The models that rate records are declared, and the checks have looked at them.
LEMMA PanelsChecked ==
  ASSUME options = Parsed, Valid
  PROVE  /\ RecordPanels \subseteq Profiles
         /\ ~SequenceForm =>
              RecordPanels \subseteq (IF On("quality") THEN QualityProfiles ELSE {})
<1>1. {options.quality.llm} \union Range(options.quality.judges) \subseteq Profiles
  BY DEF Valid, ProfileRefs
<1>2. PanelOf(options.quality) \subseteq Profiles
  BY <1>1 DEF PanelOf
<1>3. \A c : PanelOf(ClassQuality(c)) \subseteq Profiles
  BY <1>1, PanelOfView
<1>4. RecordPanels \subseteq Profiles
  BY <1>1, <1>2, <1>3 DEF RecordPanels
<1>5. On("classify") => ClassNames # {}
  BY DEF Valid, ClassifyAndViews, ClassTable, ClassNames
<1>6. ASSUME ~SequenceForm
      PROVE  RecordPanels \subseteq (IF On("quality") THEN QualityProfiles ELSE {})
  BY <1>5, <1>6 DEF RecordPanels, QualityProfiles
<1>7. QED
  BY <1>4, <1>6

\* Every caller has a declared profile.
LEMMA CallersDeclared ==
  ASSUME options = Parsed, Valid
  PROVE  Callers \subseteq Profiles
<1>1. /\ LlmOf({"stitch", "classify", "frame_classify", "frame_annotate", "extract"})
           \subseteq Profiles
      /\ (IF SegmentCalls THEN {options.segment.llm} ELSE {}) \subseteq Profiles
      /\ options.annotate.llm \in Profiles
      /\ ~SequenceForm => Range(options.generate.llms) \subseteq Profiles
      /\ (IF On("verify") THEN VerifyPanel ELSE {}) \subseteq Profiles
      /\ RepairProfile \subseteq Profiles
  BY DEF Valid, ProfileRefs
<1>2. LlmOf({"classify", "frame_classify", "extract", "annotate", "frame_annotate"})
        \subseteq Profiles
  BY <1>1 DEF LlmOf
<1>3. LlmOf({"stitch"}) \subseteq Profiles
  BY <1>1 DEF LlmOf
<1>4. ImageCallers \subseteq Profiles
  BY <1>1, <1>2, PanelsChecked DEF ImageCallers
<1>5. SequenceForm =>
        {options.sequence.semantic_llm, options.sequence.evaluation_llm} \subseteq Profiles
  BY DEF Valid, SequenceGeneration
<1>6. TextCallers \subseteq Profiles
  BY <1>1, <1>3, <1>5 DEF TextCallers
<1>7. Repairers(ImageCallers \union TextCallers) \subseteq Profiles
  BY <1>1 DEF Repairers
<1>8. QED
  BY <1>4, <1>6, <1>7 DEF Callers

\* Every caller gets a permit.
LEMMA CallersReferenced ==
  ASSUME options = Parsed, Valid
  PROVE  Callers \subseteq Referenced
<1>1. CASE SequenceForm
  <2>1. /\ \A s \in {"segment", "stitch", "extract", "classify", "frame_classify"} : ~On(s)
        /\ ~SegmentCalls /\ ClassNames # {} /\ Referenced = ReferencedSequence
    BY <1>1, SequenceFormIsPlain DEF Referenced
  <2>2. LlmOf({"classify", "frame_classify", "extract", "annotate", "frame_annotate"})
          \subseteq ReferencedSequence
    BY <2>1 DEF LlmOf, ReferencedSequence
  <2>3. RecordPanels \subseteq ReferencedSequence
    BY <1>1, <2>1 DEF RecordPanels, LlmOf, ReferencedSequence
  <2>4. ImageCallers \subseteq ReferencedSequence
    BY <2>1, <2>2, <2>3 DEF ImageCallers, ReferencedSequence
  <2>5. TextCallers \subseteq ReferencedSequence
    BY <1>1, <2>1 DEF TextCallers, LlmOf, ReferencedSequence
  <2>6. QED
    BY <2>1, <2>4, <2>5 DEF Callers, Repairers, ReferencedSequence
<1>2. CASE ~SequenceForm
  <2>1. Referenced = ReferencedFlat
    BY <1>2 DEF Referenced
  <2>2. LlmOf({"classify", "frame_classify", "extract", "annotate", "frame_annotate"})
          \subseteq ReferencedFlat
    BY DEF LlmOf, ReferencedFlat
  <2>3. RecordPanels \subseteq ReferencedFlat
    BY <1>2 DEF RecordPanels, ReferencedFlat
  <2>4. ImageCallers \subseteq ReferencedFlat
    BY <2>2, <2>3 DEF ImageCallers, ReferencedFlat
  <2>5. TextCallers \subseteq ReferencedFlat
    BY <1>2 DEF TextCallers, LlmOf, ReferencedFlat
  <2>6. Repairers(ImageCallers \union TextCallers) \subseteq ReferencedFlat
    BY DEF Repairers, ReferencedFlat
  <2>7. QED
    BY <2>1, <2>4, <2>5, <2>6 DEF Callers
<1>3. QED
  BY <1>1, <1>2

\* The embedding that the deduplication asks for is declared.
LEMMA EmbeddingsDeclared ==
  ASSUME Valid
  PROVE  ReferencedEmbeddings \subseteq Embeddings
<1>1. options.dedup.semantic /\ ~ImageMode => options.dedup.semantic_embedding \in Embeddings
  BY DEF Valid, Dedup
<1>2. ImageMode => ~options.dedup.semantic
  BY DEF Valid, SegmentImage
<1>3. QED
  BY <1>1, <1>2 DEF ReferencedEmbeddings

\* What is sent images can see them, and so can what repairs its answers.
LEMMA CallersSee ==
  ASSUME options = Parsed, Valid, Modality = "ui",
         NEW name \in ImageCallers
                        \union (IF On("segment") \/ (ProcessMode /\ On("annotate"))
                                THEN Repairers(ImageCallers) ELSE {})
  PROVE  Profile(name).vision
<1>1. ~SequenceForm
  BY SequenceFormIsPlain
<1>2. ImageCallers \subseteq VisionUsers
  BY <1>1, PanelsChecked DEF ImageCallers, VisionUsers, LlmOf
<1>3. On("segment") \/ (ProcessMode /\ On("annotate")) =>
        Repairers(ImageCallers) \subseteq VisionUsers
  BY <1>1, PanelsChecked DEF ImageCallers, VisionUsers, LlmOf, Repairers
<1>4. name \in VisionUsers
  BY <1>2, <1>3
<1>5. name \in Profiles
  BY CallersDeclared DEF Callers, Repairers
<1>6. QED
  BY <1>4, <1>5 DEF Valid, VisionProfiles

\* What is sent complete evidence has a window that was declared, and that holds its prompt.
LEMMA CallersFit ==
  ASSUME options = Parsed, Valid
  PROVE  /\ On("segment") => \A name \in Callers : Profile(name).window # 0
         /\ SequenceForm => \A name \in TextCallers : Profile(name).window # 0
         /\ \A name \in ImageCallers \union LlmOf({"stitch"}) :
              ~SequenceForm => Profile(name).window # 1
<1>1. ASSUME On("segment"), NEW name \in Callers
      PROVE  Profile(name).window # 0
  <2>1. ~SequenceForm
    BY <1>1, SequenceFormIsPlain
  <2>2. ImageCallers \subseteq ReferencedAtLoad
    BY <2>1, PanelsChecked DEF ImageCallers, ReferencedAtLoad, LlmOf
  <2>3. TextCallers \subseteq ReferencedAtLoad
    BY <2>1 DEF TextCallers, ReferencedAtLoad, LlmOf
  <2>4. Repairers(ImageCallers \union TextCallers) \subseteq ReferencedAtLoad
    BY DEF Repairers, ReferencedAtLoad
  <2>5. name \in ReferencedAtLoad \intersect Profiles
    BY <1>1, <2>2, <2>3, <2>4, CallersDeclared DEF Callers
  <2>6. QED
    BY <1>1, <2>5 DEF Valid, Windows
<1>2. ASSUME SequenceForm, NEW name \in TextCallers
      PROVE  Profile(name).window # 0
  <2>1. name \in {options.sequence.semantic_llm, options.sequence.evaluation_llm}
    BY <1>2, SequenceFormIsPlain DEF TextCallers, LlmOf
  <2>2. Profile(name).window > 0
    BY <1>2, <2>1 DEF Valid, SequenceGeneration
  <2>3. QED
    BY <2>2
<1>3. ASSUME NEW name \in ImageCallers \union LlmOf({"stitch"}), ~SequenceForm
      PROVE  Profile(name).window # 1
  <2>1. name \in Profiles
    BY <1>3, CallersDeclared DEF Callers, TextCallers
  <2>2. name \in (IF SegmentCalls THEN {options.segment.llm} ELSE {})
                   \union LlmOf({"stitch", "classify", "extract", "annotate", "frame_classify",
                                 "frame_annotate"})
                   \union (IF On("quality") THEN QualityProfiles ELSE {})
                   \union (IF On("verify") THEN VerifyPanel ELSE {})
    BY <1>3, PanelsChecked DEF ImageCallers, LlmOf
  <2>3. QED
    BY <2>1, <2>2 DEF Valid, StaticBudget
<1>4. QED
  BY <1>1, <1>2, <1>3

\* A class without a view of its own has the hook of the project.
LEMMA HooksLoad ==
  ASSUME Valid
  PROVE  /\ \A c : Loads(ClassPostprocessor(c))
         /\ \A f : Loads(FramePostprocessor(f))
<1>1. Loads(options.annotate.postprocessor) /\ Loads(options.frame_annotate.postprocessor)
  BY DEF Valid, SchemaAndHooks
<1>2. ASSUME NEW c PROVE Loads(ClassPostprocessor(c))
  <2>1. c \in DOMAIN project["class"] => Loads(ClassPostprocessor(c))
    BY DEF Valid, ClassifyAndViews
  <2>2. c \notin DOMAIN project["class"] =>
          ClassPostprocessor(c) = options.annotate.postprocessor
    BY DEF ClassPostprocessor, Own, Table, Take
  <2>3. QED
    BY <1>1, <2>1, <2>2
<1>3. ASSUME NEW f PROVE Loads(FramePostprocessor(f))
  <2>1. f \in DOMAIN project["frame_class"] => Loads(FramePostprocessor(f))
    BY DEF Valid, FrameFamily
  <2>2. f \notin DOMAIN project["frame_class"] =>
          FramePostprocessor(f) = options.frame_annotate.postprocessor
    BY DEF FramePostprocessor, Table, Take
  <2>3. QED
    BY <1>1, <2>1, <2>2
<1>4. QED
  BY <1>2, <1>3

\* A field that a hook fills in has its hook, in the view of every class and frame class.
LEMMA ViewsServe ==
  ASSUME Valid
  PROVE  /\ HasViews =>
              \A c \in ClassNames :
                LET quality == ClassQuality(c)
                IN /\ quality.selection = "top_ratio" =>
                        quality.top_ratio # None /\ quality.threshold = None
                   /\ ClassSchema(c) = "owned" /\ On("annotate") =>
                        ClassPostprocessor(c) \notin {None, "broken"}
                   /\ ClassSchema(c) = "regions" => ImageMode
         /\ On("classify") => options.classify.fallback_class \in ClassNames
         /\ On("frame_annotate") /\ options.frame_annotate.schema = "owned" =>
              \A f \in FrameNames :
                FrameViewOn(f) => FramePostprocessor(f) \notin {None, "broken"}
<1>1. ASSUME HasViews, NEW c \in ClassNames
      PROVE  /\ ClassQuality(c).selection = "top_ratio" =>
                  ClassQuality(c).top_ratio # None /\ ClassQuality(c).threshold = None
             /\ ClassSchema(c) = "owned" /\ On("annotate") =>
                  ClassPostprocessor(c) \notin {None, "broken"}
             /\ ClassSchema(c) = "regions" => ImageMode
  <2>1. ClassView(c)
    BY <1>1 DEF Valid, ClassifyAndViews
  <2>2. ClassPostprocessor(c) # "broken"
    BY HooksLoad DEF Loads
  <2>3. QED
    BY <2>1, <2>2 DEF ClassView, Owned, Regions
<1>2. On("classify") => options.classify.fallback_class \in ClassNames
  BY DEF Valid, ClassifyAndViews, ClassTable, ClassNames
<1>3. ASSUME On("frame_annotate"), options.frame_annotate.schema = "owned",
             NEW f \in FrameNames, FrameViewOn(f)
      PROVE  FramePostprocessor(f) \notin {None, "broken"}
  <2>1. FramePostprocessor(f) # "broken"
    BY HooksLoad DEF Loads
  <2>2. CASE On("frame_classify") \/ SequenceForm
    BY <1>3, <2>1, <2>2 DEF Valid, FrameFamily, FrameClassView, Owned
  <2>3. CASE ~(On("frame_classify") \/ SequenceForm)
    <3>1. options.frame_annotate.postprocessor # None /\ f \notin DOMAIN project["frame_class"]
      BY <1>3, <2>3 DEF Valid, FrameFamily, Owned
    <3>2. FramePostprocessor(f) = options.frame_annotate.postprocessor
      BY <3>1 DEF FramePostprocessor, Table, Take
    <3>3. QED
      BY <2>1, <3>1, <3>2
  <2>4. QED
    BY <2>2, <2>3
<1>4. QED
  BY <1>1, <1>2, <1>3

(* The checks of a project, the permits it gets and what its stages call   *)
(* agree, for every project that is written and edited (AcceptedServes).   *)
THEOREM AcceptedServesCorrect == ApplicationSpec => []AcceptedServes
<1>1. StartUp => LoadInv
  BY DEF StartUp, LoadInv
<1>2. LoadInv => AcceptedServes
  <2> SUFFICES ASSUME LoadInv, load = "accepted" PROVE AcceptedServes
    BY DEF AcceptedServes
  <2>1. options = Parsed /\ Valid
    BY DEF LoadInv
  <2>2. QED
    BY <2>1, CallersDeclared, CallersReferenced, EmbeddingsDeclared, CallersSee, CallersFit,
       ViewsServe DEF AcceptedServes
<1>3. QED
  BY <1>1, <1>2, LoadInvStep, PTL DEF ApplicationSpec
================================================================================
