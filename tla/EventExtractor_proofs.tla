----------------------- MODULE EventExtractor_proofs -----------------------
(***************************************************************************)
(* What extractEvents sends, for every archive and every set of unpacked   *)
(* files: each resource that is kept, once, kind after kind.               *)
(***************************************************************************)
EXTENDS EventExtractor, FiniteSetTheorems, TLAPS

LEMMA KindType ==
    ASSUME NEW archive \in Seq(Resource), NEW i \in DOMAIN archive
    PROVE  /\ Kind(archive, i) \in 1 .. 4
           /\ archive[i].name = "Event" <=> Kind(archive, i) = 4
  <1>1. archive[i] \in Resource
    OBVIOUS
  <1>2. archive[i].name \in {"HostState", "ClusterState", "InfraEnv", "Event"}
    BY <1>1 DEF Resource
  <1> QED
    BY <1>2 DEF Kind, eventTypesMatches

(* Precedes is a strict total order on the positions of an archive. *)
LEMMA PrecedesOrder ==
    ASSUME NEW archive \in Seq(Resource)
    PROVE  /\ \A i \in DOMAIN archive : ~Precedes(archive, i, i)
           /\ \A i, j \in DOMAIN archive : i # j => Precedes(archive, i, j) \/ Precedes(archive, j, i)
           /\ \A i, j, k \in DOMAIN archive :
                 Precedes(archive, i, j) /\ Precedes(archive, j, k) => Precedes(archive, i, k)
  <1>1. DOMAIN archive \subseteq Nat
    OBVIOUS
  <1>2. \A i \in DOMAIN archive : Kind(archive, i) \in Nat
    BY KindType
  <1> QED
    BY <1>1, <1>2 DEF Precedes

LEMMA KeptFinite ==
    ASSUME NEW archive \in Seq(Resource), NEW files
    PROVE  /\ Kept(archive, files) \subseteq DOMAIN archive
           /\ IsFiniteSet(Kept(archive, files))
           /\ Cardinality(Kept(archive, files)) \in Nat
  <1>1. Kept(archive, files) \subseteq DOMAIN archive
    BY DEF Kept
  <1>2. DOMAIN archive = 1 .. Len(archive) /\ Len(archive) \in Nat
    OBVIOUS
  <1>3. IsFiniteSet(DOMAIN archive)
    BY <1>2, FS_Interval
  <1>4. IsFiniteSet(Kept(archive, files))
    BY <1>1, <1>3, FS_Subset
  <1> QED
    BY <1>1, <1>4, FS_CardinalityType

(* The number of kept resources before i. *)
Rank(archive, files, i) ==
    Cardinality({j \in Kept(archive, files) : Precedes(archive, j, i)})

LEMMA RankType ==
    ASSUME NEW archive \in Seq(Resource), NEW files, NEW i \in Kept(archive, files)
    PROVE  Rank(archive, files, i) \in 0 .. Cardinality(Kept(archive, files)) - 1
  <1> DEFINE K == Kept(archive, files)
             B == {j \in K : Precedes(archive, j, i)}
  <1>1. IsFiniteSet(K) /\ Cardinality(K) \in Nat /\ K \subseteq DOMAIN archive
    BY KeptFinite
  <1>2. i \notin B
    BY <1>1, PrecedesOrder
  <1>3. B \in SUBSET (K \ {i})
    BY <1>2
  <1>4. IsFiniteSet(K \ {i}) /\ Cardinality(K \ {i}) = Cardinality(K) - 1
    BY <1>1, FS_RemoveElement
  <1>5. IsFiniteSet(B) /\ Cardinality(B) <= Cardinality(K \ {i})
    <2> HIDE DEF K, B
    <2> QED
      BY <1>3, <1>4, FS_Subset
  <1>6. Cardinality(B) \in Nat
    BY <1>5, FS_CardinalityType
  <1>7. Rank(archive, files, i) = Cardinality(B)
    BY DEF Rank
  <1> HIDE DEF K, B
  <1>8. Rank(archive, files, i) \in 0 .. Cardinality(K) - 1
    BY <1>1, <1>4, <1>5, <1>6, <1>7
  <1> QED
    BY <1>8 DEF K

LEMMA RankIncreases ==
    ASSUME NEW archive \in Seq(Resource), NEW files, NEW i \in Kept(archive, files),
           NEW j \in Kept(archive, files), Precedes(archive, j, i)
    PROVE  Rank(archive, files, j) < Rank(archive, files, i)
  <1> DEFINE K == Kept(archive, files)
             B(h) == {k \in K : Precedes(archive, k, h)}
  <1>1. IsFiniteSet(K) /\ K \subseteq DOMAIN archive
    BY KeptFinite
  <1>2. B(j) \in SUBSET B(i)
    BY <1>1, PrecedesOrder
  <1>3. j \in B(i) /\ j \notin B(j)
    BY <1>1, PrecedesOrder
  <1>4. IsFiniteSet(B(i))
    BY <1>1, FS_Subset
  <1>5. Rank(archive, files, i) = Cardinality(B(i)) /\ Rank(archive, files, j) = Cardinality(B(j))
    BY DEF Rank
  <1>6. /\ Cardinality(B(j)) <= Cardinality(B(i))
        /\ Cardinality(B(i)) = Cardinality(B(j)) => B(i) = B(j)
    <2> HIDE DEF K, B
    <2> QED
      BY <1>2, <1>4, FS_Subset
  <1>7. Rank(archive, files, i) \in Nat /\ Rank(archive, files, j) \in Nat
    BY RankType, KeptFinite
  <1> HIDE DEF K, B
  <1> QED
    BY <1>3, <1>5, <1>6, <1>7

(* Every place in the sequence of events has exactly one resource. *)
LEMMA RankOnto ==
    ASSUME NEW archive \in Seq(Resource), NEW files,
           NEW n \in 1 .. Cardinality(Kept(archive, files))
    PROVE  \E i \in Kept(archive, files) : Rank(archive, files, i) = n - 1
  <1> DEFINE K == Kept(archive, files)
             N == Cardinality(K)
             T == (0 .. N - 1) \ {n - 1}
             f == [i \in K |-> Rank(archive, files, i)]
  <1>1. IsFiniteSet(K) /\ N \in Nat /\ K \subseteq DOMAIN archive /\ n \in 1 .. N
    BY KeptFinite
  <1>2. IsFiniteSet(0 .. N - 1) /\ Cardinality(0 .. N - 1) = N
    <2> HIDE DEF N
    <2>1. PICK a, b : a = 0 /\ b = N - 1
      OBVIOUS
    <2>2. a \in Int /\ b \in Int /\ ~(a > b) /\ b - a + 1 = N
      BY <1>1, <2>1
    <2>3. IsFiniteSet(a .. b) /\ Cardinality(a .. b) = N
      BY <2>2, FS_Interval
    <2> QED
      BY <2>1, <2>3
  <1>3. n - 1 \in 0 .. N - 1
    BY <1>1
  <1>4. IsFiniteSet(T) /\ Cardinality(T) = N - 1
    <2> HIDE DEF N
    <2> QED
      BY <1>2, <1>3, FS_RemoveElement
  <1> SUFFICES ASSUME \A i \in K : Rank(archive, files, i) # n - 1
               PROVE  FALSE
    OBVIOUS
  <1>5. f \in [K -> T]
    BY RankType
  <1>6. \A i, j \in K : i # j => Rank(archive, files, i) # Rank(archive, files, j)
    <2> SUFFICES ASSUME NEW i \in K, NEW j \in K, i # j
                 PROVE  Rank(archive, files, i) # Rank(archive, files, j)
      OBVIOUS
    <2>1. Precedes(archive, i, j) \/ Precedes(archive, j, i)
      BY <1>1, PrecedesOrder
    <2>2. Rank(archive, files, i) \in Nat /\ Rank(archive, files, j) \in Nat
      BY RankType, <1>1
    <2>3. \/ Rank(archive, files, i) < Rank(archive, files, j)
          \/ Rank(archive, files, j) < Rank(archive, files, i)
      BY <2>1, RankIncreases
    <2> QED
      BY <2>2, <2>3
  <1>7. \A i, j \in K : i # j => f[i] # f[j]
    BY <1>6
  <1>8. Cardinality(T) < Cardinality(K)
    BY <1>1, <1>4
  <1>9. \E i, j \in K : i # j /\ f[i] = f[j]
    <2> HIDE DEF K, T, f
    <2> QED
      BY <1>1, <1>4, <1>5, <1>8, FS_PigeonHole
  <1> QED
    BY <1>7, <1>9

(* The resource in place n. *)
LEMMA ExtractedAt ==
    ASSUME NEW archive \in Seq(Resource), NEW files,
           NEW n \in 1 .. Cardinality(Kept(archive, files))
    PROVE  /\ extractEvents(archive, files)[n] \in Kept(archive, files)
           /\ Rank(archive, files, extractEvents(archive, files)[n]) = n - 1
  <1>1. extractEvents(archive, files)[n]
          = CHOOSE i \in Kept(archive, files) : Rank(archive, files, i) = n - 1
    BY DEF extractEvents, Rank
  <1>2. \E i \in Kept(archive, files) : Rank(archive, files, i) = n - 1
    BY RankOnto
  <1> QED
    BY <1>1, <1>2

(* extractEvents sends the resources it keeps, all of them, and the events *)
(* after the states: transformResourcesToEvents leaves nothing else out    *)
(* and the kinds are gone through in the order of eventTypesMatches.       *)
THEOREM EventsExtracted ==
    ASSUME NEW archive \in Seq(Resource), NEW files
    PROVE  LET s == extractEvents(archive, files)
           IN  /\ s \in Seq(Kept(archive, files))
               /\ Len(s) = Cardinality(Kept(archive, files))
               /\ \A i \in Kept(archive, files) : \E n \in 1 .. Len(s) : s[n] = i
               /\ \A m, n \in 1 .. Len(s) :
                     m < n /\ archive[s[m]].name = "Event" => archive[s[n]].name = "Event"
  <1> DEFINE K == Kept(archive, files)
             N == Cardinality(K)
             s == extractEvents(archive, files)
  <1>1. K \subseteq DOMAIN archive /\ N \in Nat
    BY KeptFinite
  <1>2. s = [n \in 1 .. N |-> s[n]]
    <2>1. s = [n \in 1 .. N |-> CHOOSE i \in K : Rank(archive, files, i) = n - 1]
      BY DEF extractEvents, Rank
    <2> HIDE DEF s, N, K
    <2> QED
      BY <2>1
  <1>3. \A n \in 1 .. N : s[n] \in K /\ Rank(archive, files, s[n]) = n - 1
    BY ExtractedAt
  <1>4. s \in Seq(K) /\ Len(s) = N
    <2> HIDE DEF s, N, K
    <2> QED
      BY <1>1, <1>2, <1>3
  <1>5. ASSUME NEW i \in K PROVE \E n \in 1 .. Len(s) : s[n] = i
    <2>1. Rank(archive, files, i) \in 0 .. N - 1
      BY RankType
    <2>2. PICK n \in 1 .. N : n - 1 = Rank(archive, files, i)
      <3> HIDE DEF N
      <3>1. Rank(archive, files, i) + 1 \in 1 .. N
        BY <1>1, <2>1
      <3> QED
        BY <2>1, <3>1
    <2>3. s[n] \in K /\ Rank(archive, files, s[n]) = Rank(archive, files, i)
      BY <1>3, <2>2
    <2>4. s[n] = i
      <3> SUFFICES ASSUME s[n] # i PROVE FALSE
        OBVIOUS
      <3>1. Precedes(archive, s[n], i) \/ Precedes(archive, i, s[n])
        BY <1>1, <2>3, PrecedesOrder
      <3>2. \/ Rank(archive, files, s[n]) < Rank(archive, files, i)
            \/ Rank(archive, files, i) < Rank(archive, files, s[n])
        BY <2>3, <3>1, RankIncreases
      <3> HIDE DEF N
      <3> QED
        BY <1>1, <2>1, <2>3, <3>2
    <2> QED
      BY <1>4, <2>4
  <1>6. ASSUME NEW m \in 1 .. N, NEW n \in 1 .. N, m < n, archive[s[m]].name = "Event"
        PROVE  archive[s[n]].name = "Event"
    <2>1. s[m] \in K /\ s[n] \in K /\ Rank(archive, files, s[m]) = m - 1
            /\ Rank(archive, files, s[n]) = n - 1
      BY <1>3
    <2>2. ~Precedes(archive, s[n], s[m])
      BY <1>1, <1>6, <2>1, RankIncreases
    <2>3. Kind(archive, s[m]) = 4 /\ Kind(archive, s[n]) \in 1 .. 4
      BY <1>1, <1>6, <2>1, KindType
    <2>4. Kind(archive, s[n]) = 4
      BY <2>2, <2>3 DEF Precedes
    <2> QED
      BY <1>1, <2>1, <2>4, KindType
  <1> QED
    BY <1>4, <1>5, <1>6

(* Its two parts that the proofs about the process use. *)
LEMMA KeptListed ==
    ASSUME NEW archive \in Seq(Resource), NEW files, NEW i \in Kept(archive, files)
    PROVE  \E n \in 1 .. Len(extractEvents(archive, files)) : extractEvents(archive, files)[n] = i
  BY EventsExtracted

LEMMA EventsListedLast ==
    ASSUME NEW archive \in Seq(Resource), NEW files,
           NEW m \in 1 .. Len(extractEvents(archive, files)),
           NEW n \in 1 .. Len(extractEvents(archive, files)), m < n,
           archive[extractEvents(archive, files)[m]].name = "Event"
    PROVE  archive[extractEvents(archive, files)[n]].name = "Event"
  BY EventsExtracted
=============================================================================
