-------------------------- MODULE Standalone_proofs --------------------------
(* Theorems about the three modules that no other module composes, one after   *)
(* the other: Idempotency, RetryHandler and Dashboard.                         *)
EXTENDS Idempotency, RetryHandler, Dashboard, FunctionTheorems, FiniteSetTheorems,
        SequenceTheorems, WellFoundedInduction, TLAPS

-----------------------------------------------------------------------------
(* IDEMPOTENCY, for every set of messages, every event in them, every size of  *)
(* the Map and every clock. The lemmas say what the cleanup's stable sort and  *)
(* the Map's insertion order come to: ranks are distinct, and the entries that *)
(* are kept are the entries of the highest ranks, each once.                   *)

Entry == [key : Keys, processedAt : Nat]

LEMMA StrictSubset ==
    ASSUME NEW T, IsFiniteSet(T), NEW S, S \subseteq T, NEW x \in T, x \notin S
    PROVE  /\ IsFiniteSet(S) /\ Cardinality(S) \in Nat /\ Cardinality(T) \in Nat
           /\ Cardinality(S) < Cardinality(T)
  <1>1. IsFiniteSet(S) /\ Cardinality(S) <= Cardinality(T) /\ (Cardinality(T) = Cardinality(S) => S = T)
    BY FS_Subset
  <1>2. Cardinality(S) \in Nat /\ Cardinality(T) \in Nat
    BY <1>1, FS_CardinalityType
  <1> QED BY <1>1, <1>2

(* The places of the elements of a finite set of numbers are 0, 1, 2, ...      *)
Below(S, n) == {j \in S : j < n}

LEMMA PlacesBelow ==
    ASSUME NEW S, IsFiniteSet(S), S \subseteq Nat
    PROVE  /\ Cardinality(S) \in Nat
           /\ \A n \in S : Cardinality(Below(S, n)) \in 0..(Cardinality(S) - 1)
           /\ \A m, n \in S : m < n => Cardinality(Below(S, m)) < Cardinality(Below(S, n))
           /\ \A k \in 1..Cardinality(S) : \E n \in S : Cardinality(Below(S, n)) = k - 1
  <1>1. Cardinality(S) \in Nat
    BY FS_CardinalityType
  <1>2. ASSUME NEW n \in S
        PROVE  Cardinality(Below(S, n)) \in 0..(Cardinality(S) - 1)
    <2>1. Below(S, n) \subseteq S /\ n \notin Below(S, n)
      BY DEF Below
    <2>2. Cardinality(Below(S, n)) \in Nat /\ Cardinality(Below(S, n)) < Cardinality(S)
      BY <2>1, StrictSubset
    <2> QED BY <1>1, <2>2
  <1>3. ASSUME NEW m \in S, NEW n \in S, m < n
        PROVE  Cardinality(Below(S, m)) < Cardinality(Below(S, n))
    <2>1. Below(S, n) \subseteq S
      BY DEF Below
    <2>2. IsFiniteSet(Below(S, n))
      BY <2>1, FS_Subset
    <2>3. Below(S, m) \subseteq Below(S, n) /\ m \in Below(S, n) /\ m \notin Below(S, m)
      <3>1. \A j \in S : j \in Nat
        OBVIOUS
      <3>2. \A j \in S : j < m => j < n
        BY <1>3, <3>1
      <3>3. ~(m < m)
        BY <3>1
      <3> QED BY <1>3, <3>2, <3>3 DEF Below
    <2> QED BY <2>2, <2>3, StrictSubset
  <1>4. ASSUME NEW k \in 1..Cardinality(S)
        PROVE  \E n \in S : Cardinality(Below(S, n)) = k - 1
    <2> DEFINE place == [n \in S |-> Cardinality(Below(S, n))]
               all == 0..(Cardinality(S) - 1)
    <2>1. place \in [S -> all]
      BY <1>2
    <2>2. \A m, n \in S : place[m] = place[n] => m = n
      <3>1. ASSUME NEW m \in S, NEW n \in S, place[m] = place[n]
            PROVE  m = n
        <4>1. Cardinality(Below(S, m)) \in Nat /\ Cardinality(Below(S, m)) = Cardinality(Below(S, n))
          BY <1>1, <1>2, <3>1
        <4>2. m \in Nat /\ n \in Nat
          OBVIOUS
        <4> QED BY <1>3, <4>1, <4>2
      <3> QED BY <3>1
    <2>3. place \in Injection(S, all)
      BY <2>1, <2>2 DEF Injection, IsInjective
    <2>4. IsFiniteSet(all) /\ Cardinality(all) = Cardinality(S)
      <3>1. PICK last \in Int : last = Cardinality(S) - 1
        BY <1>1
      <3>2. /\ IsFiniteSet(0..last)
            /\ Cardinality(0..last) = IF 0 > last THEN 0 ELSE last - 0 + 1
        BY FS_Interval
      <3> QED BY <1>1, <3>1, <3>2
    <2>5. place \in Surjection(S, all)
      BY <2>3, <2>4, FS_Injection
    <2>6. \E n \in S : place[n] = k - 1
      <3>1. k - 1 \in all
        BY <1>1
      <3> QED BY <2>5, <3>1 DEF Surjection
    <2> QED BY <2>6
  <1> QED BY <1>1, <1>2, <1>3, <1>4

-----------------------------------------------------------------------------
(* The stable sort *)

(* Entry k comes before entry n in the sorted array.                           *)
Before(stored, k, n) ==
    \/ stored[k].processedAt < stored[n].processedAt
    \/ stored[k].processedAt = stored[n].processedAt /\ k < n

LEMMA IntervalCounted ==
    ASSUME NEW n \in Nat
    PROVE  IsFiniteSet(1..n) /\ Cardinality(1..n) = n
  <1>1. 1 \in Int /\ n \in Int
    OBVIOUS
  <1>2. IsFiniteSet(1..n) /\ Cardinality(1..n) = IF 1 > n THEN 0 ELSE n - 1 + 1
    BY <1>1, FS_Interval
  <1> QED BY <1>2

LEMMA EntriesFacts ==
    ASSUME NEW stored \in Seq(Entry)
    PROVE  /\ DOMAIN stored = 1..Len(stored) /\ Len(stored) \in Nat
           /\ \A n \in DOMAIN stored :
                /\ stored[n] \in Entry
                /\ stored[n].key \in Keys /\ stored[n].processedAt \in Nat
           /\ IsFiniteSet(DOMAIN stored) /\ Cardinality(DOMAIN stored) = Len(stored)
  <1>1. DOMAIN stored = 1..Len(stored) /\ Len(stored) \in Nat
    BY LenProperties
  <1>2. \A n \in DOMAIN stored : stored[n] \in Entry
    BY <1>1, ElementOfSeq
  <1>3. \A n \in DOMAIN stored : stored[n].key \in Keys /\ stored[n].processedAt \in Nat
    BY <1>2 DEF Entry
  <1>4. IsFiniteSet(1..Len(stored)) /\ Cardinality(1..Len(stored)) = Len(stored)
    BY <1>1, IntervalCounted, Zenon
  <1> QED BY <1>1, <1>2, <1>3, <1>4

LEMMA RankFacts ==
    ASSUME NEW stored \in Seq(Entry)
    PROVE  /\ \A n \in DOMAIN stored : Rank(stored, n) \in 0..(Len(stored) - 1)
           /\ \A k, n \in DOMAIN stored :
                Before(stored, k, n) => Rank(stored, k) < Rank(stored, n)
           /\ \A k, n \in DOMAIN stored : k # n => Before(stored, k, n) \/ Before(stored, n, k)
  <1> DEFINE Earlier(n) == {k \in DOMAIN stored : Before(stored, k, n)}
  <1>1. /\ DOMAIN stored = 1..Len(stored) /\ Len(stored) \in Nat
        /\ \A n \in DOMAIN stored : stored[n].processedAt \in Nat
    BY EntriesFacts
  <1>2. \A n : Rank(stored, n) = Cardinality(Earlier(n))
    BY DEF Rank, Before
  <1>3. IsFiniteSet(DOMAIN stored) /\ Cardinality(DOMAIN stored) = Len(stored)
    BY EntriesFacts
  <1>4. ASSUME NEW n \in DOMAIN stored
        PROVE  /\ Rank(stored, n) \in 0..(Len(stored) - 1)
               /\ IsFiniteSet(Earlier(n)) /\ n \notin Earlier(n)
    <2>1. Earlier(n) \subseteq DOMAIN stored /\ n \notin Earlier(n)
      BY <1>1 DEF Before
    <2>h. HIDE DEF Earlier
    <2>2. /\ IsFiniteSet(Earlier(n)) /\ Cardinality(Earlier(n)) \in Nat
          /\ Cardinality(Earlier(n)) < Len(stored)
      BY <1>3, <2>1, StrictSubset
    <2> QED BY <1>1, <1>2, <2>1, <2>2
  <1>5. ASSUME NEW k \in DOMAIN stored, NEW n \in DOMAIN stored, Before(stored, k, n)
        PROVE  Rank(stored, k) < Rank(stored, n)
    <2>1. Earlier(k) \subseteq Earlier(n)
      BY <1>1, <1>5 DEF Before
    <2>2. k \in Earlier(n) /\ k \notin Earlier(k) /\ IsFiniteSet(Earlier(n))
      BY <1>4, <1>5
    <2>h. HIDE DEF Earlier
    <2> QED BY <1>2, <2>1, <2>2, StrictSubset
  <1>6. \A k, n \in DOMAIN stored : k # n => Before(stored, k, n) \/ Before(stored, n, k)
    BY <1>1 DEF Before
  <1> QED BY <1>4, <1>5, <1>6

(* Nothing is sorted before an entry's place in the Map if all entries before  *)
(* it are as old or older.                                                     *)
LEMMA RankAtLeastPlace ==
    ASSUME NEW stored \in Seq(Entry), NEW n \in DOMAIN stored,
           \A k \in DOMAIN stored : k < n => stored[k].processedAt <= stored[n].processedAt
    PROVE  Rank(stored, n) >= n - 1
  <1> DEFINE Earlier == {k \in DOMAIN stored : Before(stored, k, n)}
  <1>1. /\ DOMAIN stored = 1..Len(stored) /\ Len(stored) \in Nat
        /\ \A k \in DOMAIN stored : stored[k].processedAt \in Nat
    BY EntriesFacts
  <1>2. Rank(stored, n) = Cardinality(Earlier)
    BY DEF Rank, Before
  <1>3. 1..(n - 1) \subseteq Earlier
    BY <1>1 DEF Before
  <1>4. IsFiniteSet(1..Len(stored)) /\ Cardinality(1..(n - 1)) = n - 1
    BY <1>1, FS_Interval
  <1>5. IsFiniteSet(Earlier)
    <2>1. Earlier \subseteq 1..Len(stored)
      BY <1>1
    <2> QED BY <1>4, <2>1, FS_Subset
  <1>6. Cardinality(Earlier) \in Nat
    BY <1>5, FS_CardinalityType
  <1>h. HIDE DEF Earlier
  <1>7. Cardinality(1..(n - 1)) <= Cardinality(Earlier)
    BY <1>3, <1>5, FS_Subset
  <1> QED BY <1>1, <1>2, <1>4, <1>6, <1>7

-----------------------------------------------------------------------------
(* The cleanup *)

Kept(stored) == {n \in DOMAIN stored : Rank(stored, n) >= Removed(Len(stored))}

LEMMA KeptFacts ==
    ASSUME NEW stored \in Seq(Entry)
    PROVE  /\ IsFiniteSet(Kept(stored)) /\ Kept(stored) \subseteq DOMAIN stored
           /\ Kept(stored) \subseteq Nat /\ Cardinality(Kept(stored)) \in Nat
           /\ Cardinality(Kept(stored)) <= Len(stored)
  <1>1. /\ DOMAIN stored = 1..Len(stored) /\ Len(stored) \in Nat
        /\ IsFiniteSet(DOMAIN stored) /\ Cardinality(DOMAIN stored) = Len(stored)
    BY EntriesFacts
  <1>2. Kept(stored) \subseteq DOMAIN stored
    BY DEF Kept
  <1> QED BY <1>1, <1>2, FS_Subset, FS_CardinalityType

(* The Map after a cleanup is made of the kept entries, each at one place.     *)
LEMMA CleanupKeeps ==
    ASSUME NEW stored \in Seq(Entry)
    PROVE  \E nth \in [1..Cardinality(Kept(stored)) -> Kept(stored)] :
             /\ CleanedUp(stored) = [k \in 1..Cardinality(Kept(stored)) |-> stored[nth[k]]]
             /\ \A j, k \in 1..Cardinality(Kept(stored)) : nth[j] = nth[k] => j = k
             /\ \A n \in Kept(stored) : \E k \in 1..Cardinality(Kept(stored)) : nth[k] = n
  <1> DEFINE kept == Kept(stored)
             size == Cardinality(kept)
             Nth(k) == CHOOSE n \in kept : Cardinality({j \in kept : j < n}) = k - 1
             nth == [k \in 1..size |-> Nth(k)]
  <1>1. CleanedUp(stored) = [k \in 1..size |-> stored[Nth(k)]]
    BY DEF CleanedUp, Kept
  <1>2. IsFiniteSet(kept) /\ kept \subseteq Nat
    BY KeptFacts
  <1>3. \A n \in kept : Below(kept, n) = {j \in kept : j < n}
    BY DEF Below
  <1>h. HIDE DEF kept
  <1>4. /\ size \in Nat
        /\ \A n \in kept : Cardinality(Below(kept, n)) \in 0..(size - 1)
        /\ \A m, n \in kept : m < n => Cardinality(Below(kept, m)) < Cardinality(Below(kept, n))
        /\ \A k \in 1..size : \E n \in kept : Cardinality(Below(kept, n)) = k - 1
    BY <1>2, PlacesBelow
  <1>h2. HIDE DEF size
  <1>5. ASSUME NEW k \in 1..size
        PROVE  Nth(k) \in kept /\ Cardinality(Below(kept, Nth(k))) = k - 1
    <2>1. \E n \in kept : Cardinality({j \in kept : j < n}) = k - 1
      BY <1>3, <1>4
    <2>2. Nth(k) \in kept /\ Cardinality({j \in kept : j < Nth(k)}) = k - 1
      BY <2>1
    <2> QED BY <1>3, <2>2
  <1>h3. HIDE DEF Nth
  <1>6. nth \in [1..size -> kept] /\ CleanedUp(stored) = [k \in 1..size |-> stored[nth[k]]]
    BY <1>1, <1>5
  <1>7. ASSUME NEW j \in 1..size, NEW k \in 1..size, nth[j] = nth[k]
        PROVE  j = k
    <2>1. j - 1 = k - 1
      BY <1>5, <1>7
    <2> QED BY <1>4, <2>1
  <1>8. ASSUME NEW n \in kept
        PROVE  \E k \in 1..size : nth[k] = n
    <2>1. PICK k \in 1..size : Cardinality(Below(kept, n)) = k - 1
      <3>1. Cardinality(Below(kept, n)) + 1 \in 1..size
        BY <1>4
      <3>2. Cardinality(Below(kept, n)) = (Cardinality(Below(kept, n)) + 1) - 1
        BY <1>4
      <3> QED BY <3>1, <3>2
    <2>2. Nth(k) \in kept /\ Cardinality(Below(kept, Nth(k))) = Cardinality(Below(kept, n))
      BY <1>5, <2>1
    <2>3. Nth(k) \in Nat /\ n \in Nat
      BY <1>2, <2>2
    <2>5. Cardinality(Below(kept, n)) \in Nat
      BY <1>4
    <2>4. Nth(k) = n
      BY <1>4, <2>2, <2>3, <2>5
    <2> QED BY <2>4
  <1> QED BY <1>6, <1>7, <1>8 DEF size, kept

-----------------------------------------------------------------------------
(* What the Map's operations preserve. The Map at time t: a key once, nothing  *)
(* from the future.                                                            *)

MapEntry(t) == [key : Keys, processedAt : 0..t]

IsMap(stored, t) ==
    /\ stored \in Seq(MapEntry(t))
    /\ \A m, n \in DOMAIN stored : stored[m].key = stored[n].key => m = n

LEMMA MapFacts ==
    ASSUME NEW t \in Nat, NEW stored, IsMap(stored, t)
    PROVE  /\ stored \in Seq(Entry)
           /\ DOMAIN stored = 1..Len(stored) /\ Len(stored) \in Nat
           /\ \A n \in DOMAIN stored :
                /\ stored[n] \in MapEntry(t)
                /\ stored[n].key \in Keys
                /\ stored[n].processedAt \in Nat /\ stored[n].processedAt <= t
  <1>1. MapEntry(t) \subseteq Entry /\ stored \in Seq(MapEntry(t))
    BY DEF MapEntry, Entry, IsMap
  <1>2. stored \in Seq(Entry)
    BY <1>1, SeqMonotonic
  <1>3. DOMAIN stored = 1..Len(stored) /\ Len(stored) \in Nat
    BY <1>1, LenProperties
  <1>4. \A n \in DOMAIN stored : stored[n] \in MapEntry(t)
    BY <1>1, <1>3, ElementOfSeq
  <1> QED BY <1>2, <1>3, <1>4 DEF MapEntry

(* Map.set: every entry keeps its place and gets no older, and the key is      *)
(* there with the current time.                                                *)
LEMMA SetFacts ==
    ASSUME now \in Nat, NEW stored, IsMap(stored, now), NEW key \in Keys,
           NEW after, after = Set(stored, key)
    PROVE  /\ IsMap(after, now)
           /\ Len(after) = Len(stored) + (IF Has(stored, key) THEN 0 ELSE 1)
           /\ \A n \in DOMAIN stored :
                /\ n \in DOMAIN after /\ after[n].key = stored[n].key
                /\ stored[n].processedAt <= after[n].processedAt
           /\ \A n \in DOMAIN after : after[n].key = key \/ n \in DOMAIN stored
           /\ ~Has(stored, key) => after[Len(stored) + 1] = [key |-> key, processedAt |-> now]
  <1>1. /\ DOMAIN stored = 1..Len(stored) /\ Len(stored) \in Nat
        /\ stored \in Seq(MapEntry(now))
        /\ \A n \in DOMAIN stored :
              /\ stored[n] \in MapEntry(now)
              /\ stored[n].processedAt \in Nat /\ stored[n].processedAt <= now
    BY MapFacts DEF IsMap
  <1>2. \A m, n \in DOMAIN stored : stored[m].key = stored[n].key => m = n
    BY DEF IsMap
  <1>3. CASE Has(stored, key)
    <2>1. after = [n \in DOMAIN stored |->
                    IF stored[n].key = key THEN [stored[n] EXCEPT !.processedAt = now]
                                            ELSE stored[n]]
      BY <1>3 DEF Set
    <2>2. DOMAIN after = DOMAIN stored
      BY <2>1
    <2>3. ASSUME NEW n \in DOMAIN stored
          PROVE  /\ after[n] \in MapEntry(now) /\ after[n].key = stored[n].key
                 /\ stored[n].processedAt <= after[n].processedAt
      <3>1. PICK e \in MapEntry(now) : e = stored[n] /\ e.processedAt <= now
        BY <1>1
      <3>2. after[n] = IF e.key = key THEN [e EXCEPT !.processedAt = now] ELSE e
        BY <2>1, <3>1
      <3>3. [e EXCEPT !.processedAt = now] = [key |-> e.key, processedAt |-> now]
        BY DEF MapEntry
      <3>4. e.key \in Keys /\ e.processedAt \in Nat
        BY DEF MapEntry
      <3>5. [key |-> e.key, processedAt |-> now] \in MapEntry(now)
        BY <3>4 DEF MapEntry
      <3>6. CASE e.key = key
        <4>1. after[n] = [key |-> e.key, processedAt |-> now]
          BY <3>2, <3>3, <3>6
        <4> QED BY <3>1, <3>4, <3>5, <4>1
      <3>7. CASE e.key # key
        <4>1. after[n] = e
          BY <3>2, <3>7
        <4> QED BY <3>1, <3>4, <4>1
      <3> QED BY <3>6, <3>7
    <2>4. after \in [1..Len(stored) -> MapEntry(now)]
      <3>1. \A n \in DOMAIN stored : after[n] \in MapEntry(now)
        BY <2>3
      <3> QED BY <1>1, <2>1, <2>2, <3>1
    <2>5. after \in Seq(MapEntry(now)) /\ Len(after) = Len(stored)
      BY <1>1, <2>4
    <2>6. \A m, n \in DOMAIN after : after[m].key = after[n].key => m = n
      BY <1>2, <2>2, <2>3
    <2> QED BY <1>1, <1>3, <2>2, <2>3, <2>5, <2>6 DEF IsMap
  <1>4. CASE ~Has(stored, key)
    <2> DEFINE e == [key |-> key, processedAt |-> now]
    <2>1. after = Append(stored, e)
      BY <1>4 DEF Set
    <2>2. e \in MapEntry(now) /\ e.key = key
      BY DEF MapEntry
    <2>h. HIDE DEF e
    <2>3. /\ after \in Seq(MapEntry(now)) /\ Len(after) = Len(stored) + 1
          /\ \A n \in 1..Len(stored) : after[n] = stored[n]
          /\ after[Len(stored) + 1] = e
      BY <1>1, <2>1, <2>2, AppendProperties
    <2>4. DOMAIN after = 1..(Len(stored) + 1)
      BY <2>3, LenProperties
    <2>5. \A n \in DOMAIN stored : stored[n].key # key
      BY <1>4 DEF Has
    <2>6. \A n \in DOMAIN after : n \in DOMAIN stored \/ n = Len(stored) + 1
      BY <1>1, <2>4
    <2>7. \A n \in DOMAIN stored : n \in DOMAIN after /\ after[n] = stored[n]
      BY <1>1, <2>3, <2>4
    <2>8. ASSUME NEW m \in DOMAIN after, NEW n \in DOMAIN after, after[m].key = after[n].key
          PROVE  m = n
      <3>1. CASE m \in DOMAIN stored /\ n \in DOMAIN stored
        BY <1>2, <2>7, <2>8, <3>1
      <3>2. CASE m = Len(stored) + 1 /\ n \in DOMAIN stored
        BY <2>2, <2>3, <2>5, <2>7, <2>8, <3>2
      <3>3. CASE n = Len(stored) + 1 /\ m \in DOMAIN stored
        BY <2>2, <2>3, <2>5, <2>7, <2>8, <3>3
      <3> QED BY <2>6, <3>1, <3>2, <3>3
    <2>9. \A n \in DOMAIN after : after[n].key = key \/ n \in DOMAIN stored
      BY <2>2, <2>3, <2>6
    <2>10. \A n \in DOMAIN stored : stored[n].processedAt <= after[n].processedAt
      BY <1>1, <2>7
    <2> QED BY <1>4, <2>3, <2>7, <2>8, <2>9, <2>10 DEF IsMap, e
  <1> QED BY <1>3, <1>4

LEMMA TargetFacts ==
    /\ MaxSize \in Nat /\ targetSize \in Nat /\ targetSize <= MaxSize
    /\ \A length \in Nat : length > MaxSize => Removed(length) = length - targetSize
  <1>1. MaxSize \in Nat
    BY IdempotencyAssumption
  <1>2. targetSize \in Nat /\ targetSize <= MaxSize
    BY <1>1 DEF targetSize
  <1>3. ASSUME NEW length \in Nat, length > MaxSize
        PROVE  Removed(length) = length - targetSize
    <2>1. length >= targetSize
      BY <1>1, <1>2, <1>3
    <2> QED BY <2>1 DEF Removed
  <1> QED BY <1>1, <1>2, <1>3

(* At most as many entries are kept as there are ranks to keep.                *)
LEMMA KeptBounded ==
    ASSUME NEW stored \in Seq(Entry), Len(stored) > MaxSize
    PROVE  Cardinality(Kept(stored)) <= targetSize
  <1>1. Len(stored) \in Nat /\ targetSize \in Nat /\ MaxSize \in Nat /\ targetSize <= MaxSize
    BY EntriesFacts, TargetFacts
  <1>2. Removed(Len(stored)) = Len(stored) - targetSize
    BY <1>1, TargetFacts
  <1> DEFINE rank == [n \in Kept(stored) |-> Rank(stored, n)]
  <1>3. PICK first \in Nat, last \in Int :
          first = Len(stored) - targetSize /\ last = Len(stored) - 1
    BY <1>1
  <1>4. \A n \in Kept(stored) : Rank(stored, n) \in first..last
    BY <1>1, <1>2, <1>3, RankFacts DEF Kept
  <1>5. \A m, n \in Kept(stored) : Rank(stored, m) = Rank(stored, n) => m = n
    <2>1. SUFFICES ASSUME NEW m \in Kept(stored), NEW n \in Kept(stored),
                          Rank(stored, m) = Rank(stored, n), m # n
                   PROVE  FALSE
      OBVIOUS
    <2>2. m \in DOMAIN stored /\ n \in DOMAIN stored
      BY DEF Kept
    <2>3. Rank(stored, m) < Rank(stored, n) \/ Rank(stored, n) < Rank(stored, m)
      BY <2>1, <2>2, RankFacts
    <2>4. Rank(stored, m) \in Int /\ Rank(stored, n) \in Int
      BY <1>4
    <2> QED BY <2>1, <2>3, <2>4
  <1>6. rank \in Injection(Kept(stored), first..last)
    BY <1>4, <1>5 DEF Injection, IsInjective
  <1>7. IsFiniteSet(first..last) /\ Cardinality(first..last) = targetSize
    <2>1. /\ IsFiniteSet(first..last)
          /\ Cardinality(first..last) = IF first > last THEN 0 ELSE last - first + 1
      BY FS_Interval
    <2> QED BY <1>1, <1>3, <2>1
  <1> QED BY <1>6, <1>7, FS_Injection

(* The Map after a cleanup: no longer, cut to the target if it was over its    *)
(* size, made of the kept entries and of nothing else.                         *)
CleanedFrom(stored, after, t) ==
    /\ IsMap(after, t)
    /\ Len(after) <= Len(stored)
    /\ Len(stored) > MaxSize => Len(after) <= targetSize
    /\ \A k \in DOMAIN after : \E n \in Kept(stored) : after[k] = stored[n]
    /\ \A n \in Kept(stored) : \E k \in DOMAIN after : after[k] = stored[n]

LEMMA CleanedFacts ==
    ASSUME NEW t \in Nat, NEW stored, IsMap(stored, t), NEW after, after = CleanedUp(stored)
    PROVE  CleanedFrom(stored, after, t)
  <1>1. /\ stored \in Seq(Entry) /\ Len(stored) \in Nat
        /\ \A n \in DOMAIN stored : stored[n] \in MapEntry(t)
    BY MapFacts
  <1>2. \A m, n \in DOMAIN stored : stored[m].key = stored[n].key => m = n
    BY DEF IsMap
  <1>3. PICK size : size = Cardinality(Kept(stored))
    OBVIOUS
  <1>4. PICK nth \in [1..size -> Kept(stored)] :
          /\ after = [k \in 1..size |-> stored[nth[k]]]
          /\ \A j, k \in 1..size : nth[j] = nth[k] => j = k
          /\ \A n \in Kept(stored) : \E k \in 1..size : nth[k] = n
    BY <1>1, <1>3, CleanupKeeps
  <1>5. size \in Nat /\ size <= Len(stored) /\ Kept(stored) \subseteq DOMAIN stored
    BY <1>1, <1>3, KeptFacts
  <1>6. \A k \in 1..size : after[k] = stored[nth[k]] /\ after[k] \in MapEntry(t)
    BY <1>1, <1>4, <1>5
  <1>7. after \in [1..size -> MapEntry(t)]
    BY <1>4, <1>6
  <1>8. after \in Seq(MapEntry(t)) /\ Len(after) = size /\ DOMAIN after = 1..size
    BY <1>5, <1>7
  <1>9. \A j, k \in DOMAIN after : after[j].key = after[k].key => j = k
    BY <1>2, <1>4, <1>5, <1>6, <1>8
  <1>10. Len(stored) > MaxSize => Len(after) <= targetSize
    BY <1>1, <1>3, <1>8, KeptBounded
  <1>11. \A n \in Kept(stored) : \E k \in DOMAIN after : after[k] = stored[n]
    BY <1>4, <1>6, <1>8
  <1>12. IsMap(after, t)
    BY <1>8, <1>9 DEF IsMap
  <1>13. Len(after) <= Len(stored) /\ \A k \in DOMAIN after : \E n \in Kept(stored) : after[k] = stored[n]
    BY <1>4, <1>5, <1>6, <1>8
  <1> QED BY <1>10, <1>11, <1>12, <1>13 DEF CleanedFrom

(* Whatever a cleanup forgets is as old as anything it keeps, or older.        *)
LEMMA CleanupForgetsOldest ==
    ASSUME NEW t \in Nat, NEW stored, IsMap(stored, t), NEW after, after = CleanedUp(stored),
           NEW k \in DOMAIN after, NEW n \in DOMAIN stored, ~Has(after, stored[n].key)
    PROVE  stored[n].processedAt <= after[k].processedAt
  <1>1. stored \in Seq(Entry) /\ \A m \in DOMAIN stored : stored[m].processedAt \in Nat
    BY MapFacts
  <1>c. CleanedFrom(stored, after, t)
    BY CleanedFacts
  <1>a. /\ \A j \in DOMAIN after : \E m \in Kept(stored) : after[j] = stored[m]
        /\ \A m \in Kept(stored) : \E j \in DOMAIN after : after[j] = stored[m]
    BY <1>c DEF CleanedFrom
  <1>2. PICK m \in Kept(stored) : after[k] = stored[m]
    BY <1>a
  <1>3. n \notin Kept(stored)
    BY <1>a DEF Has
  <1>4. m \in DOMAIN stored /\ m # n
    BY <1>3 DEF Kept
  <1>5. /\ Rank(stored, m) \in Int /\ Rank(stored, n) \in Int
        /\ Before(stored, m, n) => Rank(stored, m) < Rank(stored, n)
        /\ Before(stored, m, n) \/ Before(stored, n, m)
    BY <1>1, <1>4, RankFacts
  <1>6. PICK removed : removed = Removed(Len(stored))
    OBVIOUS
  <1>7. Rank(stored, m) >= removed /\ ~(Rank(stored, n) >= removed)
    BY <1>3, <1>6 DEF Kept
  <1>8. removed \in Int
    <2>1. Len(stored) \in Nat /\ targetSize \in Nat
      BY <1>1, EntriesFacts, TargetFacts
    <2>2. \A x \in Int : Max({x, 0}) \in Int
      <3>1. ASSUME NEW x \in Int
            PROVE  Max({x, 0}) \in Int
        <4>1. \E y \in {x, 0} : \A z \in {x, 0} : y >= z
          BY <3>1
        <4>2. Max({x, 0}) \in {x, 0}
          BY <4>1 DEF Max
        <4> QED BY <4>2
      <3> QED BY <3>1
    <2>3. PICK length \in Nat : length = Len(stored)
      BY <2>1
    <2>4. 2 * length - targetSize \in Int /\ length - targetSize \in Int
      BY <2>1
    <2> QED BY <1>6, <2>2, <2>3, <2>4 DEF Removed
  <1>9. Before(stored, n, m)
    BY <1>5, <1>7, <1>8
  <1> QED BY <1>1, <1>2, <1>4, <1>9 DEF Before

-----------------------------------------------------------------------------
(* The operations of the handler *)

LEMMA CacheFacts ==
    ASSUME CacheInvariant
    PROVE  /\ now \in Nat /\ now \in 0..MaxTime /\ marked \subseteq Messages
           /\ IsMap(processedEvents, now)
           /\ Len(processedEvents) <= MaxSize
           /\ NoFalseDuplicate
  <1>1. CacheTypeOK /\ NoFalseDuplicate
    BY DEF CacheInvariant
  <1>2. processedEvents \in Seq(MapEntry(now))
    BY <1>1 DEF CacheTypeOK, MapEntry
  <1> QED BY <1>1, <1>2 DEF CacheTypeOK, IsMap

LEMMA CacheInvariantFrom ==
    ASSUME now' \in 0..MaxTime, marked' \subseteq Messages, IsMap(processedEvents', now'),
           Len(processedEvents') <= MaxSize, NoFalseDuplicate'
    PROVE  CacheInvariant'
  <1>1. /\ processedEvents' \in Seq([key : Keys, processedAt : 0..now'])
        /\ \A m, n \in DOMAIN processedEvents' :
              processedEvents'[m].key = processedEvents'[n].key => m = n
    BY DEF IsMap, MapEntry
  <1>2. CacheTypeOK'
    BY <1>1 DEF CacheTypeOK
  <1> QED BY <1>2 DEF CacheInvariant

(* The Map with the two keys of a message set, before it is cut down.          *)
Filled(m) == Set(Set(processedEvents, generateKey(m)), generateEventKey(m))

LEMMA FilledFacts ==
    ASSUME CacheInvariant, NEW m \in Messages, ~IsDuplicate(m),
           NEW filled, filled = Filled(m)
    PROVE  /\ IsMap(filled, now)
           /\ \A n \in DOMAIN processedEvents :
                /\ n \in DOMAIN filled /\ filled[n].key = processedEvents[n].key
                /\ processedEvents[n].processedAt <= filled[n].processedAt
           /\ \A n \in DOMAIN filled :
                \/ filled[n].key \in {generateKey(m), generateEventKey(m)}
                \/ n \in DOMAIN processedEvents
           /\ \E p \in DOMAIN filled :
                /\ filled[p].key = generateKey(m)
                /\ filled[p].processedAt = now /\ p + 1 >= Len(filled)
  <1>1. now \in Nat /\ IsMap(processedEvents, now)
    BY CacheFacts
  <1>2. generateKey(m) \in Keys /\ generateEventKey(m) \in Keys
    BY DEF generateKey, generateEventKey, Keys
  <1>3. PICK first : first = Set(processedEvents, generateKey(m))
    OBVIOUS
  <1>4. filled = Set(first, generateEventKey(m))
    BY <1>3 DEF Filled
  <1>5. ~Has(processedEvents, generateKey(m))
    BY DEF IsDuplicate
  <1>6. /\ IsMap(first, now)
        /\ Len(first) = Len(processedEvents) + 1
        /\ \A n \in DOMAIN processedEvents :
              /\ n \in DOMAIN first /\ first[n].key = processedEvents[n].key
              /\ processedEvents[n].processedAt <= first[n].processedAt
        /\ \A n \in DOMAIN first : first[n].key = generateKey(m) \/ n \in DOMAIN processedEvents
        /\ first[Len(processedEvents) + 1] = [key |-> generateKey(m), processedAt |-> now]
    BY <1>1, <1>2, <1>3, <1>5, SetFacts
  <1>7. /\ IsMap(filled, now)
        /\ Len(filled) <= Len(first) + 1
        /\ \A n \in DOMAIN first :
              /\ n \in DOMAIN filled /\ filled[n].key = first[n].key
              /\ first[n].processedAt <= filled[n].processedAt
        /\ \A n \in DOMAIN filled : filled[n].key = generateEventKey(m) \/ n \in DOMAIN first
    <2>1. /\ IsMap(filled, now)
          /\ Len(filled) = Len(first) + (IF Has(first, generateEventKey(m)) THEN 0 ELSE 1)
          /\ \A n \in DOMAIN first :
                /\ n \in DOMAIN filled /\ filled[n].key = first[n].key
                /\ first[n].processedAt <= filled[n].processedAt
          /\ \A n \in DOMAIN filled : filled[n].key = generateEventKey(m) \/ n \in DOMAIN first
      BY <1>1, <1>2, <1>4, <1>6, SetFacts
    <2>2. Len(first) \in Nat
      BY <1>1, <1>6, MapFacts
    <2> QED BY <2>1, <2>2
  <1>8. /\ DOMAIN first = 1..Len(first) /\ Len(first) \in Nat
        /\ \A n \in DOMAIN first : first[n].processedAt \in Nat
    BY <1>1, <1>6, MapFacts
  <1>9. /\ DOMAIN filled = 1..Len(filled) /\ Len(filled) \in Nat
        /\ \A n \in DOMAIN filled : filled[n].processedAt \in Nat /\ filled[n].processedAt <= now
    BY <1>1, <1>7, MapFacts
  <1>10. /\ Len(processedEvents) \in Nat
         /\ \A n \in DOMAIN processedEvents : processedEvents[n].processedAt \in Nat
    BY <1>1, MapFacts
  <1>11. PICK p \in DOMAIN first : p = Len(processedEvents) + 1
    BY <1>6, <1>8, <1>10
  <1>12. first[p].key = generateKey(m) /\ first[p].processedAt = now
    BY <1>6, <1>11
  <1>13. /\ p \in DOMAIN filled /\ filled[p].key = generateKey(m)
         /\ filled[p].processedAt = now /\ p + 1 >= Len(filled)
    BY <1>1, <1>6, <1>7, <1>8, <1>9, <1>11, <1>12
  <1>14. ASSUME NEW n \in DOMAIN processedEvents
         PROVE  /\ n \in DOMAIN filled /\ filled[n].key = processedEvents[n].key
                /\ processedEvents[n].processedAt <= filled[n].processedAt
    BY <1>6, <1>7, <1>8, <1>9, <1>10
  <1>15. ASSUME NEW n \in DOMAIN filled
         PROVE  \/ filled[n].key \in {generateKey(m), generateEventKey(m)}
                \/ n \in DOMAIN processedEvents
    BY <1>6, <1>7
  <1> QED BY <1>7, <1>13, <1>14, <1>15

(* Cutting the Map down only takes entries away, down to its size.             *)
LEMMA TrimmedFacts ==
    ASSUME NEW t \in Nat, NEW stored, IsMap(stored, t), NEW after, after = Trimmed(stored)
    PROVE  /\ IsMap(after, t) /\ Len(after) <= MaxSize
           /\ \A k \in DOMAIN after : \E n \in DOMAIN stored : after[k] = stored[n]
           /\ \A k \in DOMAIN after, n \in DOMAIN stored :
                ~Has(after, stored[n].key) => stored[n].processedAt <= after[k].processedAt
  <1>1. Len(stored) \in Nat /\ MaxSize \in Nat /\ targetSize <= MaxSize /\ targetSize \in Nat
    BY MapFacts, TargetFacts
  <1>2. CASE Len(stored) > MaxSize
    <2>1. after = CleanedUp(stored)
      BY <1>2 DEF Trimmed
    <2>c. CleanedFrom(stored, after, t)
      BY <2>1, CleanedFacts
    <2>2. /\ IsMap(after, t) /\ Len(after) <= targetSize
          /\ \A k \in DOMAIN after : \E n \in Kept(stored) : after[k] = stored[n]
      BY <1>2, <2>c DEF CleanedFrom
    <2>3. Len(after) <= MaxSize
      <3>1. Len(after) \in Nat
        BY <2>2, MapFacts
      <3> QED BY <1>1, <2>2, <3>1
    <2>4. \A k \in DOMAIN after, n \in DOMAIN stored :
            ~Has(after, stored[n].key) => stored[n].processedAt <= after[k].processedAt
      BY <2>1, CleanupForgetsOldest
    <2> QED BY <2>2, <2>3, <2>4 DEF Kept
  <1>3. CASE ~(Len(stored) > MaxSize)
    <2>1. after = stored
      BY <1>3 DEF Trimmed
    <2> QED BY <1>1, <1>3, <2>1 DEF Has
  <1> QED BY <1>2, <1>3

-----------------------------------------------------------------------------
(* The invariant *)

LEMMA CacheStarts == CacheInit => CacheInvariant
  <1> SUFFICES ASSUME CacheInit PROVE CacheInvariant
    OBVIOUS
  <1>1. processedEvents = <<>> /\ now = 0 /\ marked = {}
    BY DEF CacheInit
  <1>2. MaxSize \in Nat /\ MaxTime \in Nat
    BY IdempotencyAssumption
  <1>3. processedEvents \in Seq([key : Keys, processedAt : 0..now]) /\ Len(processedEvents) = 0
        /\ DOMAIN processedEvents = {}
    BY <1>1
  <1>4. CacheTypeOK
    BY <1>1, <1>2, <1>3 DEF CacheTypeOK
  <1>5. NoFalseDuplicate
    BY <1>3 DEF NoFalseDuplicate, IsDuplicate, Has
  <1> QED BY <1>4, <1>5 DEF CacheInvariant

(* Of the two keys of a message only its own offset key is ever asked for: an  *)
(* event key is no offset key, and the offset keys of two messages differ.     *)
LEMMA KeysApart ==
    \A m, n \in Messages : /\ generateKey(m) = generateKey(n) => m = n
                           /\ generateKey(m) # generateEventKey(n)
  BY DEF generateKey, generateEventKey

LEMMA MarkPreserves ==
    ASSUME CacheInvariant, NEW m \in Messages, MarkProcessed(m)
    PROVE  CacheInvariant'
  <1>1. /\ ~IsDuplicate(m) /\ now' = now /\ marked' = marked \cup {m}
        /\ processedEvents' = Trimmed(Filled(m))
    BY DEF MarkProcessed, Filled
  <1>2. /\ now \in Nat /\ now \in 0..MaxTime /\ marked \subseteq Messages
        /\ NoFalseDuplicate
    BY CacheFacts
  <1>3. PICK filled : filled = Filled(m)
    OBVIOUS
  <1>4. /\ IsMap(filled, now)
        /\ \A n \in DOMAIN processedEvents :
             /\ n \in DOMAIN filled /\ filled[n].key = processedEvents[n].key
        /\ \A n \in DOMAIN filled :
             \/ filled[n].key \in {generateKey(m), generateEventKey(m)}
             \/ n \in DOMAIN processedEvents
    BY <1>1, <1>3, FilledFacts
  <1>5. PICK after : after = Trimmed(filled)
    OBVIOUS
  <1>6. /\ IsMap(after, now) /\ Len(after) <= MaxSize
        /\ \A k \in DOMAIN after : \E n \in DOMAIN filled : after[k] = filled[n]
    BY <1>2, <1>4, <1>5, TrimmedFacts
  <1>7. processedEvents' = after
    BY <1>1, <1>3, <1>5
  <1>8. NoFalseDuplicate'
    <2>1. ASSUME NEW x \in Messages, NEW k \in DOMAIN after, after[k].key = generateKey(x)
          PROVE  x \in marked \cup {m}
      <3>1. PICK n \in DOMAIN filled : after[k] = filled[n]
        BY <1>6
      <3>2. CASE filled[n].key \in {generateKey(m), generateEventKey(m)}
        BY <2>1, <3>1, <3>2, KeysApart
      <3>3. CASE n \in DOMAIN processedEvents
        <4>1. processedEvents[n].key = generateKey(x)
          BY <1>4, <2>1, <3>1, <3>3
        <4>2. IsDuplicate(x)
          BY <3>3, <4>1 DEF IsDuplicate, Has
        <4> QED BY <1>2, <4>2 DEF NoFalseDuplicate
      <3> QED BY <1>4, <3>2, <3>3
    <2> QED BY <1>1, <1>7, <2>1 DEF NoFalseDuplicate, IsDuplicate, Has, generateKey
  <1> QED BY <1>1, <1>2, <1>6, <1>7, <1>8, CacheInvariantFrom

LEMMA TimerPreserves ==
    ASSUME CacheInvariant, TimedCleanup
    PROVE  CacheInvariant'
  <1>1. /\ processedEvents' = CleanedUp(processedEvents)
        /\ now' = now /\ marked' = marked
    BY DEF TimedCleanup
  <1>2. /\ now \in Nat /\ now \in 0..MaxTime /\ marked \subseteq Messages
        /\ IsMap(processedEvents, now) /\ Len(processedEvents) <= MaxSize
        /\ NoFalseDuplicate
    BY CacheFacts
  <1>3. PICK after : after = CleanedUp(processedEvents)
    OBVIOUS
  <1>4. CleanedFrom(processedEvents, after, now)
    BY <1>2, <1>3, CleanedFacts
  <1>5. /\ IsMap(after, now) /\ Len(after) <= Len(processedEvents)
        /\ \A k \in DOMAIN after : \E n \in DOMAIN processedEvents : after[k] = processedEvents[n]
    BY <1>4 DEF CleanedFrom, Kept
  <1>6. Len(after) <= MaxSize
    <2>1. Len(after) \in Nat /\ Len(processedEvents) \in Nat /\ MaxSize \in Nat
      BY <1>2, <1>5, MapFacts, TargetFacts
    <2> QED BY <1>2, <1>5, <2>1
  <1>7. NoFalseDuplicate'
    <2>1. \A x \in Messages : Has(after, generateKey(x)) => x \in marked
      BY <1>2, <1>5 DEF NoFalseDuplicate, IsDuplicate, Has
    <2> QED BY <1>1, <1>3, <2>1 DEF NoFalseDuplicate, IsDuplicate, Has, generateKey
  <1> QED BY <1>1, <1>2, <1>3, <1>5, <1>6, <1>7, CacheInvariantFrom

LEMMA ClearPreserves ==
    ASSUME CacheInvariant, Clear
    PROVE  CacheInvariant'
  <1>1. processedEvents' = <<>> /\ marked' = {} /\ now' = now
    BY DEF Clear
  <1>2. now \in Nat /\ now \in 0..MaxTime /\ MaxSize \in Nat
    BY CacheFacts, TargetFacts
  <1>3. IsMap(processedEvents', now') /\ Len(processedEvents') = 0 /\ DOMAIN processedEvents' = {}
    BY <1>1 DEF IsMap
  <1>4. NoFalseDuplicate'
    BY <1>3 DEF NoFalseDuplicate, IsDuplicate, Has
  <1> QED BY <1>1, <1>2, <1>3, <1>4, CacheInvariantFrom

LEMMA ClockPreserves ==
    ASSUME CacheInvariant, ClockAdvances
    PROVE  CacheInvariant'
  <1>1. now < MaxTime /\ now' = now + 1 /\ processedEvents' = processedEvents /\ marked' = marked
    BY DEF ClockAdvances
  <1>2. /\ now \in Nat /\ marked \subseteq Messages
        /\ IsMap(processedEvents, now) /\ Len(processedEvents) <= MaxSize
        /\ NoFalseDuplicate
    BY CacheFacts
  <1>3. MaxTime \in Nat
    BY IdempotencyAssumption
  <1>4. IsMap(processedEvents, now + 1)
    <2>1. MapEntry(now) \subseteq MapEntry(now + 1)
      BY <1>2 DEF MapEntry
    <2>2. processedEvents \in Seq(MapEntry(now + 1))
      BY <1>2, <2>1, SeqMonotonic DEF IsMap
    <2> QED BY <1>2, <2>2 DEF IsMap
  <1>5. NoFalseDuplicate'
    BY <1>1, <1>2 DEF NoFalseDuplicate, IsDuplicate
  <1> QED BY <1>1, <1>2, <1>3, <1>4, <1>5, CacheInvariantFrom

LEMMA CacheStep == CacheInvariant /\ [CacheNext]_cacheVars => CacheInvariant'
  <1> SUFFICES ASSUME CacheInvariant, [CacheNext]_cacheVars PROVE CacheInvariant'
    OBVIOUS
  <1>1. ASSUME NEW m \in Messages, MarkProcessed(m)
        PROVE  CacheInvariant'
    BY <1>1, MarkPreserves
  <1>2. CASE TimedCleanup
    BY <1>2, TimerPreserves
  <1>3. CASE Clear
    BY <1>3, ClearPreserves
  <1>4. CASE ClockAdvances
    BY <1>4, ClockPreserves
  <1>5. CASE UNCHANGED cacheVars
    BY <1>5 DEF cacheVars, CacheInvariant, CacheTypeOK, NoFalseDuplicate, IsDuplicate
  <1> QED BY <1>1, <1>2, <1>3, <1>4, <1>5 DEF CacheNext

(* However many messages are handled and whenever the timer fires, the Map     *)
(* stays within its size with every key once, and a message is only taken for  *)
(* a duplicate if it was handled (markProcessed, cleanup, isDuplicate).        *)
THEOREM CacheInvariantHolds == CacheSpec => []CacheInvariant
  BY CacheStarts, CacheStep, PTL DEF CacheSpec

(* What cleanup's sort is for, at every size of the Map: no step forgets an    *)
(* entry and keeps an older one.                                               *)
THEOREM OldestGoFirst == CacheSpec => OldestForgottenFirst
  <1> DEFINE Forgets ==
        \A m \in DOMAIN processedEvents', n \in DOMAIN processedEvents :
          ~Has(processedEvents', processedEvents[n].key)
          => processedEvents[n].processedAt <= processedEvents'[m].processedAt
  <1>1. ASSUME CacheInvariant, [CacheNext]_cacheVars
        PROVE  [Forgets]_cacheVars
    <2>0. /\ now \in Nat /\ IsMap(processedEvents, now)
      BY <1>1, CacheFacts
    <2>1. ASSUME NEW x \in Messages, MarkProcessed(x)
          PROVE  Forgets
      <3>1. ~IsDuplicate(x) /\ processedEvents' = Trimmed(Filled(x))
        BY <2>1 DEF MarkProcessed, Filled
      <3>2. PICK filled : filled = Filled(x)
        OBVIOUS
      <3>3. /\ IsMap(filled, now)
            /\ \A n \in DOMAIN processedEvents :
                 /\ n \in DOMAIN filled /\ filled[n].key = processedEvents[n].key
                 /\ processedEvents[n].processedAt <= filled[n].processedAt
        BY <1>1, <3>1, <3>2, FilledFacts
      <3>4. PICK after : after = Trimmed(filled)
        OBVIOUS
      <3>5. /\ IsMap(after, now)
            /\ \A k \in DOMAIN after, n \in DOMAIN filled :
                 ~Has(after, filled[n].key) => filled[n].processedAt <= after[k].processedAt
        BY <2>0, <3>3, <3>4, TrimmedFacts
      <3>6. ASSUME NEW k \in DOMAIN after, NEW n \in DOMAIN processedEvents,
                   ~Has(after, processedEvents[n].key)
            PROVE  processedEvents[n].processedAt <= after[k].processedAt
        <4>1. /\ n \in DOMAIN filled /\ filled[n].key = processedEvents[n].key
              /\ processedEvents[n].processedAt <= filled[n].processedAt
          BY <3>3
        <4>2. filled[n].processedAt <= after[k].processedAt
          BY <3>5, <3>6, <4>1
        <4>3. /\ processedEvents[n].processedAt \in Nat /\ filled[n].processedAt \in Nat
              /\ after[k].processedAt \in Nat
          BY <2>0, <3>3, <3>5, <4>1, MapFacts
        <4> QED BY <4>1, <4>2, <4>3
      <3>7. processedEvents' = after
        BY <3>1, <3>2, <3>4
      <3> QED BY <3>6, <3>7
    <2>2. CASE TimedCleanup
      <3>1. PICK after : after = CleanedUp(processedEvents)
        OBVIOUS
      <3>2. \A k \in DOMAIN after, n \in DOMAIN processedEvents :
              ~Has(after, processedEvents[n].key)
              => processedEvents[n].processedAt <= after[k].processedAt
        BY <2>0, <3>1, CleanupForgetsOldest
      <3>3. processedEvents' = after
        BY <2>2, <3>1 DEF TimedCleanup
      <3> QED BY <3>2, <3>3
    <2>3. CASE Clear
      <3>1. DOMAIN processedEvents' = {}
        BY <2>3 DEF Clear
      <3> QED BY <3>1
    <2>4. CASE processedEvents' = processedEvents
      <3>1. \A n \in DOMAIN processedEvents : Has(processedEvents, processedEvents[n].key)
        BY DEF Has
      <3> QED BY <2>4, <3>1 DEF Has
    <2>5. CASE ClockAdvances
      BY <2>4, <2>5 DEF ClockAdvances
    <2> QED BY <1>1, <2>1, <2>2, <2>3, <2>5 DEF CacheNext
  <1>2. CacheSpec => []CacheInvariant
    BY CacheInvariantHolds
  <1> QED BY <1>1, <1>2, PTL DEF CacheSpec, OldestForgottenFirst

(* Marking a message never forgets that message at once, although it may       *)
(* overflow the Map and the cleanup runs before markProcessed returns: of the  *)
(* entries its place is at most the last but one, so its rank is too, and the  *)
(* cleanup keeps the targetSize >= 2 highest ranks.                            *)
THEOREM MarkedIsRemembered == CacheSpec => JustMarkedIsRemembered
  <1> DEFINE Remembers ==
        \A m \in Messages : MarkProcessed(m) /\ targetSize >= 2 => IsDuplicate(m)'
  <1>1. ASSUME CacheInvariant, NEW m \in Messages, MarkProcessed(m), targetSize >= 2
        PROVE  IsDuplicate(m)'
    <2>0. now \in Nat
      BY <1>1, CacheFacts
    <2>1. ~IsDuplicate(m) /\ processedEvents' = Trimmed(Filled(m))
      BY <1>1 DEF MarkProcessed, Filled
    <2>2. PICK filled : filled = Filled(m)
      OBVIOUS
    <2>3. /\ IsMap(filled, now)
          /\ \E p \in DOMAIN filled :
                /\ filled[p].key = generateKey(m)
                /\ filled[p].processedAt = now /\ p + 1 >= Len(filled)
      BY <1>1, <2>1, <2>2, FilledFacts
    <2>4. PICK p \in DOMAIN filled : /\ filled[p].key = generateKey(m)
                                     /\ filled[p].processedAt = now /\ p + 1 >= Len(filled)
      BY <2>3
    <2>5. /\ filled \in Seq(Entry) /\ Len(filled) \in Nat /\ DOMAIN filled = 1..Len(filled)
          /\ \A n \in DOMAIN filled : filled[n].processedAt \in Nat /\ filled[n].processedAt <= now
      BY <2>0, <2>3, MapFacts
    <2>6. PICK after : after = Trimmed(filled)
      OBVIOUS
    <2>7. Has(after, generateKey(m))
      <3>1. CASE Len(filled) > MaxSize
        <4>1. after = CleanedUp(filled)
          BY <2>6, <3>1 DEF Trimmed
        <4>2. CleanedFrom(filled, after, now)
          BY <2>0, <2>3, <4>1, CleanedFacts
        <4>3. Rank(filled, p) >= p - 1
          BY <2>4, <2>5, RankAtLeastPlace
        <4>4. Rank(filled, p) \in Int
          BY <2>4, <2>5, RankFacts
        <4>5. Removed(Len(filled)) = Len(filled) - targetSize /\ targetSize \in Nat
          BY <2>5, <3>1, TargetFacts
        <4>6. Rank(filled, p) >= Len(filled) - targetSize
          BY <1>1, <2>4, <2>5, <4>3, <4>4, <4>5
        <4>7. p \in Kept(filled)
          BY <2>4, <4>5, <4>6 DEF Kept
        <4>8. \E k \in DOMAIN after : after[k] = filled[p]
          BY <4>2, <4>7 DEF CleanedFrom
        <4> QED BY <2>4, <4>8 DEF Has
      <3>2. CASE ~(Len(filled) > MaxSize)
        <4>1. after = filled
          BY <2>6, <3>2 DEF Trimmed
        <4> QED BY <2>4, <4>1 DEF Has
      <3> QED BY <3>1, <3>2
    <2>8. processedEvents' = after
      BY <2>1, <2>2, <2>6
    <2> QED BY <2>7, <2>8 DEF IsDuplicate, Has, generateKey
  <1>2. CacheInvariant => [Remembers]_cacheVars
    BY <1>1
  <1>3. CacheSpec => []CacheInvariant
    BY CacheInvariantHolds
  <1> QED BY <1>2, <1>3, PTL DEF CacheSpec, JustMarkedIsRemembered

-----------------------------------------------------------------------------
(* RETRY HANDLER, for every set of events, every number of attempts, all       *)
(* delays and every bound on rejected sends and restarts. What the invariant   *)
(* says of the topics and the position is said here of sequences and numbers,  *)
(* and each lemma follows one way the topics change.                           *)

Message == [event : Events, retryCount : 1..MaxAttempts]

Dead == [event : Events, finalRetryCount : 0..MaxAttempts]

(* Ahead, UpTo and Deaths over given topics and a given position               *)
AheadIn(retry, position, e) ==
    {n \in DOMAIN retry : n > position /\ retry[n].event = e}

UpToIn(retry, position, e, count) ==
    {n \in DOMAIN retry :
        /\ retry[n].event = e
        /\ retry[n].retryCount = count \/ (n > position /\ retry[n].retryCount < count)}

DeathsIn(dlq, e) == {n \in DOMAIN dlq : dlq[n].event = e}

-----------------------------------------------------------------------------
(* Sets and sequences *)

LEMMA OneMore ==
    ASSUME NEW S, IsFiniteSet(S), NEW T, NEW x, T \subseteq S \cup {x}
    PROVE  /\ IsFiniteSet(T) /\ Cardinality(T) \in Nat /\ Cardinality(S) \in Nat
           /\ Cardinality(T) <= Cardinality(S) + 1
  <1>1. /\ IsFiniteSet(S \cup {x})
        /\ Cardinality(S \cup {x}) = IF x \in S THEN Cardinality(S) ELSE Cardinality(S) + 1
    BY FS_AddElement
  <1>2. IsFiniteSet(T) /\ Cardinality(T) <= Cardinality(S \cup {x})
    BY <1>1, FS_Subset
  <1>3. Cardinality(S) \in Nat /\ Cardinality(T) \in Nat
    BY <1>2, FS_CardinalityType
  <1> QED BY <1>1, <1>2, <1>3

LEMMA NoMore ==
    ASSUME NEW S, IsFiniteSet(S), NEW T, T \subseteq S
    PROVE  /\ IsFiniteSet(T) /\ Cardinality(T) \in Nat /\ Cardinality(S) \in Nat
           /\ Cardinality(T) <= Cardinality(S)
  <1>1. IsFiniteSet(T) /\ Cardinality(T) <= Cardinality(S)
    BY FS_Subset
  <1> QED BY <1>1, FS_CardinalityType

LEMMA OneLess ==
    ASSUME NEW S, IsFiniteSet(S), NEW y \in S
    PROVE  /\ IsFiniteSet(S \ {y}) /\ Cardinality(S) \in Nat
           /\ Cardinality(S \ {y}) \in Nat /\ Cardinality(S \ {y}) = Cardinality(S) - 1
  <1>1. IsFiniteSet(S \ {y}) /\ Cardinality(S \ {y}) = IF y \in S THEN Cardinality(S) - 1 ELSE Cardinality(S)
    BY FS_RemoveElement
  <1> QED BY <1>1, FS_CardinalityType

LEMMA Exchanged ==
    ASSUME NEW S, IsFiniteSet(S), NEW y \in S, NEW T, NEW x, T \subseteq (S \ {y}) \cup {x}
    PROVE  /\ IsFiniteSet(T) /\ Cardinality(T) \in Nat /\ Cardinality(S) \in Nat
           /\ Cardinality(T) <= Cardinality(S)
  <1>1. /\ IsFiniteSet(S \ {y}) /\ Cardinality(S) \in Nat
        /\ Cardinality(S \ {y}) \in Nat /\ Cardinality(S \ {y}) = Cardinality(S) - 1
    BY OneLess
  <1>2. IsFiniteSet(T) /\ Cardinality(T) \in Nat /\ Cardinality(T) <= Cardinality(S \ {y}) + 1
    BY <1>1, OneMore, Zenon
  <1> QED BY <1>1, <1>2

LEMMA Appended ==
    ASSUME NEW S, NEW s \in Seq(S), NEW x \in S
    PROVE  /\ Len(s) \in Nat /\ DOMAIN s = 1..Len(s)
           /\ \A n \in DOMAIN s : s[n] \in S
           /\ Append(s, x) \in Seq(S)
           /\ Len(Append(s, x)) = Len(s) + 1
           /\ DOMAIN Append(s, x) = 1..(Len(s) + 1)
           /\ \A n \in DOMAIN s : Append(s, x)[n] = s[n]
           /\ Append(s, x)[Len(s) + 1] = x
  <1>1. Len(s) \in Nat /\ DOMAIN s = 1..Len(s) /\ \A n \in DOMAIN s : s[n] \in S
    BY LenProperties, ElementOfSeq
  <1>2. /\ Append(s, x) \in Seq(S) /\ Len(Append(s, x)) = Len(s) + 1
        /\ \A n \in 1..Len(s) : Append(s, x)[n] = s[n]
        /\ Append(s, x)[Len(s) + 1] = x
    BY AppendProperties
  <1>3. DOMAIN Append(s, x) = 1..(Len(s) + 1)
    BY <1>2, LenProperties
  <1> QED BY <1>1, <1>2, <1>3

LEMMA UpToFinite ==
    ASSUME NEW n \in Nat
    PROVE  IsFiniteSet(1..n)
  <1>1. 1 \in Int /\ n \in Int
    OBVIOUS
  <1> QED BY <1>1, FS_Interval

LEMMA IndexFinite ==
    ASSUME NEW S, NEW s \in Seq(S), NEW T, T \subseteq DOMAIN s
    PROVE  IsFiniteSet(T) /\ Cardinality(T) \in Nat
  <1>1. Len(s) \in Nat /\ DOMAIN s = 1..Len(s)
    OBVIOUS
  <1>2. IsFiniteSet(1..Len(s))
    BY <1>1, UpToFinite, Zenon
  <1>3. IsFiniteSet(T)
    BY <1>1, <1>2, FS_Subset
  <1> QED BY <1>3, FS_CardinalityType

LEMMA CountsFinite ==
    ASSUME NEW retry \in Seq(Message), NEW dlq \in Seq(Dead), NEW position, NEW e, NEW count
    PROVE  /\ IsFiniteSet(AheadIn(retry, position, e))
           /\ Cardinality(AheadIn(retry, position, e)) \in Nat
           /\ IsFiniteSet(UpToIn(retry, position, e, count))
           /\ Cardinality(UpToIn(retry, position, e, count)) \in Nat
           /\ IsFiniteSet(DeathsIn(dlq, e)) /\ Cardinality(DeathsIn(dlq, e)) \in Nat
  <1>1. /\ AheadIn(retry, position, e) \subseteq DOMAIN retry
        /\ UpToIn(retry, position, e, count) \subseteq DOMAIN retry
        /\ DeathsIn(dlq, e) \subseteq DOMAIN dlq
    BY DEF AheadIn, UpToIn, DeathsIn
  <1> QED BY <1>1, IndexFinite, Zenon

-----------------------------------------------------------------------------
(* What a sent message and a moved position add and take *)

LEMMA SentAhead ==
    ASSUME NEW retry \in Seq(Message), NEW position \in Nat, NEW x \in Message,
           position <= Len(retry)
    PROVE  /\ \A e : e # x.event =>
                /\ AheadIn(Append(retry, x), position, e) = AheadIn(retry, position, e)
                /\ \A count : UpToIn(Append(retry, x), position, e, count)
                                = UpToIn(retry, position, e, count)
           /\ AheadIn(Append(retry, x), position, x.event)
                = AheadIn(retry, position, x.event) \cup {Len(retry) + 1}
           /\ \A count \in Int :
                /\ UpToIn(Append(retry, x), position, x.event, count)
                     \subseteq UpToIn(retry, position, x.event, count) \cup {Len(retry) + 1}
                /\ x.retryCount > count =>
                     UpToIn(Append(retry, x), position, x.event, count)
                       = UpToIn(retry, position, x.event, count)
  <1>1. /\ Len(retry) \in Nat /\ DOMAIN retry = 1..Len(retry)
        /\ DOMAIN Append(retry, x) = DOMAIN retry \cup {Len(retry) + 1}
        /\ \A n \in DOMAIN retry : Append(retry, x)[n] = retry[n]
        /\ Append(retry, x)[Len(retry) + 1] = x
    BY Appended
  <1>2. Len(retry) + 1 > position
    BY <1>1
  <1>3. x.retryCount \in Int
    BY DEF Message
  <1> QED BY <1>1, <1>2, <1>3 DEF AheadIn, UpToIn

LEMMA PassedOver ==
    ASSUME NEW retry \in Seq(Message), NEW position \in Nat, position < Len(retry)
    PROVE  /\ position + 1 \in DOMAIN retry /\ retry[position + 1] \in Message
           /\ \A e : /\ AheadIn(retry, position + 1, e) = AheadIn(retry, position, e) \ {position + 1}
                     /\ \A count : UpToIn(retry, position + 1, e, count)
                                     \subseteq UpToIn(retry, position, e, count)
           /\ position + 1 \in AheadIn(retry, position, retry[position + 1].event)
           /\ \A count \in Int : retry[position + 1].retryCount < count =>
                /\ position + 1 \in UpToIn(retry, position, retry[position + 1].event, count)
                /\ \A e : position + 1 \notin UpToIn(retry, position + 1, e, count)
  <1>1. /\ Len(retry) \in Nat /\ DOMAIN retry = 1..Len(retry)
        /\ \A n \in DOMAIN retry : retry[n] \in Message
    OBVIOUS
  <1>2. position + 1 \in DOMAIN retry /\ retry[position + 1] \in Message
    BY <1>1
  <1>3. \A n \in DOMAIN retry : n \in Int /\ (n > position + 1 <=> (n > position /\ n # position + 1))
    BY <1>1
  <1>4. ~(position + 1 > position + 1) /\ position + 1 > position
    OBVIOUS
  <1>5. retry[position + 1].retryCount \in Int
    BY <1>2 DEF Message
  <1>6. \A e : AheadIn(retry, position + 1, e) = AheadIn(retry, position, e) \ {position + 1}
    BY <1>3 DEF AheadIn
  <1>7. \A e, count : UpToIn(retry, position + 1, e, count) \subseteq UpToIn(retry, position, e, count)
    BY <1>3 DEF UpToIn
  <1>8. position + 1 \in AheadIn(retry, position, retry[position + 1].event)
    BY <1>2, <1>4 DEF AheadIn
  <1>9. ASSUME NEW count \in Int, retry[position + 1].retryCount < count
        PROVE  /\ position + 1 \in UpToIn(retry, position, retry[position + 1].event, count)
               /\ \A e : position + 1 \notin UpToIn(retry, position + 1, e, count)
    BY <1>2, <1>4, <1>5, <1>9 DEF UpToIn
  <1> QED BY <1>2, <1>6, <1>7, <1>8, <1>9

LEMMA DeadCounted ==
    ASSUME NEW dlq \in Seq(Dead), NEW y \in Dead
    PROVE  /\ \A e : e # y.event => DeathsIn(Append(dlq, y), e) = DeathsIn(dlq, e)
           /\ DeathsIn(Append(dlq, y), y.event) = DeathsIn(dlq, y.event) \cup {Len(dlq) + 1}
  <1>1. /\ Len(dlq) \in Nat /\ DOMAIN dlq = 1..Len(dlq)
        /\ DOMAIN Append(dlq, y) = DOMAIN dlq \cup {Len(dlq) + 1}
        /\ \A n \in DOMAIN dlq : Append(dlq, y)[n] = dlq[n]
        /\ Append(dlq, y)[Len(dlq) + 1] = y
    BY Appended
  <1> QED BY <1>1 DEF DeathsIn

-----------------------------------------------------------------------------
(* AttemptsBounded over given topics, successes, position and rejected sends   *)

Bounded(retry, dlq, successes, position, rejected) ==
    \A e \in Events :
        /\ \A count \in 1..MaxAttempts :
              Cardinality(UpToIn(retry, position, e, count)) <= 1 + rejected
        /\ successes[e] + Cardinality(DeathsIn(dlq, e))
              + Cardinality(AheadIn(retry, position, e)) <= 1 + rejected

(* The handler succeeds: one message less ahead, one success more.             *)
LEMMA BoundedHandled ==
    ASSUME NEW retry \in Seq(Message), NEW dlq \in Seq(Dead), NEW successes \in [Events -> Nat],
           NEW position \in Nat, NEW rejected \in Nat, position < Len(retry),
           Bounded(retry, dlq, successes, position, rejected)
    PROVE  Bounded(retry, dlq,
                   [successes EXCEPT ![retry[position + 1].event] = @ + 1], position + 1, rejected)
  <1> DEFINE after == [successes EXCEPT ![retry[position + 1].event] = @ + 1]
  <1>1. SUFFICES ASSUME NEW e \in Events
                 PROVE  /\ \A count \in 1..MaxAttempts :
                              Cardinality(UpToIn(retry, position + 1, e, count)) <= 1 + rejected
                        /\ after[e] + Cardinality(DeathsIn(dlq, e))
                             + Cardinality(AheadIn(retry, position + 1, e)) <= 1 + rejected
    BY DEF Bounded
  <1>2. \A count \in 1..MaxAttempts :
           Cardinality(UpToIn(retry, position + 1, e, count)) <= 1 + rejected
    <2>1. SUFFICES ASSUME NEW count \in 1..MaxAttempts
                   PROVE  Cardinality(UpToIn(retry, position + 1, e, count)) <= 1 + rejected
      OBVIOUS
    <2>2. Cardinality(UpToIn(retry, position, e, count)) <= 1 + rejected
      BY DEF Bounded
    <2>3. UpToIn(retry, position + 1, e, count) \subseteq UpToIn(retry, position, e, count)
      BY PassedOver
    <2>4. IsFiniteSet(UpToIn(retry, position, e, count))
      BY CountsFinite
    <2>5. /\ Cardinality(UpToIn(retry, position + 1, e, count)) \in Nat
          /\ Cardinality(UpToIn(retry, position, e, count)) \in Nat
          /\ Cardinality(UpToIn(retry, position + 1, e, count))
               <= Cardinality(UpToIn(retry, position, e, count))
      BY <2>3, <2>4, NoMore
    <2> QED BY <2>2, <2>5
  <1>3. after[e] + Cardinality(DeathsIn(dlq, e))
          + Cardinality(AheadIn(retry, position + 1, e)) <= 1 + rejected
    <2>1. successes[e] + Cardinality(DeathsIn(dlq, e))
            + Cardinality(AheadIn(retry, position, e)) <= 1 + rejected
      BY DEF Bounded
    <2>2. /\ successes[e] \in Nat /\ Cardinality(DeathsIn(dlq, e)) \in Nat
          /\ IsFiniteSet(AheadIn(retry, position, e))
          /\ Cardinality(AheadIn(retry, position, e)) \in Nat
      BY CountsFinite
    <2>3. AheadIn(retry, position + 1, e) = AheadIn(retry, position, e) \ {position + 1}
      BY PassedOver
    <2>4. CASE e = retry[position + 1].event
      <3>1. position + 1 \in AheadIn(retry, position, e)
        BY <2>4, PassedOver
      <3>2. /\ Cardinality(AheadIn(retry, position + 1, e)) \in Nat
            /\ Cardinality(AheadIn(retry, position + 1, e))
                 = Cardinality(AheadIn(retry, position, e)) - 1
        BY <2>2, <2>3, <3>1, OneLess
      <3>3. after[e] = successes[e] + 1
        BY <2>4
      <3> HIDE DEF after
      <3> QED BY <2>1, <2>2, <3>2, <3>3
    <2>5. CASE e # retry[position + 1].event
      <3>1. /\ Cardinality(AheadIn(retry, position + 1, e)) \in Nat
            /\ Cardinality(AheadIn(retry, position + 1, e))
                 <= Cardinality(AheadIn(retry, position, e))
        BY <2>2, <2>3, NoMore
      <3>2. after[e] = successes[e]
        BY <2>5
      <3> HIDE DEF after
      <3> QED BY <2>1, <2>2, <3>1, <3>2
    <2> QED BY <2>4, <2>5
  <1> QED BY <1>2, <1>3

(* One more attempt takes the place of the one it follows.                     *)
LEMMA BoundedAgain ==
    ASSUME NEW retry \in Seq(Message), NEW dlq \in Seq(Dead), NEW successes \in [Events -> Nat],
           NEW position \in Nat, NEW rejected \in Nat, position < Len(retry),
           NEW x \in Message, x.event = retry[position + 1].event,
           x.retryCount = retry[position + 1].retryCount + 1,
           Bounded(retry, dlq, successes, position, rejected)
    PROVE  Bounded(Append(retry, x), dlq, successes, position + 1, rejected)
  <1>0. /\ retry[position + 1] \in Message /\ Len(retry) \in Nat
        /\ position + 1 \in Nat /\ position + 1 <= Len(retry)
    <2>1. Len(retry) \in Nat
      BY LenProperties
    <2> QED BY <2>1, PassedOver
  <1>s. /\ \A f : f # x.event =>
                /\ AheadIn(Append(retry, x), position + 1, f) = AheadIn(retry, position + 1, f)
                /\ \A count : UpToIn(Append(retry, x), position + 1, f, count)
                                = UpToIn(retry, position + 1, f, count)
        /\ AheadIn(Append(retry, x), position + 1, x.event)
             = AheadIn(retry, position + 1, x.event) \cup {Len(retry) + 1}
        /\ \A count \in Int :
             /\ UpToIn(Append(retry, x), position + 1, x.event, count)
                  \subseteq UpToIn(retry, position + 1, x.event, count) \cup {Len(retry) + 1}
             /\ x.retryCount > count =>
                  UpToIn(Append(retry, x), position + 1, x.event, count)
                    = UpToIn(retry, position + 1, x.event, count)
    BY <1>0, SentAhead
  <1>1. SUFFICES ASSUME NEW e \in Events
                 PROVE  /\ \A count \in 1..MaxAttempts :
                              Cardinality(UpToIn(Append(retry, x), position + 1, e, count)) <= 1 + rejected
                        /\ successes[e] + Cardinality(DeathsIn(dlq, e))
                             + Cardinality(AheadIn(Append(retry, x), position + 1, e)) <= 1 + rejected
    BY DEF Bounded
  <1>2. \A count \in 1..MaxAttempts :
           Cardinality(UpToIn(Append(retry, x), position + 1, e, count)) <= 1 + rejected
    <2>1. SUFFICES ASSUME NEW count \in 1..MaxAttempts
                   PROVE  Cardinality(UpToIn(Append(retry, x), position + 1, e, count)) <= 1 + rejected
      OBVIOUS
    <2>2. Cardinality(UpToIn(retry, position, e, count)) <= 1 + rejected
      BY DEF Bounded
    <2>3. UpToIn(retry, position + 1, e, count) \subseteq UpToIn(retry, position, e, count)
      BY PassedOver
    <2>4. IsFiniteSet(UpToIn(retry, position, e, count))
      BY CountsFinite
    <2>5. /\ Cardinality(UpToIn(Append(retry, x), position + 1, e, count)) \in Nat
          /\ Cardinality(UpToIn(retry, position, e, count)) \in Nat
          /\ Cardinality(UpToIn(Append(retry, x), position + 1, e, count))
               <= Cardinality(UpToIn(retry, position, e, count))
      <3>0. count \in Int
        OBVIOUS
      <3>1. CASE e # x.event
        <4>1. UpToIn(Append(retry, x), position + 1, e, count) = UpToIn(retry, position + 1, e, count)
          BY <1>s, <3>1
        <4> QED BY <2>3, <2>4, <4>1, NoMore
      <3>2. CASE e = x.event /\ x.retryCount > count
        <4>1. UpToIn(Append(retry, x), position + 1, e, count) = UpToIn(retry, position + 1, e, count)
          BY <1>s, <3>0, <3>2
        <4> QED BY <2>3, <2>4, <4>1, NoMore
      <3>3. CASE e = x.event /\ ~(x.retryCount > count)
        <4>1. UpToIn(Append(retry, x), position + 1, e, count)
                \subseteq UpToIn(retry, position + 1, e, count) \cup {Len(retry) + 1}
          BY <1>s, <3>0, <3>3
        <4>2. retry[position + 1].retryCount < count
          BY <1>0, <3>0, <3>3 DEF Message
        <4>3. /\ position + 1 \in UpToIn(retry, position, e, count)
              /\ position + 1 \notin UpToIn(retry, position + 1, e, count)
          BY <3>0, <3>3, <4>2, PassedOver
        <4>4. UpToIn(Append(retry, x), position + 1, e, count)
                \subseteq (UpToIn(retry, position, e, count) \ {position + 1}) \cup {Len(retry) + 1}
          BY <2>3, <4>1, <4>3, Zenon
        <4> DEFINE before == UpToIn(retry, position, e, count)
                   after  == UpToIn(Append(retry, x), position + 1, e, count)
        <4>5. /\ Cardinality(after) \in Nat /\ Cardinality(before) \in Nat
              /\ Cardinality(after) <= Cardinality(before)
          <5>1. /\ IsFiniteSet(before) /\ position + 1 \in before
                /\ after \subseteq (before \ {position + 1}) \cup {Len(retry) + 1}
            BY <2>4, <4>3, <4>4
          <5> HIDE DEF before, after
          <5> QED BY <5>1, Exchanged
        <4> QED BY <4>5
      <3> QED BY <3>1, <3>2, <3>3
    <2> QED BY <2>2, <2>5
  <1>3. successes[e] + Cardinality(DeathsIn(dlq, e))
          + Cardinality(AheadIn(Append(retry, x), position + 1, e)) <= 1 + rejected
    <2>1. successes[e] + Cardinality(DeathsIn(dlq, e))
            + Cardinality(AheadIn(retry, position, e)) <= 1 + rejected
      BY DEF Bounded
    <2>2. /\ successes[e] \in Nat /\ Cardinality(DeathsIn(dlq, e)) \in Nat
          /\ IsFiniteSet(AheadIn(retry, position, e))
          /\ Cardinality(AheadIn(retry, position, e)) \in Nat
      BY CountsFinite
    <2>3. AheadIn(retry, position + 1, e) = AheadIn(retry, position, e) \ {position + 1}
      BY PassedOver
    <2>4. /\ Cardinality(AheadIn(Append(retry, x), position + 1, e)) \in Nat
          /\ Cardinality(AheadIn(Append(retry, x), position + 1, e))
               <= Cardinality(AheadIn(retry, position, e))
      <3>1. CASE e = x.event
        <4>1. AheadIn(Append(retry, x), position + 1, e)
                \subseteq (AheadIn(retry, position, e) \ {position + 1}) \cup {Len(retry) + 1}
          BY <1>s, <2>3, <3>1
        <4>2. position + 1 \in AheadIn(retry, position, e)
          BY <3>1, PassedOver
        <4> QED BY <2>2, <4>1, <4>2, Exchanged
      <3>2. CASE e # x.event
        <4>1. AheadIn(Append(retry, x), position + 1, e) \subseteq AheadIn(retry, position, e)
          BY <1>s, <2>3, <3>2
        <4> QED BY <2>2, <4>1, NoMore
      <3> QED BY <3>1, <3>2
    <2> QED BY <2>1, <2>2, <2>4
  <1> QED BY <1>2, <1>3

(* The last attempt ends in the dead letter topic.                             *)
LEMMA BoundedDead ==
    ASSUME NEW retry \in Seq(Message), NEW dlq \in Seq(Dead), NEW successes \in [Events -> Nat],
           NEW position \in Nat, NEW rejected \in Nat, position < Len(retry),
           NEW y \in Dead, y.event = retry[position + 1].event,
           Bounded(retry, dlq, successes, position, rejected)
    PROVE  Bounded(retry, Append(dlq, y), successes, position + 1, rejected)
  <1>1. SUFFICES ASSUME NEW e \in Events
                 PROVE  /\ \A count \in 1..MaxAttempts :
                              Cardinality(UpToIn(retry, position + 1, e, count)) <= 1 + rejected
                        /\ successes[e] + Cardinality(DeathsIn(Append(dlq, y), e))
                             + Cardinality(AheadIn(retry, position + 1, e)) <= 1 + rejected
    BY DEF Bounded
  <1>2. ASSUME NEW count \in 1..MaxAttempts
        PROVE  Cardinality(UpToIn(retry, position + 1, e, count)) <= 1 + rejected
    <2>2. Cardinality(UpToIn(retry, position, e, count)) <= 1 + rejected
      BY DEF Bounded
    <2>3. UpToIn(retry, position + 1, e, count) \subseteq UpToIn(retry, position, e, count)
      BY PassedOver
    <2>4. IsFiniteSet(UpToIn(retry, position, e, count))
      BY CountsFinite
    <2>5. /\ Cardinality(UpToIn(retry, position + 1, e, count)) \in Nat
          /\ Cardinality(UpToIn(retry, position, e, count)) \in Nat
          /\ Cardinality(UpToIn(retry, position + 1, e, count))
               <= Cardinality(UpToIn(retry, position, e, count))
      BY <2>3, <2>4, NoMore
    <2> QED BY <2>2, <2>5
  <1>3. successes[e] + Cardinality(DeathsIn(Append(dlq, y), e))
          + Cardinality(AheadIn(retry, position + 1, e)) <= 1 + rejected
    <2>1. successes[e] + Cardinality(DeathsIn(dlq, e))
            + Cardinality(AheadIn(retry, position, e)) <= 1 + rejected
      BY DEF Bounded
    <2>2. /\ successes[e] \in Nat /\ IsFiniteSet(DeathsIn(dlq, e))
          /\ Cardinality(DeathsIn(dlq, e)) \in Nat
          /\ IsFiniteSet(AheadIn(retry, position, e))
          /\ Cardinality(AheadIn(retry, position, e)) \in Nat
      BY CountsFinite
    <2>3. AheadIn(retry, position + 1, e) = AheadIn(retry, position, e) \ {position + 1}
      BY PassedOver
    <2>4. CASE e = y.event
      <3>1. position + 1 \in AheadIn(retry, position, e)
        BY <2>4, PassedOver
      <3>2. /\ Cardinality(AheadIn(retry, position + 1, e)) \in Nat
            /\ Cardinality(AheadIn(retry, position + 1, e))
                 = Cardinality(AheadIn(retry, position, e)) - 1
        BY <2>2, <2>3, <3>1, OneLess
      <3>3. DeathsIn(Append(dlq, y), e) \subseteq DeathsIn(dlq, e) \cup {Len(dlq) + 1}
        BY <2>4, DeadCounted
      <3>4. /\ Cardinality(DeathsIn(Append(dlq, y), e)) \in Nat
            /\ Cardinality(DeathsIn(Append(dlq, y), e)) <= Cardinality(DeathsIn(dlq, e)) + 1
        BY <2>2, <3>3, OneMore
      <3> QED BY <2>1, <2>2, <3>2, <3>4
    <2>5. CASE e # y.event
      <3>1. /\ Cardinality(AheadIn(retry, position + 1, e)) \in Nat
            /\ Cardinality(AheadIn(retry, position + 1, e))
                 <= Cardinality(AheadIn(retry, position, e))
        BY <2>2, <2>3, NoMore
      <3>2. DeathsIn(Append(dlq, y), e) = DeathsIn(dlq, e)
        BY <2>5, DeadCounted
      <3> QED BY <2>1, <2>2, <3>1, <3>2
    <2> QED BY <2>4, <2>5
  <1> QED BY <1>2, <1>3

(* A send adds at most one to what is counted about its event: after a         *)
(* rejected send that is allowed, and so it is for the first send of an event. *)
LEMMA SentOnce ==
    ASSUME NEW retry \in Seq(Message), NEW dlq \in Seq(Dead), NEW successes \in [Events -> Nat],
           NEW position \in Nat, NEW rejected \in Nat, NEW allowed \in Nat, NEW first \in Events,
           position <= Len(retry), Bounded(retry, dlq, successes, position, rejected),
           rejected <= allowed,
           \/ rejected + 1 = allowed
           \/ /\ \A n \in DOMAIN retry : retry[n].event # first
              /\ DeathsIn(dlq, first) = {} /\ successes[first] = 0
    PROVE  /\ \A x \in Message : x.event = first =>
                Bounded(Append(retry, x), dlq, successes, position, allowed)
           /\ \A y \in Dead : y.event = first =>
                Bounded(retry, Append(dlq, y), successes, position, allowed)
           /\ Bounded(retry, dlq, successes, position, allowed)
  <1> DEFINE aheadOf(e) == Cardinality(AheadIn(retry, position, e))
             upTo(e, count) == Cardinality(UpToIn(retry, position, e, count))
             dead(e) == Cardinality(DeathsIn(dlq, e))
  <1>1. \A e \in Events : /\ aheadOf(e) \in Nat /\ dead(e) \in Nat /\ successes[e] \in Nat
                          /\ \A count \in 1..MaxAttempts : upTo(e, count) \in Nat
    BY CountsFinite
  <1>2. \A e \in Events :
           /\ \A count \in 1..MaxAttempts : upTo(e, count) <= 1 + rejected
           /\ successes[e] + dead(e) + aheadOf(e) <= 1 + rejected
    BY DEF Bounded
  <1>3. /\ \A count \in 1..MaxAttempts : upTo(first, count) + 1 <= 1 + allowed
        /\ successes[first] + dead(first) + aheadOf(first) + 1 <= 1 + allowed
    <2>1. CASE rejected + 1 = allowed
      <3> HIDE DEF aheadOf, upTo, dead
      <3> QED BY <1>1, <1>2, <2>1
    <2>2. CASE /\ \A n \in DOMAIN retry : retry[n].event # first
               /\ DeathsIn(dlq, first) = {} /\ successes[first] = 0
      <3>1. AheadIn(retry, position, first) = {} /\ \A count : UpToIn(retry, position, first, count) = {}
        BY <2>2 DEF AheadIn, UpToIn
      <3>2. /\ aheadOf(first) = 0 /\ dead(first) = 0
            /\ \A count \in 1..MaxAttempts : upTo(first, count) = 0
        BY <2>2, <3>1, FS_EmptySet
      <3> HIDE DEF aheadOf, upTo, dead
      <3> QED BY <2>2, <3>2
    <2> QED BY <2>1, <2>2
  <1>s. ASSUME NEW e \in Events
        PROVE  /\ \A count \in 1..MaxAttempts : upTo(e, count) <= 1 + allowed
               /\ successes[e] + dead(e) + aheadOf(e) <= 1 + allowed
    <2>1. ASSUME NEW count \in 1..MaxAttempts
          PROVE  upTo(e, count) <= 1 + allowed
      <3>1. upTo(e, count) \in Nat /\ upTo(e, count) <= 1 + rejected
        BY <1>1, <1>2
      <3> HIDE DEF upTo
      <3> QED BY <3>1
    <2>2. successes[e] + dead(e) + aheadOf(e) <= 1 + allowed
      <3>1. /\ aheadOf(e) \in Nat /\ dead(e) \in Nat /\ successes[e] \in Nat
            /\ successes[e] + dead(e) + aheadOf(e) <= 1 + rejected
        BY <1>1, <1>2
      <3> HIDE DEF aheadOf, dead
      <3> QED BY <3>1
    <2> QED BY <2>1, <2>2
  <1>4. ASSUME NEW x \in Message, x.event = first
        PROVE  Bounded(Append(retry, x), dlq, successes, position, allowed)
    <2>1. SUFFICES ASSUME NEW e \in Events
                   PROVE  /\ \A count \in 1..MaxAttempts :
                                Cardinality(UpToIn(Append(retry, x), position, e, count)) <= 1 + allowed
                          /\ successes[e] + Cardinality(DeathsIn(dlq, e))
                               + Cardinality(AheadIn(Append(retry, x), position, e)) <= 1 + allowed
      BY DEF Bounded
    <2>2. CASE e = first
      <3>1. /\ Cardinality(AheadIn(Append(retry, x), position, e)) \in Nat
            /\ Cardinality(AheadIn(Append(retry, x), position, e)) <= aheadOf(e) + 1
        <4>1. AheadIn(Append(retry, x), position, e)
                \subseteq AheadIn(retry, position, e) \cup {Len(retry) + 1}
          BY <1>4, <2>2, SentAhead
        <4>2. IsFiniteSet(AheadIn(retry, position, e))
          BY CountsFinite
        <4> QED BY <4>1, <4>2, OneMore
      <3>2. ASSUME NEW count \in 1..MaxAttempts
            PROVE  /\ Cardinality(UpToIn(Append(retry, x), position, e, count)) \in Nat
                   /\ Cardinality(UpToIn(Append(retry, x), position, e, count)) <= upTo(e, count) + 1
        <4>0. count \in Int
          OBVIOUS
        <4>1. UpToIn(Append(retry, x), position, e, count)
                \subseteq UpToIn(retry, position, e, count) \cup {Len(retry) + 1}
          BY <1>4, <2>2, <4>0, SentAhead
        <4>2. IsFiniteSet(UpToIn(retry, position, e, count))
          BY CountsFinite
        <4> QED BY <4>1, <4>2, OneMore
      <3>3. dead(e) = Cardinality(DeathsIn(dlq, e))
        OBVIOUS
      <3> HIDE DEF aheadOf, upTo, dead
      <3>4. \A count \in 1..MaxAttempts :
               Cardinality(UpToIn(Append(retry, x), position, e, count)) <= 1 + allowed
        BY <1>1, <1>3, <2>2, <3>2
      <3>5. successes[e] + dead(e)
              + Cardinality(AheadIn(Append(retry, x), position, e)) <= 1 + allowed
        BY <1>1, <1>3, <2>2, <3>1
      <3> QED BY <3>3, <3>4, <3>5
    <2>3. CASE e # first
      <3>1. /\ AheadIn(Append(retry, x), position, e) = AheadIn(retry, position, e)
            /\ \A count : UpToIn(Append(retry, x), position, e, count)
                            = UpToIn(retry, position, e, count)
        <4>1. e # x.event
          BY <1>4, <2>3, Zenon
        <4>2. position <= Len(retry)
          BY Zenon
        <4>3. \A f : f # x.event =>
                 /\ AheadIn(Append(retry, x), position, f) = AheadIn(retry, position, f)
                 /\ \A count : UpToIn(Append(retry, x), position, f, count)
                                 = UpToIn(retry, position, f, count)
          BY <4>2, SentAhead
        <4> QED BY <4>1, <4>3, Zenon
      <3>2. SUFFICES /\ \A count \in 1..MaxAttempts : upTo(e, count) <= 1 + allowed
                     /\ successes[e] + dead(e) + aheadOf(e) <= 1 + allowed
        BY <3>1
      <3> QED BY <1>s
    <2> QED BY <2>2, <2>3
  <1>5. ASSUME NEW y \in Dead, y.event = first
        PROVE  Bounded(retry, Append(dlq, y), successes, position, allowed)
    <2>1. SUFFICES ASSUME NEW e \in Events
                   PROVE  /\ \A count \in 1..MaxAttempts : upTo(e, count) <= 1 + allowed
                          /\ successes[e] + Cardinality(DeathsIn(Append(dlq, y), e)) + aheadOf(e)
                                <= 1 + allowed
      BY DEF Bounded
    <2>2. CASE e = first
      <3>1. /\ Cardinality(DeathsIn(Append(dlq, y), e)) \in Nat
            /\ Cardinality(DeathsIn(Append(dlq, y), e)) <= dead(e) + 1
        <4>1. DeathsIn(Append(dlq, y), e) \subseteq DeathsIn(dlq, e) \cup {Len(dlq) + 1}
          BY <1>5, <2>2, DeadCounted
        <4>2. IsFiniteSet(DeathsIn(dlq, e))
          BY CountsFinite
        <4> QED BY <4>1, <4>2, OneMore
      <3>2. /\ aheadOf(e) \in Nat /\ dead(e) \in Nat /\ successes[e] \in Nat
            /\ successes[e] + dead(e) + aheadOf(e) + 1 <= 1 + allowed
        BY <1>1, <1>3, <2>2
      <3>3. successes[e] + Cardinality(DeathsIn(Append(dlq, y), e)) + aheadOf(e) <= 1 + allowed
        <4> HIDE DEF aheadOf, dead
        <4> QED BY <3>1, <3>2
      <3> QED BY <1>s, <3>3
    <2>3. CASE e # first
      <3>1. Cardinality(DeathsIn(Append(dlq, y), e)) = dead(e)
        BY <1>5, <2>3, DeadCounted
      <3> HIDE DEF aheadOf, upTo, dead
      <3> QED BY <1>s, <3>1
    <2> QED BY <2>2, <2>3
  <1>6. Bounded(retry, dlq, successes, position, allowed)
    <2>1. SUFFICES \A e \in Events :
                     /\ \A count \in 1..MaxAttempts : upTo(e, count) <= 1 + allowed
                     /\ successes[e] + dead(e) + aheadOf(e) <= 1 + allowed
      BY DEF Bounded
    <2> QED BY <1>s
  <1> QED BY <1>4, <1>5, <1>6

-----------------------------------------------------------------------------
(* The other parts of the invariant in the same terms                          *)

(* the attempt of that count went over the topic *)
Made(retry, e, count, position, crashed) ==
    \E m \in DOMAIN retry :
        /\ retry[m].event = e /\ retry[m].retryCount = count
        /\ m <= position + 1 \/ crashed

InTurn(retry, position, crashed) ==
    \A n \in DOMAIN retry : \A count \in 1..(retry[n].retryCount - 1) :
        Made(retry, retry[n].event, count, position, crashed)

DeadInTurn(retry, dlq, position, crashed) ==
    \A n \in DOMAIN dlq : \A count \in 1..MaxAttempts :
        Made(retry, dlq[n].event, count, position, crashed)

Untouched(retry, dlq, before, successes) ==
    \A e \in Events \ before :
        /\ \A n \in DOMAIN retry : retry[n].event # e
        /\ DeathsIn(dlq, e) = {}
        /\ successes[e] = 0

ConsumerStages == {"idle", "handling", "rescheduling"}

Placement(retry, position, committed, stage) ==
    /\ position \in Nat /\ committed \in Nat \cup {NoOffset} /\ stage \in ConsumerStages
    /\ committed <= position /\ position <= Len(retry)
    /\ stage # "idle" => position < Len(retry)

Sound(retry, dlq, before, successes, position, committed, stage, rejected, restarts) ==
    /\ retry \in Seq(Message) /\ dlq \in Seq(Dead)
    /\ before \subseteq Events /\ successes \in [Events -> Nat]
    /\ rejected \in Nat /\ restarts \in Nat
    /\ Placement(retry, position, committed, stage)
    /\ Untouched(retry, dlq, before, successes)
    /\ InTurn(retry, position, restarts > 0)
    /\ DeadInTurn(retry, dlq, position, restarts > 0)
    /\ restarts = 0 => Bounded(retry, dlq, successes, position, rejected)

(* What was made stays made while the topic grows and the position does, or    *)
(* once there was a restart.                                                   *)
LEMMA MadeGrows ==
    ASSUME NEW retry \in Seq(Message), NEW x \in Message, NEW e, NEW count,
           NEW position, NEW crashed, Made(retry, e, count, position, crashed)
    PROVE  Made(Append(retry, x), e, count, position, crashed)
  <1>1. PICK m \in DOMAIN retry :
           /\ retry[m].event = e /\ retry[m].retryCount = count
           /\ m <= position + 1 \/ crashed
    BY DEF Made
  <1>2. /\ DOMAIN retry = 1..Len(retry) /\ Len(retry) \in Nat
        /\ DOMAIN Append(retry, x) = 1..(Len(retry) + 1)
        /\ \A n \in DOMAIN retry : Append(retry, x)[n] = retry[n]
    BY Appended
  <1>3. m \in DOMAIN Append(retry, x) /\ Append(retry, x)[m] = retry[m]
    BY <1>2
  <1> QED BY <1>1, <1>3 DEF Made

LEMMA TurnsStay ==
    ASSUME NEW retry \in Seq(Message), NEW dlq \in Seq(Dead),
           NEW position \in Nat, NEW later \in Nat,
           NEW crashed \in BOOLEAN, NEW crashedLater \in BOOLEAN,
           position <= later \/ crashedLater, crashed => crashedLater,
           InTurn(retry, position, crashed), DeadInTurn(retry, dlq, position, crashed)
    PROVE  /\ InTurn(retry, later, crashedLater)
           /\ DeadInTurn(retry, dlq, later, crashedLater)
           /\ \A x \in Message :
                (\A count \in 1..(x.retryCount - 1) : Made(retry, x.event, count, position, crashed)
                                                  \/ Made(retry, x.event, count, later, crashedLater)) =>
                  /\ InTurn(Append(retry, x), later, crashedLater)
                  /\ DeadInTurn(Append(retry, x), dlq, later, crashedLater)
           /\ \A y \in Dead :
                (\A count \in 1..MaxAttempts : Made(retry, y.event, count, position, crashed)
                                            \/ Made(retry, y.event, count, later, crashedLater)) =>
                  DeadInTurn(retry, Append(dlq, y), later, crashedLater)
  <1>1. ASSUME NEW e, NEW count, Made(retry, e, count, position, crashed)
        PROVE  Made(retry, e, count, later, crashedLater)
    <2>1. PICK m \in DOMAIN retry :
             /\ retry[m].event = e /\ retry[m].retryCount = count
             /\ m <= position + 1 \/ crashed
      BY <1>1 DEF Made
    <2>2. m \in Int
      OBVIOUS
    <2> QED BY <2>1, <2>2 DEF Made
  <1>2. ASSUME NEW x \in Message, NEW e, NEW count,
               \/ Made(retry, e, count, position, crashed)
               \/ Made(retry, e, count, later, crashedLater)
        PROVE  Made(Append(retry, x), e, count, later, crashedLater)
    <2>1. Made(retry, e, count, later, crashedLater)
      BY <1>2, <1>1
    <2> QED BY <2>1, MadeGrows
  <1>3. InTurn(retry, later, crashedLater) /\ DeadInTurn(retry, dlq, later, crashedLater)
    BY <1>1 DEF InTurn, DeadInTurn
  <1>4. ASSUME NEW x \in Message,
               \A count \in 1..(x.retryCount - 1) : \/ Made(retry, x.event, count, position, crashed)
                                                 \/ Made(retry, x.event, count, later, crashedLater)
        PROVE  /\ InTurn(Append(retry, x), later, crashedLater)
               /\ DeadInTurn(Append(retry, x), dlq, later, crashedLater)
    <2>1. /\ DOMAIN Append(retry, x) = DOMAIN retry \cup {Len(retry) + 1}
          /\ \A n \in DOMAIN retry : Append(retry, x)[n] = retry[n]
          /\ Append(retry, x)[Len(retry) + 1] = x
      BY Appended
    <2>2. ASSUME NEW n \in DOMAIN Append(retry, x),
                 NEW count \in 1..(Append(retry, x)[n].retryCount - 1)
          PROVE  Made(Append(retry, x), Append(retry, x)[n].event, count, later, crashedLater)
      <3>1. CASE n \in DOMAIN retry
        <4>1. Append(retry, x)[n] = retry[n]
          BY <2>1, <3>1
        <4>2. Made(retry, retry[n].event, count, position, crashed)
          BY <3>1, <4>1 DEF InTurn
        <4> QED BY <1>2, <4>1, <4>2
      <3>2. CASE n = Len(retry) + 1
        <4>1. Append(retry, x)[n] = x
          BY <2>1, <3>2
        <4> QED BY <1>2, <1>4, <4>1
      <3> QED BY <2>1, <3>1, <3>2
    <2>3. InTurn(Append(retry, x), later, crashedLater)
      BY <2>2 DEF InTurn
    <2>4. DeadInTurn(Append(retry, x), dlq, later, crashedLater)
      BY <1>2 DEF DeadInTurn
    <2> QED BY <2>3, <2>4
  <1>5. ASSUME NEW y \in Dead,
               \A count \in 1..MaxAttempts : \/ Made(retry, y.event, count, position, crashed)
                                           \/ Made(retry, y.event, count, later, crashedLater)
        PROVE  DeadInTurn(retry, Append(dlq, y), later, crashedLater)
    <2>1. /\ DOMAIN Append(dlq, y) = DOMAIN dlq \cup {Len(dlq) + 1}
          /\ \A n \in DOMAIN dlq : Append(dlq, y)[n] = dlq[n]
          /\ Append(dlq, y)[Len(dlq) + 1] = y
      BY Appended
    <2>2. ASSUME NEW n \in DOMAIN Append(dlq, y), NEW count \in 1..MaxAttempts
          PROVE  Made(retry, Append(dlq, y)[n].event, count, later, crashedLater)
      <3>1. CASE n \in DOMAIN dlq
        BY <1>3, <2>1, <3>1 DEF DeadInTurn
      <3>2. CASE n = Len(dlq) + 1
        <4>1. Append(dlq, y)[n] = y
          BY <2>1, <3>2
        <4> QED BY <1>1, <1>5, <4>1
      <3> QED BY <2>1, <3>1, <3>2
    <2> QED BY <2>2 DEF DeadInTurn
  <1> QED BY <1>3, <1>4, <1>5

-----------------------------------------------------------------------------
(* Each kind of step keeps the invariant *)

Sent(e, retryCount) == [event |-> e, retryCount |-> retryCount + 1]

Buried(e, retryCount) == [event |-> e, finalRetryCount |-> retryCount]

LEMMA SentTypes ==
    ASSUME NEW e \in Events, NEW k \in 0..MaxAttempts
    PROVE  /\ k < MaxAttempts => Sent(e, k) \in Message
           /\ Sent(e, k).event = e /\ Sent(e, k).retryCount = k + 1
           /\ Buried(e, k) \in Dead /\ Buried(e, k).event = e
  BY RetryAssumption DEF Sent, Buried, Message, Dead

LEMMA FreshStays ==
    ASSUME NEW retry \in Seq(Message), NEW dlq \in Seq(Dead), NEW before \in SUBSET Events,
           NEW successes \in [Events -> Nat], Untouched(retry, dlq, before, successes),
           NEW e \in Events, NEW later \in SUBSET Events, before \subseteq later, e \in later
    PROVE  /\ Untouched(retry, dlq, later, successes)
           /\ Untouched(retry, dlq, later, [successes EXCEPT ![e] = @ + 1])
           /\ \A x \in Message : x.event = e => Untouched(Append(retry, x), dlq, later, successes)
           /\ \A y \in Dead : y.event = e => Untouched(retry, Append(dlq, y), later, successes)
  <1>1. Untouched(retry, dlq, later, successes)
    BY DEF Untouched
  <1>2. Untouched(retry, dlq, later, [successes EXCEPT ![e] = @ + 1])
    BY <1>1 DEF Untouched
  <1>3. ASSUME NEW x \in Message, x.event = e
        PROVE  Untouched(Append(retry, x), dlq, later, successes)
    <2>1. /\ DOMAIN Append(retry, x) = DOMAIN retry \cup {Len(retry) + 1}
          /\ \A n \in DOMAIN retry : Append(retry, x)[n] = retry[n]
          /\ Append(retry, x)[Len(retry) + 1] = x
      BY Appended
    <2> QED BY <1>1, <1>3, <2>1 DEF Untouched
  <1>4. ASSUME NEW y \in Dead, y.event = e
        PROVE  Untouched(retry, Append(dlq, y), later, successes)
    <2>1. \A f : f # e => DeathsIn(Append(dlq, y), f) = DeathsIn(dlq, f)
      BY <1>4, DeadCounted
    <2> QED BY <1>1, <2>1 DEF Untouched
  <1> QED BY <1>1, <1>2, <1>3, <1>4

(* A send while the position stays: the first one of an event, or a rejected   *)
(* one, after which the topics may as well be what they were.                  *)
LEMMA SentSound ==
    ASSUME NEW retry, NEW dlq, NEW before, NEW successes, NEW position, NEW committed,
           NEW stage, NEW rejected, NEW restarts,
           Sound(retry, dlq, before, successes, position, committed, stage, rejected, restarts),
           NEW e \in Events, NEW k \in 0..MaxAttempts, NEW allowed \in Nat,
           allowed = rejected + 1 \/ (allowed = rejected /\ e \notin before),
           \A count \in 1..k : Made(retry, e, count, position, restarts > 0),
           NEW stageAfter \in {stage, "idle"}
    PROVE  /\ k < MaxAttempts =>
                Sound(Append(retry, Sent(e, k)), dlq, before \cup {e}, successes,
                      position, committed, stageAfter, allowed, restarts)
           /\ k >= MaxAttempts =>
                Sound(retry, Append(dlq, Buried(e, k)), before \cup {e}, successes,
                      position, committed, stageAfter, allowed, restarts)
           /\ allowed = rejected + 1 =>
                Sound(retry, dlq, before \cup {e}, successes,
                      position, committed, stageAfter, allowed, restarts)
  <1> DEFINE later == before \cup {e}
             x == Sent(e, k)
             y == Buried(e, k)
             crashed == restarts > 0
  <1>1. /\ retry \in Seq(Message) /\ dlq \in Seq(Dead)
        /\ before \subseteq Events /\ successes \in [Events -> Nat]
        /\ rejected \in Nat /\ restarts \in Nat
        /\ Placement(retry, position, committed, stage)
        /\ Untouched(retry, dlq, before, successes)
        /\ InTurn(retry, position, crashed)
        /\ DeadInTurn(retry, dlq, position, crashed)
        /\ restarts = 0 => Bounded(retry, dlq, successes, position, rejected)
    BY DEF Sound
  <1>2. /\ k < MaxAttempts => x \in Message
        /\ x.event = e /\ x.retryCount = k + 1
        /\ y \in Dead /\ y.event = e
    BY SentTypes
  <1>3. /\ position \in Nat /\ position <= Len(retry) /\ Len(retry) \in Nat
        /\ crashed \in BOOLEAN /\ position <= position
    BY <1>1, LenProperties DEF Placement
  <1>4. Placement(retry, position, committed, stageAfter)
    BY <1>1 DEF Placement, ConsumerStages
  <1>5. Untouched(retry, dlq, later, successes)
    BY <1>1, FreshStays
  <1>6. restarts = 0 =>
           /\ k < MaxAttempts => Bounded(Append(retry, x), dlq, successes, position, allowed)
           /\ Bounded(retry, Append(dlq, y), successes, position, allowed)
           /\ allowed = rejected + 1 => Bounded(retry, dlq, successes, position, allowed)
    <2>1. rejected <= allowed
      BY <1>1
    <2>2. \/ rejected + 1 = allowed
          \/ /\ \A n \in DOMAIN retry : retry[n].event # e
             /\ DeathsIn(dlq, e) = {} /\ successes[e] = 0
      BY <1>1 DEF Untouched
    <2>3. SUFFICES ASSUME restarts = 0
                   PROVE  /\ k < MaxAttempts => Bounded(Append(retry, x), dlq, successes, position, allowed)
                          /\ Bounded(retry, Append(dlq, y), successes, position, allowed)
                          /\ Bounded(retry, dlq, successes, position, allowed)
      OBVIOUS
    <2>4. /\ \A u \in Message : u.event = e =>
                Bounded(Append(retry, u), dlq, successes, position, allowed)
          /\ \A v \in Dead : v.event = e =>
                Bounded(retry, Append(dlq, v), successes, position, allowed)
          /\ Bounded(retry, dlq, successes, position, allowed)
      BY <1>1, <1>3, <2>1, <2>2, <2>3, SentOnce
    <2> HIDE DEF x, y
    <2> QED BY <1>2, <2>4
  <1>7. ASSUME k < MaxAttempts
        PROVE  Sound(Append(retry, x), dlq, later, successes,
                     position, committed, stageAfter, allowed, restarts)
    <2>1. Append(retry, x) \in Seq(Message) /\ Len(Append(retry, x)) = Len(retry) + 1
      <3> HIDE DEF x
      <3> QED BY <1>1, <1>2, <1>7, Appended
    <2>2. Placement(Append(retry, x), position, committed, stageAfter)
      <3> HIDE DEF x
      <3> QED BY <1>3, <1>4, <2>1 DEF Placement
    <2>3. Untouched(Append(retry, x), dlq, later, successes)
      <3> HIDE DEF x
      <3> QED BY <1>1, <1>2, <1>7, FreshStays
    <2>4. InTurn(Append(retry, x), position, crashed) /\ DeadInTurn(Append(retry, x), dlq, position, crashed)
      <3>1. \A count \in 1..(x.retryCount - 1) : Made(retry, x.event, count, position, crashed)
        <4>1. x.retryCount - 1 = k
          BY <1>2
        <4> HIDE DEF x
        <4> QED BY <1>2, <4>1
      <3> HIDE DEF x, crashed
      <3> QED BY <1>1, <1>2, <1>3, <1>7, <3>1, TurnsStay
    <2> HIDE DEF x
    <2> QED BY <1>1, <1>6, <1>7, <2>1, <2>2, <2>3, <2>4 DEF Sound
  <1>8. ASSUME k >= MaxAttempts
        PROVE  Sound(retry, Append(dlq, y), later, successes,
                     position, committed, stageAfter, allowed, restarts)
    <2>1. Append(dlq, y) \in Seq(Dead)
      <3> HIDE DEF y
      <3> QED BY <1>1, <1>2, Appended
    <2>2. Untouched(retry, Append(dlq, y), later, successes)
      <3> HIDE DEF y
      <3> QED BY <1>1, <1>2, FreshStays
    <2>3. DeadInTurn(retry, Append(dlq, y), position, crashed)
      <3>1. \A count \in 1..MaxAttempts : Made(retry, y.event, count, position, crashed)
        <4>1. k = MaxAttempts
          BY <1>8, RetryAssumption
        <4> HIDE DEF y
        <4> QED BY <1>2, <4>1
      <3> HIDE DEF y, crashed
      <3> QED BY <1>1, <1>2, <1>3, <3>1, TurnsStay
    <2> HIDE DEF y
    <2> QED BY <1>1, <1>4, <1>6, <2>1, <2>2, <2>3 DEF Sound
  <1>9. ASSUME allowed = rejected + 1
        PROVE  Sound(retry, dlq, later, successes,
                     position, committed, stageAfter, allowed, restarts)
    BY <1>1, <1>4, <1>5, <1>6, <1>9 DEF Sound
  <1> QED BY <1>7, <1>8, <1>9

(* The message at the position was reached by its earlier attempts, and its    *)
(* event has failed.                                                           *)
LEMMA AtPosition ==
    ASSUME NEW retry, NEW dlq, NEW before, NEW successes, NEW position, NEW committed,
           NEW stage, NEW rejected, NEW restarts, position < Len(retry),
           Sound(retry, dlq, before, successes, position, committed, stage, rejected, restarts)
    PROVE  /\ retry[position + 1] \in Message
           /\ retry[position + 1].event \in before
           /\ \A count \in 1..retry[position + 1].retryCount :
                Made(retry, retry[position + 1].event, count, position, restarts > 0)
  <1>1. /\ retry \in Seq(Message) /\ Placement(retry, position, committed, stage)
        /\ Untouched(retry, dlq, before, successes)
        /\ InTurn(retry, position, restarts > 0)
    BY DEF Sound
  <1>2. position \in Nat
    BY <1>1 DEF Placement
  <1>3. position + 1 \in DOMAIN retry /\ retry[position + 1] \in Message
    BY <1>1, <1>2, PassedOver
  <1>4. retry[position + 1].event \in Events /\ retry[position + 1].retryCount \in Nat
    BY <1>3 DEF Message
  <1>5. retry[position + 1].event \in before
    BY <1>1, <1>3, <1>4 DEF Untouched
  <1>6. ASSUME NEW count \in 1..retry[position + 1].retryCount
        PROVE  Made(retry, retry[position + 1].event, count, position, restarts > 0)
    <2>1. CASE count = retry[position + 1].retryCount
      <3>1. position + 1 <= position + 1
        BY <1>2
      <3> QED BY <1>3, <2>1, <3>1 DEF Made
    <2>2. CASE count # retry[position + 1].retryCount
      <3>1. count \in 1..(retry[position + 1].retryCount - 1)
        BY <1>4, <2>2
      <3> QED BY <1>1, <1>3, <3>1 DEF InTurn
    <2> QED BY <2>1, <2>2
  <1> QED BY <1>3, <1>5, <1>6

LEMMA HandledSound ==
    ASSUME NEW retry, NEW dlq, NEW before, NEW successes, NEW position, NEW committed,
           NEW stage, NEW rejected, NEW restarts, position < Len(retry),
           Sound(retry, dlq, before, successes, position, committed, stage, rejected, restarts)
    PROVE  Sound(retry, dlq, before, [successes EXCEPT ![retry[position + 1].event] = @ + 1],
                 position + 1, committed, "idle", rejected, restarts)
  <1> DEFINE after == [successes EXCEPT ![retry[position + 1].event] = @ + 1]
             crashed == restarts > 0
  <1>1. /\ retry \in Seq(Message) /\ dlq \in Seq(Dead)
        /\ before \subseteq Events /\ successes \in [Events -> Nat]
        /\ rejected \in Nat /\ restarts \in Nat
        /\ Placement(retry, position, committed, stage)
        /\ Untouched(retry, dlq, before, successes)
        /\ InTurn(retry, position, crashed)
        /\ DeadInTurn(retry, dlq, position, crashed)
        /\ restarts = 0 => Bounded(retry, dlq, successes, position, rejected)
    BY DEF Sound
  <1>2. retry[position + 1].event \in before
    BY AtPosition
  <1>3. /\ position \in Nat /\ position + 1 \in Nat /\ Len(retry) \in Nat
        /\ crashed \in BOOLEAN /\ position <= position + 1
    BY <1>1, LenProperties DEF Placement
  <1>4. Placement(retry, position + 1, committed, "idle")
    BY <1>1, <1>3 DEF Placement, ConsumerStages
  <1>5. Untouched(retry, dlq, before, after)
    BY <1>1, <1>2, FreshStays
  <1>6. after \in [Events -> Nat]
    BY <1>1, <1>2
  <1>7. InTurn(retry, position + 1, crashed) /\ DeadInTurn(retry, dlq, position + 1, crashed)
    <2> HIDE DEF crashed
    <2> QED BY <1>1, <1>3, TurnsStay
  <1>8. restarts = 0 => Bounded(retry, dlq, after, position + 1, rejected)
    BY <1>1, <1>3, BoundedHandled
  <1>9. Sound(retry, dlq, before, after, position + 1, committed, "idle", rejected, restarts)
    <2> HIDE DEF after
    <2> QED BY <1>1, <1>4, <1>5, <1>6, <1>7, <1>8 DEF Sound
  <1> QED BY <1>9

(* the message at the position gives way to what it is sent on as *)
LEMMA RescheduledSound ==
    ASSUME NEW retry, NEW dlq, NEW before, NEW successes, NEW position, NEW committed,
           NEW stage, NEW rejected, NEW restarts, position < Len(retry),
           NEW e, e = retry[position + 1].event, NEW k, k = retry[position + 1].retryCount,
           Sound(retry, dlq, before, successes, position, committed, stage, rejected, restarts)
    PROVE  /\ k < MaxAttempts =>
                Sound(Append(retry, Sent(e, k)), dlq, before, successes,
                      position + 1, committed, "idle", rejected, restarts)
           /\ k >= MaxAttempts =>
                Sound(retry, Append(dlq, Buried(e, k)), before, successes,
                      position + 1, committed, "idle", rejected, restarts)
  <1> DEFINE x == Sent(e, k)
             y == Buried(e, k)
             crashed == restarts > 0
  <1>1. /\ retry \in Seq(Message) /\ dlq \in Seq(Dead)
        /\ before \subseteq Events /\ successes \in [Events -> Nat]
        /\ rejected \in Nat /\ restarts \in Nat
        /\ Placement(retry, position, committed, stage)
        /\ Untouched(retry, dlq, before, successes)
        /\ InTurn(retry, position, crashed)
        /\ DeadInTurn(retry, dlq, position, crashed)
        /\ restarts = 0 => Bounded(retry, dlq, successes, position, rejected)
    BY DEF Sound
  <1>2. /\ retry[position + 1] \in Message /\ e \in before
        /\ \A count \in 1..k : Made(retry, e, count, position, crashed)
    BY AtPosition
  <1>3. e \in Events /\ k \in 1..MaxAttempts /\ k \in 0..MaxAttempts
    BY <1>2, RetryAssumption DEF Message
  <1>4. /\ k < MaxAttempts => x \in Message
        /\ x.event = e /\ x.retryCount = k + 1
        /\ y \in Dead /\ y.event = e
    BY <1>3, SentTypes
  <1>5. /\ position \in Nat /\ position + 1 \in Nat /\ Len(retry) \in Nat
        /\ crashed \in BOOLEAN /\ position <= position + 1
    BY <1>1, LenProperties DEF Placement
  <1>6. Placement(retry, position + 1, committed, "idle")
    BY <1>1, <1>5 DEF Placement, ConsumerStages
  <1>7. ASSUME k < MaxAttempts
        PROVE  Sound(Append(retry, x), dlq, before, successes,
                     position + 1, committed, "idle", rejected, restarts)
    <2>1. Append(retry, x) \in Seq(Message) /\ Len(Append(retry, x)) = Len(retry) + 1
      <3> HIDE DEF x
      <3> QED BY <1>1, <1>4, <1>7, Appended
    <2>2. Placement(Append(retry, x), position + 1, committed, "idle")
      <3> HIDE DEF x
      <3> QED BY <1>5, <1>6, <2>1 DEF Placement
    <2>3. Untouched(Append(retry, x), dlq, before, successes)
      <3> HIDE DEF x
      <3> QED BY <1>1, <1>2, <1>3, <1>4, <1>7, FreshStays
    <2>4. /\ InTurn(Append(retry, x), position + 1, crashed)
          /\ DeadInTurn(Append(retry, x), dlq, position + 1, crashed)
      <3>1. \A count \in 1..(x.retryCount - 1) : Made(retry, x.event, count, position, crashed)
        <4>1. x.retryCount - 1 = k
          BY <1>3, <1>4
        <4> HIDE DEF x
        <4> QED BY <1>2, <1>4, <4>1
      <3> HIDE DEF x, crashed
      <3> QED BY <1>1, <1>4, <1>5, <1>7, <3>1, TurnsStay
    <2>5. restarts = 0 => Bounded(Append(retry, x), dlq, successes, position + 1, rejected)
      <3> HIDE DEF x
      <3> QED BY <1>1, <1>4, <1>5, <1>7, BoundedAgain
    <2> HIDE DEF x
    <2> QED BY <1>1, <2>1, <2>2, <2>3, <2>4, <2>5 DEF Sound
  <1>8. ASSUME k >= MaxAttempts
        PROVE  Sound(retry, Append(dlq, y), before, successes,
                     position + 1, committed, "idle", rejected, restarts)
    <2>1. Append(dlq, y) \in Seq(Dead)
      <3> HIDE DEF y
      <3> QED BY <1>1, <1>4, Appended
    <2>2. Untouched(retry, Append(dlq, y), before, successes)
      <3> HIDE DEF y
      <3> QED BY <1>1, <1>2, <1>3, <1>4, FreshStays
    <2>3. InTurn(retry, position + 1, crashed) /\ DeadInTurn(retry, Append(dlq, y), position + 1, crashed)
      <3>1. \A count \in 1..MaxAttempts : Made(retry, y.event, count, position, crashed)
        <4>1. k = MaxAttempts
          BY <1>3, <1>8, RetryAssumption
        <4> HIDE DEF y
        <4> QED BY <1>2, <1>4, <4>1
      <3> HIDE DEF y, crashed
      <3> QED BY <1>1, <1>4, <1>5, <3>1, TurnsStay
    <2>4. restarts = 0 => Bounded(retry, Append(dlq, y), successes, position + 1, rejected)
      <3> HIDE DEF y
      <3> QED BY <1>1, <1>4, <1>5, BoundedDead
    <2> HIDE DEF y
    <2> QED BY <1>1, <1>6, <2>1, <2>2, <2>3, <2>4 DEF Sound
  <1> QED BY <1>7, <1>8

(* A restart goes back to the committed offset, or on to the end of the topic.  *)
LEMMA RestartedSound ==
    ASSUME NEW retry, NEW dlq, NEW before, NEW successes, NEW position, NEW committed,
           NEW stage, NEW rejected, NEW restarts, NEW restarted,
           restarted = IF committed = NoOffset THEN Len(retry) ELSE committed,
           Sound(retry, dlq, before, successes, position, committed, stage, rejected, restarts)
    PROVE  Sound(retry, dlq, before, successes, restarted, committed, "idle", rejected, restarts + 1)
  <1>1. /\ retry \in Seq(Message) /\ dlq \in Seq(Dead) /\ restarts \in Nat
        /\ Placement(retry, position, committed, stage)
        /\ InTurn(retry, position, restarts > 0)
        /\ DeadInTurn(retry, dlq, position, restarts > 0)
    BY DEF Sound
  <1>2. /\ position \in Nat /\ Len(retry) \in Nat
        /\ restarts + 1 \in Nat /\ restarts + 1 > 0 /\ restarts + 1 # 0
    BY <1>1, LenProperties DEF Placement
  <1>3. restarted \in Nat /\ Placement(retry, restarted, committed, "idle")
    BY <1>1, <1>2 DEF Placement, ConsumerStages, NoOffset
  <1>4. InTurn(retry, restarted, restarts + 1 > 0) /\ DeadInTurn(retry, dlq, restarted, restarts + 1 > 0)
    <2> DEFINE crashed == restarts > 0
               crashedLater == restarts + 1 > 0
    <2>1. /\ crashed \in BOOLEAN /\ crashedLater \in BOOLEAN /\ (crashed => crashedLater)
          /\ position <= restarted \/ crashedLater
      BY <1>2
    <2>2. InTurn(retry, position, crashed) /\ DeadInTurn(retry, dlq, position, crashed)
      BY <1>1
    <2> HIDE DEF crashed, crashedLater
    <2>3. InTurn(retry, restarted, crashedLater) /\ DeadInTurn(retry, dlq, restarted, crashedLater)
      BY <1>1, <1>2, <1>3, <2>1, <2>2, TurnsStay
    <2> QED BY <2>3 DEF crashedLater
  <1> QED BY <1>2, <1>3, <1>4 DEF Sound

-----------------------------------------------------------------------------
(* The invariant of the module is the one of the lemmas.                       *)

Logs == [retry : Seq(Message), dlq : Seq(Dead)]

Places ==
    [position : Nat, committed : Nat \cup {NoOffset}, dirty : BOOLEAN, stage : ConsumerStages]

Shape ==
    /\ topics \in Logs
    /\ consumer \in Places
    /\ rejections \in 0..MaxRejections /\ crashes \in 0..MaxCrashes

StateSound ==
    Sound(topics.retry, topics.dlq, failed, handled, consumer.position, consumer.committed,
          consumer.stage, rejections, crashes)

LEMMA PartsSame ==
    ASSUME \A n \in DOMAIN topics.dlq : topics.dlq[n].event \in Events
    PROVE  /\ AttemptsInTurn <=> InTurn(topics.retry, consumer.position, crashes > 0)
           /\ DeadAfterEveryRetry
                <=> DeadInTurn(topics.retry, topics.dlq, consumer.position, crashes > 0)
           /\ OnlyFailed <=> Untouched(topics.retry, topics.dlq, failed, handled)
           /\ AttemptsBounded
                <=> (crashes = 0 =>
                       Bounded(topics.retry, topics.dlq, handled, consumer.position, rejections))
  <1>1. /\ \A e : Deaths(e) = DeathsIn(topics.dlq, e)
        /\ \A e : Ahead(e) = AheadIn(topics.retry, consumer.position, e)
    BY DEF Deaths, DeathsIn, Ahead, AheadIn
  <1>2. \A e, count : UpTo(e, count) = UpToIn(topics.retry, consumer.position, e, count)
    BY DEF UpTo, UpToIn, Retries, Ahead
  <1>3. \A e, count : (\E m \in Retries(e, count) : m <= consumer.position + 1 \/ crashes > 0)
                        <=> Made(topics.retry, e, count, consumer.position, crashes > 0)
    BY DEF Retries, Made
  <1>4. AttemptsInTurn <=> InTurn(topics.retry, consumer.position, crashes > 0)
    BY <1>3 DEF AttemptsInTurn, InTurn
  <1>5. DeadAfterEveryRetry
          <=> DeadInTurn(topics.retry, topics.dlq, consumer.position, crashes > 0)
    <2>1. ASSUME DeadAfterEveryRetry
          PROVE  DeadInTurn(topics.retry, topics.dlq, consumer.position, crashes > 0)
      <3>1. ASSUME NEW n \in DOMAIN topics.dlq, NEW count \in 1..MaxAttempts
            PROVE  Made(topics.retry, topics.dlq[n].event, count, consumer.position, crashes > 0)
        <4>1. n \in Deaths(topics.dlq[n].event)
          BY DEF Deaths
        <4> QED BY <1>3, <2>1, <4>1 DEF DeadAfterEveryRetry
      <3> QED BY <3>1 DEF DeadInTurn
    <2>2. ASSUME DeadInTurn(topics.retry, topics.dlq, consumer.position, crashes > 0)
          PROVE  DeadAfterEveryRetry
      <3>1. ASSUME NEW e \in Events, Deaths(e) # {}, NEW count \in 1..MaxAttempts
            PROVE  \E n \in Retries(e, count) : n <= consumer.position + 1 \/ crashes > 0
        <4>1. PICK n \in DOMAIN topics.dlq : topics.dlq[n].event = e
          BY <3>1 DEF Deaths
        <4> QED BY <1>3, <2>2, <4>1 DEF DeadInTurn
      <3> QED BY <3>1 DEF DeadAfterEveryRetry
    <2> QED BY <2>1, <2>2
  <1>6. OnlyFailed <=> Untouched(topics.retry, topics.dlq, failed, handled)
    BY <1>1 DEF OnlyFailed, Untouched
  <1>7. AttemptsBounded
          <=> (crashes = 0 =>
                 Bounded(topics.retry, topics.dlq, handled, consumer.position, rejections))
    BY <1>1, <1>2 DEF AttemptsBounded, Bounded
  <1> QED BY <1>4, <1>5, <1>6, <1>7

LEMMA InvariantSame == RetryInvariant <=> Shape /\ StateSound
  <1>1. ASSUME RetryInvariant
        PROVE  Shape /\ StateSound
    <2>1. /\ topics \in Logs /\ topics.retry \in Seq(Message) /\ topics.dlq \in Seq(Dead)
          /\ failed \subseteq Events /\ handled \in [Events -> Nat]
          /\ consumer \in [position : 0..Len(topics.retry),
                           committed : 0..Len(topics.retry) \cup {NoOffset},
                           dirty : BOOLEAN, stage : ConsumerStages]
          /\ rejections \in 0..MaxRejections /\ crashes \in 0..MaxCrashes
          /\ MessageUnderway
      BY <1>1 DEF RetryInvariant, RetryTypeOK, Logs, Message, Dead, ConsumerStages
    <2>2. Len(topics.retry) \in Nat /\ \A n \in DOMAIN topics.dlq : topics.dlq[n] \in Dead
      BY <2>1, LenProperties, ElementOfSeq
    <2>3. /\ consumer \in Places
          /\ Placement(topics.retry, consumer.position, consumer.committed, consumer.stage)
          /\ rejections \in Nat /\ crashes \in Nat
      BY <2>1, <2>2, RetryAssumption DEF Placement, MessageUnderway, Places
    <2>4. \A n \in DOMAIN topics.dlq : topics.dlq[n].event \in Events
      BY <2>2 DEF Dead
    <2>5. /\ Untouched(topics.retry, topics.dlq, failed, handled)
          /\ InTurn(topics.retry, consumer.position, crashes > 0)
          /\ DeadInTurn(topics.retry, topics.dlq, consumer.position, crashes > 0)
          /\ crashes = 0 =>
               Bounded(topics.retry, topics.dlq, handled, consumer.position, rejections)
      BY <1>1, <2>4, PartsSame DEF RetryInvariant
    <2> QED BY <2>1, <2>3, <2>5 DEF Shape, StateSound, Sound
  <1>2. ASSUME Shape, StateSound
        PROVE  RetryInvariant
    <2>1. /\ topics \in Logs /\ topics.retry \in Seq(Message) /\ topics.dlq \in Seq(Dead)
          /\ failed \subseteq Events /\ handled \in [Events -> Nat]
          /\ consumer \in Places
          /\ rejections \in 0..MaxRejections /\ crashes \in 0..MaxCrashes
          /\ Placement(topics.retry, consumer.position, consumer.committed, consumer.stage)
      BY <1>2 DEF Shape, StateSound, Sound
    <2>2. Len(topics.retry) \in Nat /\ \A n \in DOMAIN topics.dlq : topics.dlq[n] \in Dead
      BY <2>1, LenProperties, ElementOfSeq
    <2>3. /\ consumer \in [position : 0..Len(topics.retry),
                           committed : 0..Len(topics.retry) \cup {NoOffset},
                           dirty : BOOLEAN, stage : ConsumerStages]
          /\ MessageUnderway
      BY <2>1, <2>2 DEF NoOffset, Placement, MessageUnderway, Places
    <2>4. RetryTypeOK
      BY <2>1, <2>3 DEF RetryTypeOK, Logs, Message, Dead, ConsumerStages
    <2>5. \A n \in DOMAIN topics.dlq : topics.dlq[n].event \in Events
      BY <2>2 DEF Dead
    <2>6. /\ Untouched(topics.retry, topics.dlq, failed, handled)
          /\ InTurn(topics.retry, consumer.position, crashes > 0)
          /\ DeadInTurn(topics.retry, topics.dlq, consumer.position, crashes > 0)
          /\ crashes = 0 =>
               Bounded(topics.retry, topics.dlq, handled, consumer.position, rejections)
      BY <1>2 DEF StateSound, Sound
    <2>7. AttemptsInTurn /\ DeadAfterEveryRetry /\ OnlyFailed /\ AttemptsBounded
      BY <2>5, <2>6, PartsSame
    <2> QED BY <2>3, <2>4, <2>7 DEF RetryInvariant
  <1> QED BY <1>1, <1>2

-----------------------------------------------------------------------------
(* The steps *)

LEMMA RetryReplaced ==
    ASSUME NEW t \in Logs, NEW retry \in Seq(Message)
    PROVE  /\ [t EXCEPT !.retry = retry] \in Logs
           /\ [t EXCEPT !.retry = retry].retry = retry
           /\ [t EXCEPT !.retry = retry].dlq = t.dlq
  BY DEF Logs

LEMMA DLQReplaced ==
    ASSUME NEW t \in Logs, NEW dlq \in Seq(Dead)
    PROVE  /\ [t EXCEPT !.dlq = dlq] \in Logs
           /\ [t EXCEPT !.dlq = dlq].dlq = dlq
           /\ [t EXCEPT !.dlq = dlq].retry = t.retry
  BY DEF Logs

(* what handleFailedEvent sends, and where *)
LEMMA FailedEventSent ==
    ASSUME topics \in Logs, NEW e \in Events, NEW k \in 0..MaxAttempts
    PROVE  /\ HandleFailedEvent(e, k) \in Logs
           /\ k < MaxAttempts =>
                /\ HandleFailedEvent(e, k).retry = Append(topics.retry, Sent(e, k))
                /\ HandleFailedEvent(e, k).dlq = topics.dlq
           /\ k >= MaxAttempts =>
                /\ HandleFailedEvent(e, k).retry = topics.retry
                /\ HandleFailedEvent(e, k).dlq = Append(topics.dlq, Buried(e, k))
  <1>1. /\ k < MaxAttempts => Sent(e, k) \in Message
        /\ Buried(e, k) \in Dead
    BY SentTypes
  <1>2. topics.retry \in Seq(Message) /\ topics.dlq \in Seq(Dead)
    BY DEF Logs
  <1>3. CASE k < MaxAttempts
    <2>1. HandleFailedEvent(e, k) = [topics EXCEPT !.retry = Append(topics.retry, Sent(e, k))]
      BY <1>3, RetryAssumption DEF HandleFailedEvent, ScheduleRetry, Sent
    <2>2. Append(topics.retry, Sent(e, k)) \in Seq(Message)
      BY <1>1, <1>2, <1>3, Appended
    <2>3. /\ HandleFailedEvent(e, k) \in Logs
          /\ HandleFailedEvent(e, k).retry = Append(topics.retry, Sent(e, k))
          /\ HandleFailedEvent(e, k).dlq = topics.dlq
      <3>1. PICK r \in Seq(Message) : r = Append(topics.retry, Sent(e, k))
        BY <2>2
      <3>2. PICK t \in Logs : t = topics
        OBVIOUS
      <3>3. HandleFailedEvent(e, k) = [t EXCEPT !.retry = r]
        BY <2>1, <3>1, <3>2
      <3>4. /\ [t EXCEPT !.retry = r] \in Logs
            /\ [t EXCEPT !.retry = r].retry = r /\ [t EXCEPT !.retry = r].dlq = t.dlq
        BY RetryReplaced
      <3> QED BY <3>1, <3>2, <3>3, <3>4, Zenon
    <2>4. ~(k >= MaxAttempts)
      BY <1>3, RetryAssumption
    <2> QED BY <2>3, <2>4, Zenon
  <1>4. CASE k >= MaxAttempts
    <2>1. HandleFailedEvent(e, k) = [topics EXCEPT !.dlq = Append(topics.dlq, Buried(e, k))]
      BY <1>4, RetryAssumption DEF HandleFailedEvent, SendToDLQ, Buried
    <2>2. Append(topics.dlq, Buried(e, k)) \in Seq(Dead)
      BY <1>1, <1>2, Appended
    <2>3. /\ HandleFailedEvent(e, k) \in Logs
          /\ HandleFailedEvent(e, k).retry = topics.retry
          /\ HandleFailedEvent(e, k).dlq = Append(topics.dlq, Buried(e, k))
      <3>1. PICK d \in Seq(Dead) : d = Append(topics.dlq, Buried(e, k))
        BY <2>2
      <3>2. PICK t \in Logs : t = topics
        OBVIOUS
      <3>3. HandleFailedEvent(e, k) = [t EXCEPT !.dlq = d]
        BY <2>1, <3>1, <3>2
      <3>4. /\ [t EXCEPT !.dlq = d] \in Logs
            /\ [t EXCEPT !.dlq = d].dlq = d /\ [t EXCEPT !.dlq = d].retry = t.retry
        BY DLQReplaced
      <3> QED BY <3>1, <3>2, <3>3, <3>4, Zenon
    <2>4. ~(k < MaxAttempts)
      BY <1>4, RetryAssumption
    <2> QED BY <2>3, <2>4, Zenon
  <1> QED BY <1>3, <1>4, RetryAssumption

LEMMA RescheduledIsFailed ==
    \A message \in Message :
        Rescheduled(message) = HandleFailedEvent(message.event, message.retryCount)
  BY RetryAssumption DEF Rescheduled, HandleFailedEvent, Message

(* where the consumer is after each of its steps *)
LEMMA StageMoves ==
    ASSUME NEW c \in Places, NEW s \in ConsumerStages
    PROVE  LET d == [c EXCEPT !.stage = s]
           IN  /\ d \in Places /\ d.stage = s
               /\ d.position = c.position /\ d.committed = c.committed
  BY DEF Places

LEMMA ConsumerMoves ==
    ASSUME consumer \in Places, Len(topics.retry) \in Nat
    PROVE  /\ Resolved \in Places
           /\ Resolved.position = consumer.position + 1
           /\ Resolved.committed = consumer.committed /\ Resolved.stage = "idle"
           /\ LET c == [consumer EXCEPT !.committed = consumer.position, !.dirty = FALSE]
              IN  /\ c \in Places
                  /\ c.position = consumer.position /\ c.committed = consumer.position
                  /\ c.stage = consumer.stage
           /\ LET c == [consumer EXCEPT !.position = RestartPosition, !.dirty = FALSE,
                                        !.stage = "idle"]
              IN  /\ c \in Places
                  /\ c.position = RestartPosition /\ c.committed = consumer.committed
                  /\ c.stage = "idle"
  <1>1. /\ consumer.position \in Nat /\ consumer.position + 1 \in Nat
        /\ RestartPosition \in Nat
        /\ consumer.stage \in ConsumerStages /\ "idle" \in ConsumerStages
    BY DEF Places, ConsumerStages, RestartPosition
  <1>2. /\ Resolved \in Places
        /\ Resolved.position = consumer.position + 1
        /\ Resolved.committed = consumer.committed /\ Resolved.stage = "idle"
    BY <1>1 DEF Places, Resolved
  <1>3. LET c == [consumer EXCEPT !.committed = consumer.position, !.dirty = FALSE]
        IN  /\ c \in Places
            /\ c.position = consumer.position /\ c.committed = consumer.position
            /\ c.stage = consumer.stage
    BY <1>1 DEF Places
  <1>4. LET c == [consumer EXCEPT !.position = RestartPosition, !.dirty = FALSE,
                                  !.stage = "idle"]
        IN  /\ c \in Places
            /\ c.position = RestartPosition /\ c.committed = consumer.committed
            /\ c.stage = "idle"
    BY <1>1 DEF Places
  <1> QED BY <1>2, <1>3, <1>4

LEMMA SomeFailure ==
    ASSUME Shape, StateSound, NEW e \in Events, e \notin failed,
           failed' = failed \cup {e}, UNCHANGED <<handled, consumer, crashes>>,
           \/ rejections' = rejections /\ topics' = HandleFailedEvent(e, 0)
           \/ Rejection /\ topics' \in {topics, HandleFailedEvent(e, 0)}
    PROVE  Shape' /\ StateSound'
  <1>1. /\ topics \in Logs /\ consumer \in Places
        /\ rejections \in Nat /\ 0 \in 0..MaxAttempts
    BY RetryAssumption DEF Shape
  <1>2. /\ HandleFailedEvent(e, 0) \in Logs
        /\ 0 < MaxAttempts =>
             /\ HandleFailedEvent(e, 0).retry = Append(topics.retry, Sent(e, 0))
             /\ HandleFailedEvent(e, 0).dlq = topics.dlq
        /\ 0 >= MaxAttempts =>
             /\ HandleFailedEvent(e, 0).retry = topics.retry
             /\ HandleFailedEvent(e, 0).dlq = Append(topics.dlq, Buried(e, 0))
    BY <1>1, FailedEventSent
  <1>3. /\ topics' \in Logs
        /\ rejections' \in 0..MaxRejections
        /\ rejections' \in Nat
        /\ rejections' = rejections + 1 \/ rejections' = rejections
        /\ topics' = HandleFailedEvent(e, 0) \/ (topics' = topics /\ rejections' = rejections + 1)
    BY <1>1, <1>2, RetryAssumption DEF Shape, Rejection
  <1>4. Shape'
    BY <1>3 DEF Shape
  <1>5. \A count \in 1..0 :
           Made(topics.retry, e, count, consumer.position, crashes > 0)
    OBVIOUS
  <1>6. consumer.stage \in {consumer.stage, "idle"}
    OBVIOUS
  <1>7. /\ 0 < MaxAttempts =>
             Sound(Append(topics.retry, Sent(e, 0)), topics.dlq, failed \cup {e}, handled,
                   consumer.position, consumer.committed, consumer.stage, rejections', crashes)
        /\ 0 >= MaxAttempts =>
             Sound(topics.retry, Append(topics.dlq, Buried(e, 0)), failed \cup {e}, handled,
                   consumer.position, consumer.committed, consumer.stage, rejections', crashes)
        /\ rejections' = rejections + 1 =>
             Sound(topics.retry, topics.dlq, failed \cup {e}, handled,
                   consumer.position, consumer.committed, consumer.stage, rejections', crashes)
    BY <1>1, <1>3, <1>5, <1>6, SentSound DEF StateSound
  <1>8. 0 < MaxAttempts \/ 0 >= MaxAttempts
    BY RetryAssumption
  <1>9. Sound(topics'.retry, topics'.dlq, failed \cup {e}, handled,
              consumer.position, consumer.committed, consumer.stage, rejections', crashes)
    BY <1>2, <1>3, <1>7, <1>8
  <1> QED BY <1>4, <1>9 DEF StateSound

LEMMA SomeReschedule ==
    ASSUME Shape, StateSound, consumer.stage = "rescheduling"
    PROVE  /\ Reschedule => Shape' /\ StateSound'
           /\ RescheduleRejected => Shape' /\ StateSound'
  <1> DEFINE position == consumer.position
  <1>1. /\ topics \in Logs /\ consumer \in Places
        /\ rejections \in Nat
        /\ Placement(topics.retry, position, consumer.committed, consumer.stage)
        /\ Len(topics.retry) \in Nat
    BY RetryAssumption, LenProperties DEF Shape, StateSound, Sound
  <1>2. position < Len(topics.retry)
    BY <1>1 DEF Placement
  <1>3. PICK e, k : e = RetryMessage.event /\ k = RetryMessage.retryCount
    OBVIOUS
  <1>4. /\ RetryMessage \in Message /\ e \in failed
        /\ \A count \in 1..k : Made(topics.retry, e, count, position, crashes > 0)
    BY <1>2, <1>3, AtPosition DEF StateSound, RetryMessage
  <1>5. e \in Events /\ k \in 0..MaxAttempts /\ Rescheduled(RetryMessage) = HandleFailedEvent(e, k)
    BY <1>3, <1>4, RescheduledIsFailed, RetryAssumption DEF Message
  <1>6. /\ HandleFailedEvent(e, k) \in Logs
        /\ k < MaxAttempts =>
             /\ HandleFailedEvent(e, k).retry = Append(topics.retry, Sent(e, k))
             /\ HandleFailedEvent(e, k).dlq = topics.dlq
        /\ k >= MaxAttempts =>
             /\ HandleFailedEvent(e, k).retry = topics.retry
             /\ HandleFailedEvent(e, k).dlq = Append(topics.dlq, Buried(e, k))
    BY <1>1, <1>5, FailedEventSent
  <1>7. k < MaxAttempts \/ k >= MaxAttempts
    BY <1>5, RetryAssumption
  <1>8. ASSUME Reschedule
        PROVE  Shape' /\ StateSound'
    <2>1. /\ topics' = HandleFailedEvent(e, k) /\ consumer' = Resolved
          /\ UNCHANGED <<failed, handled, rejections, crashes>>
      BY <1>5, <1>8 DEF Reschedule
    <2>2. /\ consumer' \in Places
          /\ consumer'.position = position + 1
          /\ consumer'.committed = consumer.committed /\ consumer'.stage = "idle"
      BY <1>1, <2>1, ConsumerMoves
    <2>3. Shape'
      BY <1>6, <2>1, <2>2 DEF Shape
    <2>4. /\ k < MaxAttempts =>
               Sound(Append(topics.retry, Sent(e, k)), topics.dlq, failed, handled,
                     position + 1, consumer.committed, "idle", rejections, crashes)
          /\ k >= MaxAttempts =>
               Sound(topics.retry, Append(topics.dlq, Buried(e, k)), failed, handled,
                     position + 1, consumer.committed, "idle", rejections, crashes)
      BY <1>2, <1>3, RescheduledSound DEF StateSound, RetryMessage
    <2>5. Sound(topics'.retry, topics'.dlq, failed, handled,
                position + 1, consumer.committed, "idle", rejections, crashes)
      BY <1>6, <1>7, <2>1, <2>4
    <2> QED BY <2>1, <2>2, <2>3, <2>5 DEF StateSound
  <1>9. ASSUME RescheduleRejected
        PROVE  Shape' /\ StateSound'
    <2>1. /\ topics' \in {topics, HandleFailedEvent(e, k)}
          /\ consumer' = [consumer EXCEPT !.stage = "idle"]
          /\ rejections' = rejections + 1 /\ rejections < MaxRejections
          /\ UNCHANGED <<failed, handled, crashes>>
      BY <1>5, <1>9 DEF RescheduleRejected, Rejection
    <2>2. /\ consumer' \in Places
          /\ consumer'.position = position
          /\ consumer'.committed = consumer.committed /\ consumer'.stage = "idle"
      BY <1>1, <2>1, StageMoves DEF ConsumerStages
    <2>3. Shape'
      <3>1. rejections' \in 0..MaxRejections
        BY <1>1, <2>1, RetryAssumption
      <3> QED BY <1>1, <1>6, <2>1, <2>2, <3>1 DEF Shape
    <2>4. failed \cup {e} = failed /\ rejections' \in Nat
      BY <1>1, <1>4, <2>1
    <2>5. /\ k < MaxAttempts =>
               Sound(Append(topics.retry, Sent(e, k)), topics.dlq, failed, handled,
                     position, consumer.committed, "idle", rejections', crashes)
          /\ k >= MaxAttempts =>
               Sound(topics.retry, Append(topics.dlq, Buried(e, k)), failed, handled,
                     position, consumer.committed, "idle", rejections', crashes)
          /\ Sound(topics.retry, topics.dlq, failed, handled,
                   position, consumer.committed, "idle", rejections', crashes)
      <3>1. "idle" \in {consumer.stage, "idle"}
        OBVIOUS
      <3>2. Sound(topics.retry, topics.dlq, failed, handled, position, consumer.committed,
                  consumer.stage, rejections, crashes)
        BY DEF StateSound
      <3>3. /\ k < MaxAttempts =>
                 Sound(Append(topics.retry, Sent(e, k)), topics.dlq, failed \cup {e}, handled,
                       position, consumer.committed, "idle", rejections', crashes)
            /\ k >= MaxAttempts =>
                 Sound(topics.retry, Append(topics.dlq, Buried(e, k)), failed \cup {e}, handled,
                       position, consumer.committed, "idle", rejections', crashes)
            /\ rejections' = rejections + 1 =>
                 Sound(topics.retry, topics.dlq, failed \cup {e}, handled,
                       position, consumer.committed, "idle", rejections', crashes)
        BY <1>4, <1>5, <2>1, <2>4, <3>1, <3>2, SentSound
      <3> QED BY <2>1, <2>4, <3>3
    <2>6. Sound(topics'.retry, topics'.dlq, failed, handled,
                position, consumer.committed, "idle", rejections', crashes)
      BY <1>6, <1>7, <2>1, <2>5
    <2> QED BY <2>1, <2>2, <2>3, <2>6 DEF StateSound
  <1> QED BY <1>8, <1>9

LEMMA SomeMove ==
    ASSUME Shape, StateSound
    PROVE  /\ BeginRetry \/ HandlerFails => Shape' /\ StateSound'
           /\ HandlerSucceeds => Shape' /\ StateSound'
           /\ Commit => Shape' /\ StateSound'
           /\ Crash => Shape' /\ StateSound'
  <1>1. /\ consumer \in Places /\ topics \in Logs
        /\ rejections \in 0..MaxRejections /\ crashes \in 0..MaxCrashes
        /\ Placement(topics.retry, consumer.position, consumer.committed, consumer.stage)
        /\ Len(topics.retry) \in Nat
    BY LenProperties DEF Shape, StateSound, Sound
  <1>2. ASSUME BeginRetry \/ HandlerFails
        PROVE  Shape' /\ StateSound'
    <2>1. PICK s \in ConsumerStages : /\ consumer' = [consumer EXCEPT !.stage = s]
                              /\ consumer.position < Len(topics.retry)
      BY <1>1, <1>2 DEF BeginRetry, HandlerFails, Placement, ConsumerStages
    <2>2. UNCHANGED <<topics, failed, handled, rejections, crashes>>
      BY <1>2 DEF BeginRetry, HandlerFails
    <2>3. /\ consumer' \in Places /\ consumer'.stage = s
          /\ consumer'.position = consumer.position /\ consumer'.committed = consumer.committed
      BY <1>1, <2>1, StageMoves
    <2>4. Placement(topics.retry, consumer.position, consumer.committed, s)
      BY <1>1, <2>1 DEF Placement
    <2>5. Sound(topics.retry, topics.dlq, failed, handled, consumer.position,
                consumer.committed, s, rejections, crashes)
      BY <2>4 DEF StateSound, Sound
    <2> QED BY <1>1, <2>2, <2>3, <2>5 DEF Shape, StateSound
  <1>3. ASSUME HandlerSucceeds
        PROVE  Shape' /\ StateSound'
    <2>1. /\ consumer.position < Len(topics.retry) /\ consumer' = Resolved
          /\ handled' = [handled EXCEPT ![topics.retry[consumer.position + 1].event] = @ + 1]
          /\ UNCHANGED <<topics, failed, rejections, crashes>>
      BY <1>1, <1>3 DEF HandlerSucceeds, Placement, RetryMessage
    <2>2. /\ consumer' \in Places /\ consumer'.stage = "idle"
          /\ consumer'.position = consumer.position + 1
          /\ consumer'.committed = consumer.committed
      BY <1>1, <2>1, ConsumerMoves
    <2>3. Sound(topics.retry, topics.dlq, failed, handled', consumer.position + 1,
                consumer.committed, "idle", rejections, crashes)
      BY <2>1, HandledSound DEF StateSound
    <2> QED BY <1>1, <2>1, <2>2, <2>3 DEF Shape, StateSound
  <1>4. ASSUME Commit
        PROVE  Shape' /\ StateSound'
    <2>1. /\ consumer' = [consumer EXCEPT !.committed = consumer.position, !.dirty = FALSE]
          /\ UNCHANGED <<topics, failed, handled, rejections, crashes>>
      BY <1>4 DEF Commit
    <2>2. /\ consumer' \in Places /\ consumer'.stage = consumer.stage
          /\ consumer'.position = consumer.position
          /\ consumer'.committed = consumer.position
      BY <1>1, <2>1, ConsumerMoves
    <2>3. Placement(topics.retry, consumer.position, consumer.position, consumer.stage)
      BY <1>1 DEF Placement
    <2>4. Sound(topics.retry, topics.dlq, failed, handled, consumer.position,
                consumer.position, consumer.stage, rejections, crashes)
      BY <2>3 DEF StateSound, Sound
    <2> QED BY <1>1, <2>1, <2>2, <2>4 DEF Shape, StateSound
  <1>5. ASSUME Crash
        PROVE  Shape' /\ StateSound'
    <2>1. /\ consumer' = [consumer EXCEPT !.position = RestartPosition, !.dirty = FALSE,
                                            !.stage = "idle"]
          /\ crashes' = crashes + 1 /\ crashes < MaxCrashes
          /\ UNCHANGED <<topics, failed, handled, rejections>>
      BY <1>5 DEF Crash
    <2>2. /\ consumer' \in Places /\ consumer'.stage = "idle"
          /\ consumer'.position = RestartPosition
          /\ consumer'.committed = consumer.committed
      BY <1>1, <2>1, ConsumerMoves
    <2>3. crashes' \in 0..MaxCrashes
      BY <1>1, <2>1, RetryAssumption
    <2>4. Sound(topics.retry, topics.dlq, failed, handled, RestartPosition,
                consumer.committed, "idle", rejections, crashes + 1)
      BY RestartedSound DEF StateSound, RestartPosition
    <2> QED BY <1>1, <2>1, <2>2, <2>3, <2>4 DEF Shape, StateSound
  <1> QED BY <1>2, <1>3, <1>4, <1>5

LEMMA InitSound == RetryInit => Shape /\ StateSound
  <1> SUFFICES ASSUME RetryInit
               PROVE  Shape /\ StateSound
    OBVIOUS
  <1>1. /\ <<>> \in Seq(Message) /\ <<>> \in Seq(Dead)
        /\ Len(<<>>) = 0 /\ DOMAIN <<>> = {}
    OBVIOUS
  <1>2. topics \in Logs /\ topics.retry = <<>> /\ topics.dlq = <<>>
    BY <1>1 DEF RetryInit, Logs
  <1>3. /\ consumer \in Places /\ consumer.position = 0 /\ consumer.stage = "idle"
        /\ consumer.committed \in {NoOffset, 0}
    BY DEF RetryInit, Places, ConsumerStages
  <1>4. Shape
    BY <1>2, <1>3, RetryAssumption DEF RetryInit, Shape
  <1>5. /\ Placement(<<>>, 0, consumer.committed, "idle")
        /\ InTurn(<<>>, 0, 0 > 0) /\ DeadInTurn(<<>>, <<>>, 0, 0 > 0)
    BY <1>1, <1>3 DEF NoOffset, Placement, InTurn, DeadInTurn, ConsumerStages
  <1>6. /\ failed \in SUBSET Events /\ handled \in [Events -> Nat]
        /\ \A e \in Events : handled[e] = 0
        /\ rejections = 0 /\ crashes = 0
    BY DEF RetryInit
  <1>7. \A e : /\ DeathsIn(<<>>, e) = {} /\ AheadIn(<<>>, 0, e) = {}
               /\ \A count : UpToIn(<<>>, 0, e, count) = {}
    BY <1>1 DEF DeathsIn, AheadIn, UpToIn
  <1>8. Untouched(<<>>, <<>>, failed, handled)
    BY <1>1, <1>6, <1>7 DEF Untouched
  <1>9. Bounded(<<>>, <<>>, handled, 0, 0)
    <2>1. Cardinality({}) = 0
      BY FS_EmptySet
    <2>2. ASSUME NEW e \in Events
          PROVE  /\ \A count \in 1..MaxAttempts : Cardinality(UpToIn(<<>>, 0, e, count)) = 0
                 /\ handled[e] = 0 /\ Cardinality(DeathsIn(<<>>, e)) = 0
                 /\ Cardinality(AheadIn(<<>>, 0, e)) = 0
      BY <1>6, <1>7, <2>1
    <2>3. 0 <= 1 + 0 /\ 0 + 0 + 0 <= 1 + 0
      OBVIOUS
    <2> QED BY <2>2, <2>3, Zenon DEF Bounded
  <1>10. Sound(<<>>, <<>>, failed, handled, 0, consumer.committed, "idle", 0, 0)
    BY <1>1, <1>5, <1>6, <1>8, <1>9 DEF Sound
  <1> QED BY <1>2, <1>3, <1>4, <1>6, <1>10 DEF StateSound

LEMMA StepSound == Shape /\ StateSound /\ [RetryNext]_retryVars => Shape' /\ StateSound'
  <1> SUFFICES ASSUME Shape, StateSound, [RetryNext]_retryVars
               PROVE  Shape' /\ StateSound'
    OBVIOUS
  <1>1. CASE UNCHANGED retryVars
    BY <1>1 DEF retryVars, Shape, StateSound
  <1>2. ASSUME NEW e \in Events, FirstFailure(e) \/ FirstFailureUnsent(e)
        PROVE  Shape' /\ StateSound'
    BY <1>2, SomeFailure DEF FirstFailure, FirstFailureUnsent, Rejection
  <1>3. CASE Reschedule \/ RescheduleRejected
    BY <1>3, SomeReschedule DEF Reschedule, RescheduleRejected
  <1>4. CASE BeginRetry \/ HandlerFails \/ HandlerSucceeds \/ Commit \/ Crash
    BY <1>4, SomeMove
  <1> QED BY <1>1, <1>2, <1>3, <1>4 DEF RetryNext, ProcessRetryEvent

-----------------------------------------------------------------------------
(* Theorems *)

(* An event is in the dead letter topic only after every attempt it was        *)
(* entitled to went over the retry topic, whatever was redelivered, and no     *)
(* message counts more than MaxAttempts (handleFailedEvent and the catch block *)
(* of processRetryEvent), with the invariant that this rests on.               *)
THEOREM RetryInvariantHolds == RetrySpec => []RetryInvariant
  <1>2. Shape /\ StateSound /\ [RetryNext]_retryVars => (Shape /\ StateSound)'
    BY StepSound
  <1>3. RetryInit => Shape /\ StateSound
    BY InitSound
  <1>4. Shape /\ StateSound => RetryInvariant
    BY InvariantSame
  <1> QED BY <1>2, <1>3, <1>4, PTL DEF RetrySpec

(* Without a restart an attempt is on the topic at most once more than there   *)
(* were rejected sends, and so often does an event end, handled or dead        *)
(* (scheduleRetry, sendToDLQ and the redelivery after their errors).           *)
THEOREM AttemptsBoundedBySends == RetrySpec => []AttemptsNotMultiplied
  <1>1. Shape /\ StateSound => AttemptsNotMultiplied
    <2> SUFFICES ASSUME Shape, StateSound, crashes = 0, NEW e \in Events
                 PROVE  /\ \A count \in 1..MaxAttempts : Cardinality(Retries(e, count)) <= 1 + rejections
                        /\ handled[e] + Cardinality(Deaths(e)) <= 1 + rejections
      BY DEF AttemptsNotMultiplied
    <2>1. /\ topics.retry \in Seq(Message) /\ topics.dlq \in Seq(Dead)
          /\ handled \in [Events -> Nat] /\ rejections \in Nat
      BY DEF StateSound, Sound
    <2>2. /\ \A count \in 1..MaxAttempts : Cardinality(UpTo(e, count)) <= 1 + rejections
          /\ handled[e] + Cardinality(Deaths(e)) + Cardinality(Ahead(e)) <= 1 + rejections
      BY InvariantSame DEF RetryInvariant, AttemptsBounded
    <2>3. ASSUME NEW count \in 1..MaxAttempts
          PROVE  Cardinality(Retries(e, count)) <= 1 + rejections
      <3>1. UpTo(e, count) \subseteq DOMAIN topics.retry /\ Retries(e, count) \subseteq UpTo(e, count)
        BY DEF UpTo, Retries, Ahead
      <3>2. IsFiniteSet(UpTo(e, count)) /\ Cardinality(UpTo(e, count)) \in Nat
        BY <2>1, <3>1, IndexFinite
      <3>3. /\ Cardinality(Retries(e, count)) \in Nat
            /\ Cardinality(Retries(e, count)) <= Cardinality(UpTo(e, count))
        BY <3>1, <3>2, NoMore
      <3> QED BY <2>1, <2>2, <3>2, <3>3
    <2>4. handled[e] + Cardinality(Deaths(e)) <= 1 + rejections
      <3>1. Deaths(e) \subseteq DOMAIN topics.dlq /\ Ahead(e) \subseteq DOMAIN topics.retry
        BY DEF Deaths, Ahead
      <3>2. Cardinality(Deaths(e)) \in Nat /\ Cardinality(Ahead(e)) \in Nat /\ handled[e] \in Nat
        BY <2>1, <3>1, IndexFinite
      <3> QED BY <2>1, <2>2, <3>2
    <2> QED BY <2>3, <2>4
  <1>2. Shape /\ StateSound /\ [RetryNext]_retryVars => (Shape /\ StateSound)'
    BY StepSound
  <1>3. RetryInit => Shape /\ StateSound
    BY InitSound
  <1> QED BY <1>1, <1>2, <1>3, PTL DEF RetrySpec

-----------------------------------------------------------------------------
(* The delays. What holds of 0, and of n + 1 with n, holds of every number;    *)
(* that the powers of two are defined, and grow, follows from it.              *)

Less == {pair \in Nat \X Nat : pair[1] < pair[2]}

LEMMA NumbersReached ==
    ASSUME NEW P \in SUBSET Nat, 0 \in P, \A n \in P : n + 1 \in P
    PROVE  \A n \in Nat : n \in P
  <1> SUFFICES ASSUME NEW k \in Nat \ P
               PROVE  FALSE
    OBVIOUS
  <1>1. IsWellFoundedOn(Less, Nat)
    <2>1. Less = OpToRel(<, Nat)
      BY Zenon DEF OpToRel, Less
    <2> QED BY <2>1, NatLessThanWellFounded, Zenon
  <1>2. Nat \ P \subseteq Nat /\ Nat \ P # {}
    OBVIOUS
  <1>3. PICK x \in Nat \ P : \A y \in Nat \ P : ~(<<y, x>> \in Less)
    BY <1>1, <1>2, WFMin, Zenon
  <1>4. x \in Nat /\ x - 1 \in P
    <2>1. x \in Nat /\ x # 0
      BY <1>3
    <2>2. x - 1 \in Nat /\ <<x - 1, x>> \in Less
      BY <2>1 DEF Less
    <2> QED BY <1>3, <2>1, <2>2
  <1> QED BY <1>3, <1>4

(* f holds the powers of two up to n.                                          *)
Doubles(f, n) ==
    /\ f \in [0..n -> Nat] /\ f[0] = 1
    /\ \A k \in 0..(n - 1) : f[k + 1] = 2 * f[k]

LEMMA DoublesExists == \A n \in Nat : \E f : Doubles(f, n)
  <1> DEFINE P == {n \in Nat : \E f : Doubles(f, n)}
  <1>1. 0 \in P
    <2> DEFINE f == [k \in 0..0 |-> 1]
    <2>1. f \in [0..0 -> Nat] /\ f[0] = 1 /\ 0..(0 - 1) = {}
      OBVIOUS
    <2> QED BY <2>1, Zenon DEF Doubles
  <1>2. ASSUME NEW n \in P
        PROVE  n + 1 \in P
    <2>1. n \in Nat /\ n + 1 \in Nat /\ \E f : Doubles(f, n)
      OBVIOUS
    <2>2. PICK f : Doubles(f, n)
      BY <2>1
    <2> DEFINE g == [k \in 0..(n + 1) |-> IF k = n + 1 THEN 2 * f[n] ELSE f[k]]
    <2>3. \A k \in 0..n : f[k] \in Nat
      BY <2>2 DEF Doubles
    <2>4. g \in [0..(n + 1) -> Nat]
      BY <2>1, <2>3
    <2>5. g[0] = 1
      BY <2>1, <2>2 DEF Doubles
    <2>6. ASSUME NEW k \in 0..(n + 1 - 1)
          PROVE  g[k + 1] = 2 * g[k]
      <3>1. k \in 0..n /\ g[k] = f[k]
        BY <2>1
      <3>2. CASE k = n
        BY <2>1, <3>1, <3>2
      <3>3. CASE k # n
        <4>1. k \in 0..(n - 1) /\ g[k + 1] = f[k + 1]
          BY <2>1, <3>1, <3>3
        <4> QED BY <2>2, <3>1, <4>1 DEF Doubles
      <3> QED BY <3>2, <3>3
    <2>h. HIDE DEF g
    <2>7. Doubles(g, n + 1)
      BY <2>4, <2>5, <2>6 DEF Doubles
    <2> QED BY <2>1, <2>7
  <1>h. HIDE DEF P
  <1>3. \A n \in Nat : n \in P
    <2>1. P \in SUBSET Nat
      BY DEF P
    <2> QED BY <1>1, <1>2, <2>1, NumbersReached
  <1> QED BY <1>3 DEF P

LEMMA DoublesAgree ==
    ASSUME NEW m \in Nat, NEW n \in Nat, NEW f, NEW g, Doubles(f, m), Doubles(g, n)
    PROVE  \A k \in Nat : k <= m /\ k <= n => f[k] = g[k]
  <1> DEFINE P == {k \in Nat : k <= m /\ k <= n => f[k] = g[k]}
  <1>1. 0 \in P
    BY DEF Doubles
  <1>2. ASSUME NEW k \in P
        PROVE  k + 1 \in P
    <2>1. k + 1 <= m /\ k + 1 <= n => k \in 0..(m - 1) /\ k \in 0..(n - 1) /\ f[k] = g[k]
      OBVIOUS
    <2> QED BY <2>1 DEF Doubles
  <1>3. P \in SUBSET Nat
    OBVIOUS
  <1>h. HIDE DEF P
  <1>4. \A k \in Nat : k \in P
    BY <1>1, <1>2, <1>3, NumbersReached
  <1> QED BY <1>4 DEF P

LEMMA PowersDefined ==
    /\ twoTo[0] = 1
    /\ \A n \in Nat : twoTo[n] \in Nat /\ twoTo[n + 1] = 2 * twoTo[n]
  <1> DEFINE Upto(n) == CHOOSE f : Doubles(f, n)
             powers == [n \in Nat |-> Upto(n)[n]]
  <1>1. \A n \in Nat : Doubles(Upto(n), n)
    BY DoublesExists
  <1>h. HIDE DEF Upto
  <1>2. powers[0] = 1
    BY <1>1 DEF Doubles
  <1>3. ASSUME NEW n \in Nat
        PROVE  powers[n] \in Nat /\ powers[n + 1] = 2 * powers[n]
    <2>1. Doubles(Upto(n), n) /\ Doubles(Upto(n + 1), n + 1) /\ n + 1 \in Nat
      BY <1>1
    <2>2. Upto(n)[n] = Upto(n + 1)[n]
      BY <2>1, DoublesAgree
    <2>3. Upto(n + 1)[n + 1] = 2 * Upto(n + 1)[n]
      BY <2>1 DEF Doubles
    <2>4. Upto(n)[n] \in Nat
      BY <2>1 DEF Doubles
    <2> QED BY <2>1, <2>2, <2>3, <2>4
  <1>4. powers = [n \in Nat |-> IF n = 0 THEN 1 ELSE 2 * powers[n - 1]]
    <2>1. ASSUME NEW n \in Nat
          PROVE  powers[n] = IF n = 0 THEN 1 ELSE 2 * powers[n - 1]
      <3>1. CASE n = 0
        BY <1>2, <3>1
      <3>2. CASE n # 0
        <4>1. n - 1 \in Nat /\ (n - 1) + 1 = n
          BY <3>2
        <4> QED BY <1>3, <3>2, <4>1
      <3> QED BY <3>1, <3>2
    <2>2. powers = [n \in Nat |-> powers[n]]
      OBVIOUS
    <2>h. HIDE DEF powers
    <2> QED BY <2>1, <2>2
  <1>h2. HIDE DEF powers
  <1>5. twoTo = [n \in Nat |-> IF n = 0 THEN 1 ELSE 2 * twoTo[n - 1]]
    BY <1>4 DEF twoTo
  <1> DEFINE P == {n \in Nat : twoTo[n] \in Nat}
  <1>6. twoTo[0] = 1
    BY <1>5
  <1>7. ASSUME NEW n \in Nat
        PROVE  twoTo[n + 1] = 2 * twoTo[n]
    <2>1. n + 1 \in Nat /\ n + 1 # 0 /\ (n + 1) - 1 = n
      OBVIOUS
    <2> QED BY <1>5, <2>1
  <1>8. P \in SUBSET Nat /\ 0 \in P /\ \A n \in P : n + 1 \in P
    BY <1>6, <1>7
  <1>9. \A n \in Nat : n \in P
    BY <1>8, NumbersReached
  <1> QED BY <1>6, <1>7, <1>9

LEMMA PowersGrow ==
    ASSUME NEW m \in Nat, NEW n \in Nat, m < n
    PROVE  2 * twoTo[m] <= twoTo[n]
  <1> DEFINE P == {k \in Nat : 2 * twoTo[m] <= twoTo[m + 1 + k]}
  <1>1. \A k \in Nat : twoTo[k] \in Nat /\ twoTo[k + 1] = 2 * twoTo[k]
    BY PowersDefined
  <1>2. P \in SUBSET Nat /\ 0 \in P
    BY <1>1
  <1>3. ASSUME NEW k \in P
        PROVE  k + 1 \in P
    <2>1. k \in Nat /\ m + 1 + k \in Nat /\ (m + 1 + k) + 1 = m + 1 + (k + 1)
      OBVIOUS
    <2>2. twoTo[m + 1 + (k + 1)] = 2 * twoTo[m + 1 + k] /\ twoTo[m + 1 + k] \in Nat
      BY <1>1, <2>1
    <2>3. 2 * twoTo[m] <= twoTo[m + 1 + k] /\ twoTo[m] \in Nat
      BY <1>1
    <2> QED BY <2>1, <2>2, <2>3
  <1>h. HIDE DEF P
  <1>4. \A k \in Nat : k \in P
    BY <1>2, <1>3, NumbersReached
  <1>5. n - m - 1 \in Nat /\ m + 1 + (n - m - 1) = n
    OBVIOUS
  <1> QED BY <1>4, <1>5 DEF P

LEMMA ProductIsNat == \A a, b \in Nat : a * b \in Nat
  OBVIOUS

LEMMA ProductsGrow ==
    ASSUME NEW a \in Nat, NEW b \in Nat, NEW c \in Nat, 2 * b <= c
    PROVE  2 * (a * b) <= a * c
  <1>1. PICK d \in Nat : c = 2 * b + d
    <2>1. c - 2 * b \in Nat /\ c = 2 * b + (c - 2 * b)
      OBVIOUS
    <2> QED BY <2>1
  <1>2. a * (2 * b + d) = 2 * (a * b) + a * d
    OBVIOUS
  <1>3. a * d \in Nat /\ a * b \in Nat
    BY ProductIsNat
  <1> QED BY <1>1, <1>2, <1>3

(* Twice as long a delay is no shorter, whatever the jitter and the cap do.    *)
LEMMA DelaysGrow ==
    ASSUME NEW m \in Nat, NEW n \in Nat, m < n,
           NEW earlier \in calculateDelay(m), NEW later \in calculateDelay(n)
    PROVE  earlier <= later
  <1>1. BaseDelay \in Nat /\ MaxDelay \in Nat
    BY RetryAssumption
  <1>2. PICK x \in Nat : x = BaseDelay * twoTo[m]
    BY <1>1, PowersDefined, ProductIsNat
  <1>3. PICK y \in Nat : y = BaseDelay * twoTo[n]
    BY <1>1, PowersDefined, ProductIsNat
  <1>4. 2 * x <= y
    <2>1. twoTo[m] \in Nat /\ twoTo[n] \in Nat /\ 2 * twoTo[m] <= twoTo[n]
      BY PowersDefined, PowersGrow
    <2> QED BY <1>1, <1>2, <1>3, <2>1, ProductsGrow
  <1>5. PICK i \in {0, 10} : earlier = Min2((x * (100 + i)) \div 100, MaxDelay)
    BY <1>2 DEF calculateDelay
  <1>6. PICK j \in {0, 10} : later = Min2((y * (100 + j)) \div 100, MaxDelay)
    BY <1>3 DEF calculateDelay
  <1>7. (x * (100 + i)) \div 100 <= (y * (100 + j)) \div 100
    <2>1. x * (100 + i) <= y * (100 + j) /\ x * (100 + i) \in Nat /\ y * (100 + j) \in Nat
      BY <1>4, <1>5, <1>6
    <2> QED BY <2>1
  <1>8. (x * (100 + i)) \div 100 \in Int /\ (y * (100 + j)) \div 100 \in Int
    BY <1>5, <1>6
  <1> QED BY <1>1, <1>5, <1>6, <1>7, <1>8 DEF Min2

(* A later attempt of any event is never due after a shorter delay than an     *)
(* earlier one of any: the delay doubles, the jitter adds a tenth at most, and *)
(* the cap cuts both (calculateDelay).                                         *)
THEOREM BackoffNeverShrinks == RetrySpec => []BackoffGrows
  <1>1. Shape /\ StateSound => BackoffGrows
    <2> SUFFICES ASSUME Shape, StateSound,
                        NEW m \in DOMAIN topics.retry, NEW n \in DOMAIN topics.retry,
                        topics.retry[m].retryCount < topics.retry[n].retryCount,
                        NEW earlier \in calculateDelay(topics.retry[m].retryCount - 1),
                        NEW later \in calculateDelay(topics.retry[n].retryCount - 1)
                 PROVE  earlier <= later
      BY DEF BackoffGrows
    <2>1. topics.retry \in Seq(Message)
      BY DEF StateSound, Sound
    <2>2. topics.retry[m] \in Message /\ topics.retry[n] \in Message
      BY <2>1, ElementOfSeq, LenProperties
    <2>3. topics.retry[m].retryCount - 1 \in Nat /\ topics.retry[n].retryCount - 1 \in Nat
      BY <2>2, RetryAssumption DEF Message
    <2>4. topics.retry[m].retryCount - 1 < topics.retry[n].retryCount - 1
      BY <2>2, RetryAssumption DEF Message
    <2> QED BY <2>3, <2>4, DelaysGrow
  <1>2. Shape /\ StateSound /\ [RetryNext]_retryVars => (Shape /\ StateSound)'
    BY StepSound
  <1>3. RetryInit => Shape /\ StateSound
    BY InitSound
  <1> QED BY <1>1, <1>2, <1>3, PTL DEF RetrySpec

-----------------------------------------------------------------------------
(* DASHBOARD, for every set of orders, instances and services and every bound  *)
(* on requests and faults. The invariant falls apart into what it says of the  *)
(* three pages, which share only the orders, the faults and the processes;     *)
(* each page has a lemma for every action that touches it, and one for the     *)
(* actions that do not.                                                        *)

Kinds == {"none", "created", "error"}

Fetch == [reply : Answers \cup {NoReply, Failure}, overlapped : BOOLEAN]

Check == [stage : Stages, details : SUBSET Services]

-----------------------------------------------------------------------------
(* The invariant by pages *)

CommonState ==
    /\ placed \subseteq Orders
    /\ announced \in [Orders -> SUBSET Outcomes]
    /\ seeds \in 0..Seeds
    /\ faults \in [FaultKinds -> Nat]
    /\ page \in {"home", "order", "orders"}

OrderState ==
    /\ form \in [loading : BOOLEAN, orderId : Orders \cup {NoOrder}, error : BOOLEAN]
    /\ requests \subseteq Requests
    /\ tries \subseteq Orders /\ IsFiniteSet(tries)
    /\ CreatedWasPlaced /\ OneRequestAtATime /\ UnseenTookFault

ListState ==
    /\ settled \in [Orders -> SUBSET Outcomes]
    /\ entries \in [Instances -> [Orders -> Statuses]]
    /\ list \in [orders : [Orders -> Statuses], from : Instances \cup {Nobody}, error : BOOLEAN]
    /\ fetches \in Seq(Fetch) /\ Len(fetches) <= MaxFetches
    /\ StatusesJustified /\ DecisionsKept

HomeState ==
    /\ up \subseteq Processes
    /\ health \in [Services -> {"unknown", "up", "down"}]
    /\ checks \in Seq(Check) /\ Len(checks) <= MaxChecks
    /\ ChecksTruthful

LEMMA InvariantByPages ==
    PageInvariant <=> CommonState /\ OrderState /\ ListState /\ HomeState
  BY DEF PageInvariant, TypeOK, OutcomeTypeOK, CommonState, OrderState, ListState, HomeState,
         Fetch, Check

LEMMA InvariantByPagesNext ==
    CommonState' /\ OrderState' /\ ListState' /\ HomeState' => PageInvariant'
  BY InvariantByPages, PTL

-----------------------------------------------------------------------------
(* Faults only grow in number. *)

FaultsGrow ==
    /\ faults' \in [FaultKinds -> Nat]
    /\ \A kind \in FaultKinds : faults[kind] <= faults'[kind]

LEMMA FaultFacts ==
    ASSUME CommonState, NEW kind \in FaultKinds, Fault(kind)
    PROVE  /\ FaultsGrow /\ faults'[kind] = faults[kind] + 1
           /\ \A other \in FaultKinds \ {kind} : faults'[other] = faults[other]
  <1>1. faults \in [FaultKinds -> Nat] /\ faults' = [faults EXCEPT ![kind] = @ + 1]
    BY DEF CommonState, Fault
  <1> QED BY <1>1 DEF FaultsGrow

LEMMA NoFaultFacts ==
    ASSUME CommonState, UNCHANGED faults
    PROVE  FaultsGrow
  <1>1. faults \in [FaultKinds -> Nat] /\ faults' = faults
    BY DEF CommonState
  <1> QED BY <1>1 DEF FaultsGrow

-----------------------------------------------------------------------------
(* Sequences of requests: what their updates leave in them *)

(* The sequence rest has the elements of s except the one at n.                *)
Without(S, s, n, rest) ==
    /\ rest \in Seq(S) /\ Len(rest) = Len(s) - 1
    /\ \A k \in DOMAIN rest : \E m \in DOMAIN s : m # n /\ rest[k] = s[m]

LEMMA RemoveAtFacts ==
    ASSUME NEW S, NEW s \in Seq(S), NEW n \in DOMAIN s, NEW rest, rest = RemoveAt(s, n)
    PROVE  Without(S, s, n, rest)
  <1>1. Len(s) \in Nat /\ DOMAIN s = 1..Len(s) /\ n \in 1..Len(s)
    BY LenProperties
  <1>2. \A k \in 1..Len(s) : s[k] \in S
    BY ElementOfSeq
  <1>3. PICK first : first = SubSeq(s, 1, n - 1)
    OBVIOUS
  <1>4. PICK last : last = SubSeq(s, n + 1, Len(s))
    OBVIOUS
  <1>5. /\ first \in Seq(S) /\ Len(first) = n - 1
        /\ \A k \in 1..(n - 1) : first[k] = s[k]
    <2>1. n - 1 \in Int /\ 1 \in Int /\ \A k \in 1..(n - 1) : s[k] \in S
      BY <1>1, <1>2
    <2>2. /\ first \in Seq(S) /\ Len(first) = IF 1 <= n - 1 THEN (n - 1) - 1 + 1 ELSE 0
          /\ \A k \in 1..((n - 1) - 1 + 1) : first[k] = s[1 + k - 1]
      BY <1>3, <2>1, SubSeqProperties
    <2> QED BY <1>1, <2>2
  <1>6. /\ last \in Seq(S) /\ Len(last) = Len(s) - n
        /\ \A k \in 1..(Len(s) - n) : last[k] = s[n + k]
    <2>1. n + 1 \in Int /\ Len(s) \in Int /\ \A k \in (n + 1)..Len(s) : s[k] \in S
      BY <1>1, <1>2
    <2>2. /\ last \in Seq(S) /\ Len(last) = IF n + 1 <= Len(s) THEN Len(s) - (n + 1) + 1 ELSE 0
          /\ \A k \in 1..(Len(s) - (n + 1) + 1) : last[k] = s[(n + 1) + k - 1]
      BY <1>4, <2>1, SubSeqProperties
    <2>3. /\ Len(s) - (n + 1) + 1 = Len(s) - n
          /\ n + 1 <= Len(s) \/ Len(s) - n = 0
          /\ \A k \in Int : (n + 1) + k - 1 = n + k
      BY <1>1
    <2>4. Len(last) = Len(s) - n
      BY <1>1, <2>2, <2>3
    <2>5. \A k \in 1..(Len(s) - n) : k \in Int /\ last[k] = s[(n + 1) + k - 1]
      BY <2>2, <2>3
    <2> QED BY <2>2, <2>3, <2>4, <2>5
  <1>7. rest = first \o last
    BY <1>3, <1>4 DEF RemoveAt
  <1>8. /\ rest \in Seq(S) /\ Len(rest) = Len(first) + Len(last)
        /\ \A k \in 1..(Len(first) + Len(last)) :
             rest[k] = IF k <= Len(first) THEN first[k] ELSE last[k - Len(first)]
    <2>1. first \in Seq(S) /\ last \in Seq(S)
      BY <1>5, <1>6
    <2>2. /\ first \o last \in Seq(S) /\ Len(first \o last) = Len(first) + Len(last)
          /\ \A k \in 1..(Len(first) + Len(last)) :
               (first \o last)[k] = IF k <= Len(first) THEN first[k] ELSE last[k - Len(first)]
      BY <2>1, ConcatProperties, Zenon
    <2> QED BY <1>7, <2>2
  <1>9. Len(rest) = Len(s) - 1 /\ DOMAIN rest = 1..(Len(s) - 1)
    BY <1>1, <1>5, <1>6, <1>8, LenProperties
  <1>10. ASSUME NEW k \in 1..(Len(s) - 1)
         PROVE  \E m \in DOMAIN s : m # n /\ rest[k] = s[m]
    <2>1. CASE k < n
      <3>1. rest[k] = s[k] /\ k \in DOMAIN s /\ k # n
        BY <1>1, <1>5, <1>6, <1>8, <2>1
      <3> QED BY <3>1
    <2>2. CASE ~(k < n)
      <3>1. rest[k] = last[k - (n - 1)] /\ k - (n - 1) \in 1..(Len(s) - n)
        BY <1>1, <1>5, <1>6, <1>8, <2>2
      <3>2. n + (k - (n - 1)) = k + 1
        BY <1>1
      <3>3. rest[k] = s[k + 1] /\ k + 1 \in DOMAIN s /\ k + 1 # n
        BY <1>1, <1>6, <2>2, <3>1, <3>2
      <3> QED BY <3>3
    <2> QED BY <2>1, <2>2
  <1> QED BY <1>1, <1>8, <1>9, <1>10 DEF Without

LEMMA ReplacedFacts ==
    ASSUME NEW S, NEW s \in Seq(S), NEW n \in DOMAIN s, NEW e \in S,
           NEW after, after = [s EXCEPT ![n] = e]
    PROVE  /\ after \in Seq(S) /\ Len(after) = Len(s)
           /\ DOMAIN after = DOMAIN s /\ after[n] = e
           /\ \A k \in DOMAIN s : k # n => after[k] = s[k]
  <1>1. Len(s) \in Nat /\ DOMAIN s = 1..Len(s) /\ n \in 1..Len(s)
    BY LenProperties
  <1>2. /\ after \in Seq(S) /\ Len(after) = Len(s)
        /\ \A j \in 1..Len(s) : after[j] = IF j = n THEN e ELSE s[j]
    BY <1>1, ExceptSeq
  <1> QED BY <1>1, <1>2

LEMMA SeqFacts ==
    ASSUME NEW S, NEW s \in Seq(S)
    PROVE  /\ Len(s) \in Nat /\ DOMAIN s = 1..Len(s)
           /\ \A n \in DOMAIN s : s[n] \in S
  BY LenProperties, ElementOfSeq

-----------------------------------------------------------------------------
(* The order page *)

LEMMA UnseenFinite ==
    ASSUME OrderState
    PROVE  IsFiniteSet(PlacedUnseen) /\ Cardinality(PlacedUnseen) \in Nat
  <1>1. IsFiniteSet(tries) /\ PlacedUnseen \subseteq tries
    BY DEF OrderState, PlacedUnseen
  <1> QED BY <1>1, FS_Subset, FS_CardinalityType

LEMMA UnseenKept ==
    ASSUME CommonState, OrderState, FaultsGrow, PlacedUnseen' \subseteq PlacedUnseen
    PROVE  UnseenTookFault'
  <1>1. PICK old : old = PlacedUnseen
    OBVIOUS
  <1>2. PICK new : new = PlacedUnseen'
    OBVIOUS
  <1>3. IsFiniteSet(old) /\ Cardinality(old) \in Nat
    BY <1>1, UnseenFinite
  <1>4. IsFiniteSet(new) /\ Cardinality(new) <= Cardinality(old) /\ Cardinality(new) \in Nat
    BY <1>1, <1>2, <1>3, FS_Subset, FS_CardinalityType
  <1>5. Cardinality(old) <= faults["send"] + faults["gateway"]
    BY <1>1 DEF OrderState, UnseenTookFault
  <1>6. /\ faults["send"] \in Nat /\ faults["gateway"] \in Nat
        /\ faults'["send"] \in Nat /\ faults'["gateway"] \in Nat
        /\ faults["send"] <= faults'["send"] /\ faults["gateway"] <= faults'["gateway"]
    BY DEF CommonState, FaultsGrow, FaultKinds
  <1>7. Cardinality(new) <= faults'["send"] + faults'["gateway"]
    BY <1>3, <1>4, <1>5, <1>6
  <1> QED BY <1>2, <1>7 DEF UnseenTookFault

LEMMA UnseenOneMore ==
    ASSUME CommonState, OrderState, FaultsGrow, NEW o, PlacedUnseen' \subseteq PlacedUnseen \cup {o},
           NEW kind \in {"send", "gateway"}, faults'[kind] = faults[kind] + 1
    PROVE  UnseenTookFault'
  <1>1. PICK old : old = PlacedUnseen
    OBVIOUS
  <1>2. PICK new : new = PlacedUnseen'
    OBVIOUS
  <1>3. IsFiniteSet(old) /\ Cardinality(old) \in Nat
    BY <1>1, UnseenFinite
  <1>4. IsFiniteSet(old \cup {o}) /\ Cardinality(old \cup {o}) <= Cardinality(old) + 1
    <2>1. /\ IsFiniteSet(old \cup {o})
          /\ Cardinality(old \cup {o}) = IF o \in old THEN Cardinality(old) ELSE Cardinality(old) + 1
      BY <1>3, FS_AddElement
    <2> QED BY <1>3, <2>1
  <1>5. /\ Cardinality(new) \in Nat /\ Cardinality(old \cup {o}) \in Nat
        /\ Cardinality(new) <= Cardinality(old \cup {o})
    BY <1>1, <1>2, <1>4, FS_Subset, FS_CardinalityType
  <1>6. Cardinality(old) <= faults["send"] + faults["gateway"]
    BY <1>1 DEF OrderState, UnseenTookFault
  <1>7. /\ faults["send"] \in Nat /\ faults["gateway"] \in Nat
        /\ faults'["send"] \in Nat /\ faults'["gateway"] \in Nat
        /\ faults["send"] <= faults'["send"] /\ faults["gateway"] <= faults'["gateway"]
    BY DEF CommonState, FaultsGrow, FaultKinds
  <1>8. Cardinality(new) <= faults'["send"] + faults'["gateway"]
    BY <1>3, <1>4, <1>5, <1>6, <1>7
  <1> QED BY <1>2, <1>8 DEF UnseenTookFault

(* Actions of others: at most they place an order nobody has asked for. *)
LEMMA OrderPageKept ==
    ASSUME CommonState, OrderState, UNCHANGED formVars, FaultsGrow,
           \/ UNCHANGED placed
           \/ \E o \in Orders : Fresh(o) /\ placed' = placed \cup {o}
    PROVE  OrderState'
  <1>1. form' = form /\ requests' = requests /\ tries' = tries
    BY DEF formVars
  <1>2. /\ placed \subseteq placed'
        /\ \A o \in tries \cap placed' : o \in placed
        /\ \A r \in requests : r.order \in placed' => r.order \in placed
    BY DEF Fresh
  <1>3. CreatedWasPlaced' /\ OneRequestAtATime'
    BY <1>1, <1>2 DEF OrderState, CreatedWasPlaced, OneRequestAtATime
  <1>4. PlacedUnseen' \subseteq PlacedUnseen
    BY <1>1, <1>2 DEF PlacedUnseen
  <1>5. UnseenTookFault'
    BY <1>4, UnseenKept
  <1> QED BY <1>1, <1>3, <1>5 DEF OrderState

LEMMA SubmitKeepsOrder ==
    ASSUME CommonState, OrderState, NEW o \in Orders, Submit(o)
    PROVE  OrderState'
  <1>1. /\ form.orderId = NoOrder /\ ~form.loading /\ Fresh(o)
        /\ form' = [form EXCEPT !.loading = TRUE, !.error = FALSE]
        /\ requests' = requests \cup {[order |-> o, reply |-> "none", mounted |-> TRUE]}
        /\ tries' = tries \cup {o}
        /\ placed' = placed /\ faults' = faults
    BY DEF Submit, outcomeVars
  <1>2. PICK r \in Requests : r = [order |-> o, reply |-> "none", mounted |-> TRUE]
    BY DEF Requests
  <1>3. r.order = o /\ r.reply = "none" /\ r.mounted /\ requests' = requests \cup {r}
    BY <1>1, <1>2
  <1>4. o \notin placed /\ o \notin tries /\ \A q \in requests : q.order # o
    BY <1>1 DEF Fresh
  <1>5. /\ form' \in [loading : BOOLEAN, orderId : Orders \cup {NoOrder}, error : BOOLEAN]
        /\ form'.loading /\ form'.orderId = NoOrder
    BY <1>1 DEF OrderState
  <1>6. requests' \subseteq Requests /\ tries' \subseteq Orders /\ IsFiniteSet(tries')
    BY <1>1, <1>3, FS_AddElement DEF OrderState
  <1>7. \A q \in requests : ~q.mounted
    BY <1>1 DEF OrderState, OneRequestAtATime
  <1>8. CreatedWasPlaced'
    BY <1>1, <1>3, <1>5 DEF OrderState, CreatedWasPlaced
  <1>9. OneRequestAtATime'
    <2>1. form'.loading <=> \E q \in requests' : q.mounted
      BY <1>3, <1>5
    <2>2. \A q \in requests' : /\ q.reply = "none" => q.order \notin placed'
                               /\ q.mounted \/ (q.reply = "none" /\ q.order \notin tries')
      BY <1>1, <1>3, <1>4 DEF OrderState, OneRequestAtATime
    <2>3. \A q, x \in requests' : q.order = x.order \/ (q.mounted /\ x.mounted) => q = x
      BY <1>3, <1>4, <1>7 DEF OrderState, OneRequestAtATime
    <2> QED BY <1>5, <2>1, <2>2, <2>3 DEF OneRequestAtATime
  <1>10. PlacedUnseen' \subseteq PlacedUnseen
    BY <1>1, <1>3, <1>4, <1>5 DEF PlacedUnseen
  <1>11. UnseenTookFault'
    BY <1>1, <1>10, NoFaultFacts, UnseenKept
  <1> QED BY <1>5, <1>6, <1>8, <1>9, <1>11 DEF OrderState

LEMMA SubmitInvalidKeepsOrder ==
    ASSUME CommonState, OrderState, SubmitInvalid
    PROVE  OrderState'
  <1>1. /\ form' = [form EXCEPT !.error = TRUE]
        /\ requests' = requests /\ tries' = tries /\ placed' = placed /\ faults' = faults
    BY DEF SubmitInvalid, outcomeVars
  <1>2. /\ form' \in [loading : BOOLEAN, orderId : Orders \cup {NoOrder}, error : BOOLEAN]
        /\ form'.loading = form.loading /\ form'.orderId = form.orderId
    BY <1>1 DEF OrderState
  <1>3. CreatedWasPlaced' /\ OneRequestAtATime'
    BY <1>1, <1>2 DEF OrderState, CreatedWasPlaced, OneRequestAtATime
  <1>4. PlacedUnseen' \subseteq PlacedUnseen
    BY <1>1, <1>2 DEF PlacedUnseen
  <1>5. UnseenTookFault'
    BY <1>1, <1>4, NoFaultFacts, UnseenKept
  <1> QED BY <1>1, <1>2, <1>3, <1>5 DEF OrderState

LEMMA CreateAnotherKeepsOrder ==
    ASSUME CommonState, OrderState, CreateAnother
    PROVE  OrderState'
  <1>1. /\ form.orderId # NoOrder
        /\ form' = [form EXCEPT !.orderId = NoOrder]
        /\ requests' = requests /\ tries' = {} /\ placed' = placed /\ faults' = faults
    BY DEF CreateAnother, outcomeVars
  <1>2. /\ form' \in [loading : BOOLEAN, orderId : Orders \cup {NoOrder}, error : BOOLEAN]
        /\ form'.loading = form.loading /\ form'.orderId = NoOrder
    BY <1>1 DEF OrderState
  <1>3. CreatedWasPlaced' /\ OneRequestAtATime'
    BY <1>1, <1>2 DEF OrderState, CreatedWasPlaced, OneRequestAtATime
  <1>4. PlacedUnseen' \subseteq PlacedUnseen
    BY <1>1 DEF PlacedUnseen
  <1>5. UnseenTookFault'
    BY <1>1, <1>4, NoFaultFacts, UnseenKept
  <1> QED BY <1>1, <1>2, <1>3, <1>5, FS_EmptySet DEF OrderState

(* A request is answered, or its answer is lost with the gateway.              *)
LEMMA AnswerFacts ==
    ASSUME CommonState, OrderState, NEW r \in requests, NEW reply \in {"created", "error"},
           r.reply # "error", UNCHANGED <<form, tries>>, requests' = Replied(r, reply),
           placed' \in {placed, placed \cup {r.order}},
           reply = "created" => r.order \in placed',
           r.reply = "created" => r.mounted /\ placed' = placed
    PROVE  /\ requests' \subseteq Requests
           /\ CreatedWasPlaced' /\ OneRequestAtATime'
           /\ PlacedUnseen' \subseteq PlacedUnseen \cup {r.order}
           /\ reply = "created" \/ (placed' = placed /\ r.reply = "none")
                => PlacedUnseen' \subseteq PlacedUnseen
  <1>1. requests \subseteq Requests /\ CreatedWasPlaced /\ OneRequestAtATime
    BY DEF OrderState
  <1>2. r \in Requests
    BY <1>1
  <1>3. PICK q \in Requests :
          /\ q = [r EXCEPT !.reply = reply]
          /\ q.order = r.order /\ q.reply = reply /\ q.mounted = r.mounted
    <2>1. PICK q \in Requests : q = [order |-> r.order, reply |-> reply, mounted |-> r.mounted]
      BY <1>2 DEF Requests
    <2>2. [r EXCEPT !.reply = reply] = [order |-> r.order, reply |-> reply, mounted |-> r.mounted]
      BY <1>2 DEF Requests
    <2> QED BY <2>1, <2>2
  <1>4. /\ r.mounted => requests' = (requests \ {r}) \cup {q}
        /\ ~r.mounted => requests' = requests \ {r}
    BY <1>3 DEF Replied
  <1>5. \A x \in requests' : (x = q /\ r.mounted) \/ (x \in requests /\ x # r)
    <2>1. CASE r.mounted
      BY <1>4, <2>1
    <2>2. CASE ~r.mounted
      BY <1>4, <2>2
    <2> QED BY <2>1, <2>2
  <1>6. \A x \in requests : x # r => x \in requests'
    BY <1>4
  <1>7. r.mounted => q \in requests'
    BY <1>4
  <1>8. placed \subseteq placed' /\ \A o \in placed' : o \in placed \/ o = r.order
    OBVIOUS
  <1>9. \A x \in requests : x # r => x.order # r.order /\ ~(x.mounted /\ r.mounted)
    BY <1>1 DEF OneRequestAtATime
  <1>10. requests' \subseteq Requests
    BY <1>1, <1>3, <1>5
  <1>11. CreatedWasPlaced'
    <2>1. form'.orderId # NoOrder => form'.orderId \in placed'
      BY <1>1, <1>8 DEF CreatedWasPlaced
    <2>2. \A x \in requests' : x.reply = "created" => x.order \in placed'
      BY <1>1, <1>3, <1>5, <1>8 DEF CreatedWasPlaced
    <2> QED BY <2>1, <2>2 DEF CreatedWasPlaced
  <1>12. OneRequestAtATime'
    <2>1. form'.loading <=> \E x \in requests' : x.mounted
      <3>1. form'.loading <=> \E x \in requests : x.mounted
        BY <1>1 DEF OneRequestAtATime
      <3>2. ASSUME NEW x \in requests', x.mounted PROVE \E y \in requests : y.mounted
        <4>1. CASE x = q /\ r.mounted
          BY <4>1
        <4>2. CASE x \in requests /\ x # r
          BY <3>2, <4>2
        <4> QED BY <1>5, <4>1, <4>2
      <3>3. ASSUME NEW x \in requests, x.mounted PROVE \E y \in requests' : y.mounted
        <4>1. CASE x = r
          <5>1. r.mounted /\ q \in requests'
            BY <1>7, <3>3, <4>1
          <5>2. q.mounted
            BY <1>3, <5>1
          <5> QED BY <5>1, <5>2
        <4>2. CASE x # r
          BY <1>6, <3>3, <4>2
        <4> QED BY <4>1, <4>2
      <3> QED BY <3>1, <3>2, <3>3
    <2>2. form'.loading => form'.orderId = NoOrder
      BY <1>1 DEF OneRequestAtATime
    <2>3. \A x \in requests' : /\ x.reply = "none" => x.order \notin placed'
                               /\ x.mounted \/ (x.reply = "none" /\ x.order \notin tries')
      BY <1>1, <1>3, <1>5, <1>8, <1>9 DEF OneRequestAtATime
    <2>4. \A x, y \in requests' : x.order = y.order \/ (x.mounted /\ y.mounted) => x = y
      <3>1. ASSUME NEW x \in requests', NEW y \in requests,
                   y # r, x.order = y.order \/ (x.mounted /\ y.mounted)
            PROVE  x \in requests
        BY <1>3, <1>5, <1>9, <3>1
      <3>2. ASSUME NEW x \in requests', NEW y \in requests', x \in requests, y \in requests,
                   x.order = y.order \/ (x.mounted /\ y.mounted)
            PROVE  x = y
        BY <1>1, <3>2 DEF OneRequestAtATime
      <3> QED BY <1>5, <3>1, <3>2
    <2> QED BY <2>1, <2>2, <2>3, <2>4 DEF OneRequestAtATime
  <1>13. ASSUME NEW o, o \in PlacedUnseen'
         PROVE  /\ o # r.order => o \in PlacedUnseen
                /\ reply = "created" \/ (placed' = placed /\ r.reply = "none") => o # r.order
    <2>1. /\ o \in tries /\ o \in placed' /\ o # form.orderId
          /\ \A x \in requests' : x.order = o => x.reply = "error"
      BY <1>13 DEF PlacedUnseen
    <2>2. ASSUME o # r.order PROVE o \in PlacedUnseen
      <3>1. \A x \in requests : x.order = o => x.reply = "error"
        BY <1>6, <2>1, <2>2
      <3> QED BY <1>8, <2>1, <2>2, <3>1 DEF PlacedUnseen
    <2>3. ASSUME reply = "created", o = r.order PROVE FALSE
      <3>1. r.mounted
        BY <1>1, <2>1, <2>3 DEF OneRequestAtATime
      <3> QED BY <1>3, <1>7, <2>1, <2>3, <3>1
    <2>4. ASSUME placed' = placed, r.reply = "none", o = r.order PROVE FALSE
      BY <1>1, <2>1, <2>4 DEF OneRequestAtATime
    <2> QED BY <2>2, <2>3, <2>4
  <1> QED BY <1>10, <1>11, <1>12, <1>13

LEMMA AnswersKeepOrder ==
    ASSUME CommonState, OrderState, NEW r \in requests,
           CreateOrder(r) \/ CreateOrderFails(r) \/ GatewayUnreachable(r)
    PROVE  OrderState' /\ FaultsGrow /\ placed' \in {placed, placed \cup {r.order}}
  <1>1. CASE CreateOrder(r)
    <2>1. /\ r.reply = "none" /\ form' = form /\ tries' = tries /\ faults' = faults
          /\ requests' = Replied(r, "created") /\ placed' = placed \cup {r.order}
      BY <1>1 DEF CreateOrder, Place
    <2>2. /\ requests' \subseteq Requests /\ CreatedWasPlaced' /\ OneRequestAtATime'
          /\ PlacedUnseen' \subseteq PlacedUnseen
      BY <2>1, AnswerFacts
    <2>3. UnseenTookFault' /\ FaultsGrow
      BY <2>1, <2>2, NoFaultFacts, UnseenKept
    <2> QED BY <2>1, <2>2, <2>3 DEF OrderState
  <1>2. CASE CreateOrderFails(r)
    <2>1. /\ r.reply = "none" /\ form' = form /\ tries' = tries /\ Fault("send")
          /\ requests' = Replied(r, "error") /\ placed' \in {placed, placed \cup {r.order}}
      BY <1>2 DEF CreateOrderFails, Place, outcomeVars
    <2>2. /\ requests' \subseteq Requests /\ CreatedWasPlaced' /\ OneRequestAtATime'
          /\ PlacedUnseen' \subseteq PlacedUnseen \cup {r.order}
      BY <2>1, AnswerFacts
    <2>3. FaultsGrow /\ faults'["send"] = faults["send"] + 1
      BY <2>1, FaultFacts DEF FaultKinds
    <2>4. UnseenTookFault'
      BY <2>2, <2>3, UnseenOneMore
    <2> QED BY <2>1, <2>2, <2>3, <2>4 DEF OrderState
  <1>3. CASE GatewayUnreachable(r)
    <2>1. /\ r.reply = "none" /\ form' = form /\ tries' = tries /\ faults' = faults
          /\ requests' = Replied(r, "error") /\ placed' = placed
      BY <1>3 DEF GatewayUnreachable, outcomeVars
    <2>2. /\ requests' \subseteq Requests /\ CreatedWasPlaced' /\ OneRequestAtATime'
          /\ PlacedUnseen' \subseteq PlacedUnseen
      BY <2>1, AnswerFacts
    <2>3. UnseenTookFault' /\ FaultsGrow
      BY <2>1, <2>2, NoFaultFacts, UnseenKept
    <2> QED BY <2>1, <2>2, <2>3 DEF OrderState
  <1> QED BY <1>1, <1>2, <1>3

LEMMA ReceiveReplyKeepsOrder ==
    ASSUME CommonState, OrderState, NEW r \in requests, ReceiveReply(r)
    PROVE  OrderState'
  <1>1. /\ r.reply # "none" /\ requests' = requests \ {r}
        /\ form' = IF r.reply = "created" THEN [form EXCEPT !.orderId = r.order, !.loading = FALSE]
                                          ELSE [form EXCEPT !.error = TRUE, !.loading = FALSE]
        /\ tries' = tries /\ placed' = placed /\ faults' = faults
    BY DEF ReceiveReply, outcomeVars
  <1>2. /\ requests \subseteq Requests /\ CreatedWasPlaced /\ OneRequestAtATime
        /\ form \in [loading : BOOLEAN, orderId : Orders \cup {NoOrder}, error : BOOLEAN]
    BY DEF OrderState
  <1>3. r.order \in Orders /\ r.reply \in {"created", "error"}
    BY <1>1, <1>2 DEF Requests
  <1>4. r.mounted
    BY <1>1, <1>2 DEF OneRequestAtATime
  <1>5. form.loading /\ form.orderId = NoOrder
    BY <1>2, <1>4 DEF OneRequestAtATime
  <1>6. \A x \in requests' : x \in requests /\ x # r /\ ~x.mounted
    BY <1>1, <1>2, <1>4 DEF OneRequestAtATime
  <1>7. /\ form' \in [loading : BOOLEAN, orderId : Orders \cup {NoOrder}, error : BOOLEAN]
        /\ ~form'.loading
        /\ r.reply = "created" => form'.orderId = r.order
        /\ r.reply # "created" => form'.orderId = NoOrder
    BY <1>1, <1>2, <1>3, <1>5
  <1>8. CreatedWasPlaced'
    BY <1>1, <1>2, <1>7 DEF CreatedWasPlaced
  <1>9. OneRequestAtATime'
    BY <1>1, <1>2, <1>6, <1>7 DEF OneRequestAtATime
  <1>10. ASSUME NEW o, o \in PlacedUnseen'
         PROVE  o \in PlacedUnseen
    <2>1. /\ o \in tries /\ o \in placed /\ o # form'.orderId
          /\ \A x \in requests' : x.order = o => x.reply = "error"
      BY <1>1, <1>10 DEF PlacedUnseen
    <2>2. o # NoOrder
      BY <2>1, DashboardAssumption DEF CommonState
    <2>3. \A x \in requests : x.order = o => x.reply = "error"
      BY <1>1, <1>3, <1>7, <2>1
    <2> QED BY <1>5, <2>1, <2>2, <2>3 DEF PlacedUnseen
  <1>11. UnseenTookFault'
    <2>1. PlacedUnseen' \subseteq PlacedUnseen
      BY <1>10
    <2> QED BY <1>1, <2>1, NoFaultFacts, UnseenKept
  <1> QED BY <1>1, <1>2, <1>7, <1>8, <1>9, <1>11 DEF OrderState

LEMMA MountedUpdated ==
    ASSUME NEW r \in Requests, NEW mounted
    PROVE  [r EXCEPT !.mounted = mounted]
             = [order |-> r.order, reply |-> r.reply, mounted |-> mounted]
  BY DEF Requests

LEMMA OpenKeepsOrder ==
    ASSUME CommonState, OrderState, NEW p, Open(p)
    PROVE  OrderState'
  <1>1. /\ form' = NewForm /\ tries' = {}
        /\ requests' = {[r EXCEPT !.mounted = FALSE] : r \in {q \in requests : q.reply = "none"}}
        /\ placed' = placed /\ faults' = faults
    BY DEF Open, outcomeVars
  <1>2. /\ form' \in [loading : BOOLEAN, orderId : Orders \cup {NoOrder}, error : BOOLEAN]
        /\ ~form'.loading /\ form'.orderId = NoOrder
    BY <1>1 DEF NewForm
  <1>3. requests \subseteq Requests /\ OneRequestAtATime
    BY DEF OrderState
  <1>4. ASSUME NEW x \in requests'
        PROVE  \E r \in requests :
                 /\ r.reply = "none"
                 /\ x = [order |-> r.order, reply |-> "none", mounted |-> FALSE]
    <2>1. PICK r \in requests : r.reply = "none" /\ x = [r EXCEPT !.mounted = FALSE]
      BY <1>1
    <2>2. r \in Requests
      BY <1>3
    <2>3. [r EXCEPT !.mounted = FALSE] = [order |-> r.order, reply |-> r.reply, mounted |-> FALSE]
      BY <2>2, MountedUpdated
    <2>4. x = [order |-> r.order, reply |-> "none", mounted |-> FALSE]
      BY <2>1, <2>3
    <2>5. r.reply = "none"
      BY <2>1
    <2> WITNESS r \in requests
    <2> QED BY <2>4, <2>5
  <1>5. requests' \subseteq Requests
    <2>1. \A r \in requests : [order |-> r.order, reply |-> "none", mounted |-> FALSE] \in Requests
      BY <1>3 DEF Requests
    <2> QED BY <1>4, <2>1
  <1>6. ASSUME NEW x \in requests'
        PROVE  x.reply = "none" /\ ~x.mounted /\ x.order \notin placed
    <2>1. PICK r \in requests : /\ r.reply = "none"
                                /\ x = [order |-> r.order, reply |-> "none", mounted |-> FALSE]
      BY <1>4
    <2>2. r.order \notin placed
      BY <1>3, <2>1 DEF OneRequestAtATime
    <2> QED BY <2>1, <2>2
  <1>7. ASSUME NEW x \in requests', NEW y \in requests', x.order = y.order
        PROVE  x = y
    <2>1. x = [order |-> x.order, reply |-> "none", mounted |-> FALSE]
      BY <1>4
    <2>2. y = [order |-> y.order, reply |-> "none", mounted |-> FALSE]
      BY <1>4
    <2> QED BY <1>7, <2>1, <2>2, Zenon
  <1>8. CreatedWasPlaced'
    BY <1>2, <1>6 DEF CreatedWasPlaced
  <1>9. OneRequestAtATime'
    BY <1>1, <1>2, <1>6, <1>7 DEF OneRequestAtATime
  <1>10. UnseenTookFault'
    <2>1. PlacedUnseen' \subseteq PlacedUnseen
      BY <1>1 DEF PlacedUnseen
    <2> QED BY <1>1, <2>1, NoFaultFacts, UnseenKept
  <1> QED BY <1>1, <1>2, <1>5, <1>8, <1>9, <1>10, FS_EmptySet DEF OrderState

(* The gateway takes at most one answer with it: the mounted page has one      *)
(* request out, and nobody waits for the others.                               *)
LEMMA GatewayDiesKeepsOrder ==
    ASSUME CommonState, OrderState, GatewayDies
    PROVE  OrderState' /\ FaultsGrow /\ faults'["gateway"] = faults["gateway"] + 1
  <1>1. PICK lost \in SUBSET {r \in requests : r.reply = "created"} :
          requests' = (requests \ lost) \cup {[r EXCEPT !.reply = "error"] : r \in lost}
    BY DEF GatewayDies
  <1>2. form' = form /\ tries' = tries /\ placed' = placed /\ Fault("gateway")
    BY DEF GatewayDies, outcomeVars
  <1>3. FaultsGrow /\ faults'["gateway"] = faults["gateway"] + 1
    BY <1>2, FaultFacts DEF FaultKinds
  <1>4. OneRequestAtATime
    BY DEF OrderState
  <1>5. CASE lost = {}
    <2>1. requests' = requests
      BY <1>1, <1>5
    <2>2. UNCHANGED formVars /\ UNCHANGED placed
      BY <1>2, <2>1 DEF formVars
    <2> QED BY <1>3, <2>2, OrderPageKept
  <1>6. CASE lost # {}
    <2>1. PICK r \in requests : r \in lost /\ r.reply = "created" /\ r.mounted
      BY <1>1, <1>4, <1>6 DEF OneRequestAtATime
    <2>2. lost = {r}
      BY <1>1, <1>4, <2>1 DEF OneRequestAtATime
    <2>3. requests' = Replied(r, "error")
      BY <1>1, <2>1, <2>2 DEF Replied
    <2>4. /\ requests' \subseteq Requests /\ CreatedWasPlaced' /\ OneRequestAtATime'
          /\ PlacedUnseen' \subseteq PlacedUnseen \cup {r.order}
      BY <1>2, <2>1, <2>3, AnswerFacts
    <2>5. UnseenTookFault'
      BY <1>3, <2>4, UnseenOneMore
    <2> QED BY <1>2, <1>3, <2>4, <2>5 DEF OrderState
  <1> QED BY <1>5, <1>6

-----------------------------------------------------------------------------
(* The orders page. Its invariant again, of the values it speaks of: what is   *)
(* placed and settled, what the page shows, what the instances have.           *)

JustifiedBy(orders, known, answers) ==
    \A o \in Orders :
        /\ orders[o] # "NONE" => o \in known
        /\ orders[o] \in Outcomes => orders[o] \in answers[o]

ShownKept(shown, all) ==
    shown.from \in Instances => DecidedIn(shown.orders, all[shown.from])

FetchKept(fetch, shown, all) ==
    fetch.reply \in Answers =>
        /\ DecidedIn(fetch.reply.orders, all[fetch.reply.from])
        /\ (~fetch.overlapped /\ shown.from = fetch.reply.from)
              => DecidedIn(shown.orders, fetch.reply.orders)

Undisturbed == faults["service"] = 0 /\ faults["redelivery"] = 0

AloneOrOverlapped == \A n \in DOMAIN fetches : fetches[n].overlapped \/ Len(fetches) = 1

AllJustified ==
    /\ \A i \in Instances : JustifiedBy(entries[i], placed, settled)
    /\ \A n \in DOMAIN fetches : JustifiedBy(fetches[n].reply.orders, placed, settled)
    /\ JustifiedBy(list.orders, placed, settled)

AllKept ==
    Undisturbed => /\ ShownKept(list, entries)
                   /\ \A n \in DOMAIN fetches : FetchKept(fetches[n], list, entries)

ListTypes ==
    /\ settled \in [Orders -> SUBSET Outcomes]
    /\ entries \in [Instances -> [Orders -> Statuses]]
    /\ list \in [orders : [Orders -> Statuses], from : Instances \cup {Nobody}, error : BOOLEAN]
    /\ fetches \in Seq(Fetch) /\ Len(fetches) <= MaxFetches

LEMMA ListByValues ==
    ListState <=> ListTypes /\ AllJustified /\ AloneOrOverlapped /\ AllKept
  <1>1. StatusesJustified <=> AllJustified
    BY DEF StatusesJustified, AllJustified, Justified, JustifiedBy
  <1>2. DecisionsKept <=> AloneOrOverlapped /\ AllKept
    BY DEF DecisionsKept, AloneOrOverlapped, AllKept, Undisturbed, ShownKept, FetchKept
  <1> QED BY <1>1, <1>2 DEF ListState, ListTypes

LEMMA ListByValuesNext ==
    ListTypes' /\ AllJustified' /\ AloneOrOverlapped' /\ AllKept' => ListState'
  BY ListByValues, PTL

LEMMA ReplyFacts ==
    /\ NoReply \notin Answers /\ Failure \notin Answers /\ NoReply # Failure
    /\ NoReply.orders = NoEntries /\ Failure.orders = NoEntries
    /\ NoEntries \in [Orders -> Statuses] /\ \A o \in Orders : NoEntries[o] = "NONE"
    /\ Nobody \notin Instances
  BY DashboardAssumption DEF NoReply, Failure, Reply, Nobody, NoEntries, Answers, Statuses

LEMMA NothingJustified == \A known, answers : JustifiedBy(NoEntries, known, answers)
  BY ReplyFacts DEF JustifiedBy, Outcomes

LEMMA JustifiedGrows ==
    ASSUME NEW orders, NEW known, NEW answers, JustifiedBy(orders, known, answers),
           NEW more, NEW later, known \subseteq more, \A o \in Orders : answers[o] \subseteq later[o]
    PROVE  JustifiedBy(orders, more, later)
  BY DEF JustifiedBy

LEMMA KeptLater ==
    ASSUME NEW all, NEW later, \A i \in Instances : DecidedIn(all[i], later[i]), NEW shown
    PROVE  /\ ShownKept(shown, all) => ShownKept(shown, later)
           /\ \A fetch : FetchKept(fetch, shown, all) => FetchKept(fetch, shown, later)
  <1>1. ASSUME ShownKept(shown, all), shown.from \in Instances
        PROVE  DecidedIn(shown.orders, later[shown.from])
    BY <1>1 DEF ShownKept, DecidedIn
  <1>2. ASSUME NEW fetch, FetchKept(fetch, shown, all), fetch.reply \in Answers
        PROVE  /\ DecidedIn(fetch.reply.orders, later[fetch.reply.from])
               /\ (~fetch.overlapped /\ shown.from = fetch.reply.from)
                     => DecidedIn(shown.orders, fetch.reply.orders)
    <2>1. fetch.reply.from \in Instances
      BY <1>2 DEF Answers
    <2>2. /\ DecidedIn(fetch.reply.orders, all[fetch.reply.from])
          /\ (~fetch.overlapped /\ shown.from = fetch.reply.from)
                => DecidedIn(shown.orders, fetch.reply.orders)
      BY <1>2 DEF FetchKept
    <2>3. DecidedIn(all[fetch.reply.from], later[fetch.reply.from])
      BY <2>1
    <2>4. DecidedIn(fetch.reply.orders, later[fetch.reply.from])
      BY <2>2, <2>3 DEF DecidedIn
    <2> QED BY <2>2, <2>4
  <1> QED BY <1>1, <1>2 DEF ShownKept, FetchKept

LEMMA UndisturbedBefore ==
    ASSUME CommonState, FaultsGrow, Undisturbed'
    PROVE  Undisturbed
  <1>1. /\ faults["service"] \in Nat /\ faults["redelivery"] \in Nat
        /\ faults["service"] <= faults'["service"]
        /\ faults["redelivery"] <= faults'["redelivery"]
    BY DEF CommonState, FaultsGrow, FaultKinds
  <1> QED BY <1>1 DEF Undisturbed

(* What happens behind the page: answers come in, and an instance changes what *)
(* it has of its orders.                                                       *)
LEMMA ListPageKept ==
    ASSUME CommonState, ListState, UNCHANGED listVars, FaultsGrow,
           placed \subseteq placed', settled' \in [Orders -> SUBSET Outcomes],
           \A o \in Orders : settled[o] \subseteq settled'[o],
           entries' \in [Instances -> [Orders -> Statuses]],
           \A i \in Instances : JustifiedBy(entries'[i], placed', settled'),
           Undisturbed' => \A i \in Instances : DecidedIn(entries[i], entries'[i])
    PROVE  ListState'
  <1>1. ListTypes /\ AllJustified /\ AloneOrOverlapped /\ AllKept
    BY ListByValues
  <1>2. list' = list /\ fetches' = fetches
    BY DEF listVars
  <1>3. ListTypes'
    BY <1>1, <1>2 DEF ListTypes
  <1>4. AllJustified'
    <2>1. \A n \in DOMAIN fetches : JustifiedBy(fetches[n].reply.orders, placed', settled')
      BY <1>1, JustifiedGrows DEF AllJustified
    <2>2. JustifiedBy(list.orders, placed', settled')
      BY <1>1, JustifiedGrows DEF AllJustified
    <2> QED BY <1>2, <2>1, <2>2 DEF AllJustified
  <1>5. AloneOrOverlapped'
    BY <1>1, <1>2 DEF AloneOrOverlapped
  <1>6. ASSUME Undisturbed'
        PROVE  /\ ShownKept(list, entries')
               /\ \A n \in DOMAIN fetches : FetchKept(fetches[n], list, entries')
    <2>1. /\ ShownKept(list, entries)
          /\ \A n \in DOMAIN fetches : FetchKept(fetches[n], list, entries)
      BY <1>1, <1>6, UndisturbedBefore DEF AllKept
    <2>2. \A i \in Instances : DecidedIn(entries[i], entries'[i])
      BY <1>6
    <2> QED BY <2>1, <2>2, KeptLater
  <1>7. AllKept'
    BY <1>2, <1>6 DEF AllKept
  <1> QED BY <1>3, <1>4, <1>5, <1>7, ListByValuesNext

LEMMA EntriesUnchanged ==
    ASSUME CommonState, ListState, UNCHANGED <<listVars, entries>>, FaultsGrow,
           placed \subseteq placed', settled' \in [Orders -> SUBSET Outcomes],
           \A o \in Orders : settled[o] \subseteq settled'[o]
    PROVE  ListState'
  <1>1. ListTypes /\ AllJustified
    BY ListByValues
  <1>2. entries' = entries
    OBVIOUS
  <1>3. \A i \in Instances : JustifiedBy(entries[i], placed', settled')
    BY <1>1, JustifiedGrows DEF AllJustified
  <1>4. \A i \in Instances : DecidedIn(entries[i], entries[i])
    BY DEF DecidedIn
  <1>5. entries' \in [Instances -> [Orders -> Statuses]]
    BY <1>1 DEF ListTypes
  <1> QED BY <1>2, <1>3, <1>4, <1>5, ListPageKept

(* Track and Decide: one entry of one instance. *)
LEMMA EntryChanged ==
    ASSUME CommonState, ListState, UNCHANGED <<listVars, placed, settled>>, FaultsGrow,
           NEW i \in Instances, NEW o \in Orders, NEW status \in Statuses,
           entries' = [entries EXCEPT ![i][o] = status],
           o \in placed, status \in Outcomes => status \in settled[o],
           Undisturbed' => (entries[i][o] \in Outcomes => status \in Outcomes)
    PROVE  ListState'
  <1>1. ListTypes /\ AllJustified
    BY ListByValues
  <1>2. PICK row \in [Orders -> Statuses] : row = entries[i]
    BY <1>1 DEF ListTypes
  <1>3. entries' = [entries EXCEPT ![i] = [row EXCEPT ![o] = status]]
    BY <1>2
  <1>4. PICK new \in [Orders -> Statuses] : new = [row EXCEPT ![o] = status]
    OBVIOUS
  <1>5. entries' = [entries EXCEPT ![i] = new]
    BY <1>3, <1>4
  <1>6. entries' \in [Instances -> [Orders -> Statuses]]
    BY <1>1, <1>5 DEF ListTypes
  <1>7. \A j \in Instances : entries'[j] = IF j = i THEN new ELSE entries[j]
    BY <1>1, <1>5 DEF ListTypes
  <1>8. \A p \in Orders : new[p] = IF p = o THEN status ELSE row[p]
    BY <1>4
  <1>9. JustifiedBy(row, placed, settled)
    BY <1>1, <1>2 DEF AllJustified
  <1>10. JustifiedBy(new, placed, settled)
    BY <1>8, <1>9 DEF JustifiedBy
  <1>11. \A j \in Instances : JustifiedBy(entries'[j], placed', settled')
    BY <1>1, <1>7, <1>10 DEF AllJustified
  <1>12. Undisturbed' => DecidedIn(row, new)
    BY <1>2, <1>8 DEF DecidedIn
  <1>13. \A j \in Instances : DecidedIn(entries[j], entries[j])
    BY DEF DecidedIn
  <1>14. Undisturbed' => \A j \in Instances : DecidedIn(entries[j], entries'[j])
    BY <1>2, <1>7, <1>12, <1>13
  <1>15. settled' \in [Orders -> SUBSET Outcomes] /\ \A p \in Orders : settled[p] \subseteq settled'[p]
    BY <1>1 DEF ListTypes
  <1> QED BY <1>6, <1>11, <1>14, <1>15, ListPageKept

(* What happens on the page: orders and their answers stay as they are.        *)
LEMMA ListChanged ==
    ASSUME CommonState, ListState, UNCHANGED <<placed, settled, entries, faults>>,
           list' \in [orders : [Orders -> Statuses], from : Instances \cup {Nobody}, error : BOOLEAN],
           fetches' \in Seq(Fetch), Len(fetches') <= MaxFetches,
           JustifiedBy(list'.orders, placed, settled),
           \A n \in DOMAIN fetches' : JustifiedBy(fetches'[n].reply.orders, placed, settled),
           \A n \in DOMAIN fetches' : fetches'[n].overlapped \/ Len(fetches') = 1,
           Undisturbed => /\ ShownKept(list', entries)
                          /\ \A n \in DOMAIN fetches' : FetchKept(fetches'[n], list', entries)
    PROVE  ListState'
  <1>1. ListTypes /\ AllJustified
    BY ListByValues
  <1>2. ListTypes'
    BY <1>1 DEF ListTypes
  <1>3. AllJustified'
    BY <1>1 DEF AllJustified
  <1>4. AloneOrOverlapped'
    BY DEF AloneOrOverlapped
  <1>5. AllKept'
    BY DEF AllKept, Undisturbed
  <1> QED BY <1>2, <1>3, <1>4, <1>5, ListByValuesNext

LEMMA FetchFacts ==
    ASSUME NEW f \in Fetch
    PROVE  /\ f.reply \in Answers \cup {NoReply, Failure} /\ f.overlapped \in BOOLEAN
           /\ \A reply \in Answers \cup {NoReply, Failure} :
                \E g \in Fetch : /\ g = [f EXCEPT !.reply = reply]
                                 /\ g.reply = reply /\ g.overlapped = f.overlapped
           /\ \E g \in Fetch : /\ g = [f EXCEPT !.overlapped = TRUE]
                               /\ g.reply = f.reply /\ g.overlapped
  <1>1. f.reply \in Answers \cup {NoReply, Failure} /\ f.overlapped \in BOOLEAN
    BY DEF Fetch
  <1>2. ASSUME NEW reply \in Answers \cup {NoReply, Failure}
        PROVE  \E g \in Fetch : /\ g = [f EXCEPT !.reply = reply]
                                /\ g.reply = reply /\ g.overlapped = f.overlapped
    <2>1. PICK g \in Fetch : g = [reply |-> reply, overlapped |-> f.overlapped]
      BY <1>1 DEF Fetch
    <2>2. [f EXCEPT !.reply = reply] = [reply |-> reply, overlapped |-> f.overlapped]
      BY DEF Fetch
    <2> QED BY <2>1, <2>2
  <1>3. ASSUME NEW yes \in BOOLEAN
        PROVE  \E g \in Fetch : /\ g = [f EXCEPT !.overlapped = yes]
                                /\ g.reply = f.reply /\ g.overlapped = yes
    <2>1. PICK g \in Fetch : g = [reply |-> f.reply, overlapped |-> yes]
      BY <1>1 DEF Fetch
    <2>2. [f EXCEPT !.overlapped = yes] = [reply |-> f.reply, overlapped |-> yes]
      BY DEF Fetch
    <2> QED BY <2>1, <2>2
  <1> QED BY <1>1, <1>2, <1>3

LEMMA FetchOrdersKeepsList ==
    ASSUME CommonState, ListState, FetchOrders
    PROVE  ListState'
  <1>1. /\ Len(fetches) < MaxFetches
        /\ fetches' = Append([n \in DOMAIN fetches |-> [fetches[n] EXCEPT !.overlapped = TRUE]],
                             [Unanswered EXCEPT !.overlapped = fetches # <<>>])
        /\ UNCHANGED <<placed, settled, entries, faults, list>>
    BY DEF FetchOrders, outcomeVars
  <1>2. ListTypes /\ AllJustified /\ AloneOrOverlapped /\ AllKept
    BY ListByValues
  <1>3. /\ fetches \in Seq(Fetch) /\ Len(fetches) \in Nat /\ DOMAIN fetches = 1..Len(fetches)
        /\ \A n \in DOMAIN fetches : fetches[n] \in Fetch
    BY <1>2, SeqFacts DEF ListTypes
  <1>4. PICK old : old = [n \in DOMAIN fetches |-> [fetches[n] EXCEPT !.overlapped = TRUE]]
    OBVIOUS
  <1>5. ASSUME NEW n \in DOMAIN fetches
        PROVE  old[n] \in Fetch /\ old[n].reply = fetches[n].reply /\ old[n].overlapped
    <2>1. PICK f \in Fetch : f = fetches[n]
      BY <1>3
    <2>2. old[n] = [f EXCEPT !.overlapped = TRUE]
      BY <1>4, <2>1
    <2>3. PICK g \in Fetch : g = [f EXCEPT !.overlapped = TRUE] /\ g.reply = f.reply /\ g.overlapped
      BY FetchFacts
    <2> QED BY <2>1, <2>2, <2>3
  <1>6. old \in Seq(Fetch) /\ Len(old) = Len(fetches)
    <2>1. old \in [1..Len(fetches) -> Fetch]
      BY <1>3, <1>4, <1>5
    <2> QED BY <1>3, <2>1
  <1>7. PICK new \in Fetch : /\ new = [Unanswered EXCEPT !.overlapped = fetches # <<>>]
                             /\ new.reply = NoReply /\ (new.overlapped <=> fetches # <<>>)
    <2>1. PICK behind \in BOOLEAN : behind = (fetches # <<>>)
      OBVIOUS
    <2>2. PICK new \in Fetch : new = [reply |-> NoReply, overlapped |-> behind]
      BY DEF Fetch
    <2>3. [Unanswered EXCEPT !.overlapped = behind] = [reply |-> NoReply, overlapped |-> behind]
      BY DEF Unanswered
    <2> QED BY <2>1, <2>2, <2>3
  <1>8. fetches' = Append(old, new)
    BY <1>1, <1>4, <1>7
  <1>9. /\ fetches' \in Seq(Fetch) /\ Len(fetches') = Len(fetches) + 1
        /\ \A n \in DOMAIN fetches : fetches'[n] = old[n]
        /\ fetches'[Len(fetches) + 1] = new
    <2>1. /\ Append(old, new) \in Seq(Fetch) /\ Len(Append(old, new)) = Len(old) + 1
          /\ \A n \in 1..Len(old) : Append(old, new)[n] = old[n]
          /\ Append(old, new)[Len(old) + 1] = new
      BY <1>6, AppendProperties
    <2> QED BY <1>3, <1>6, <1>8, <2>1
  <1>10. DOMAIN fetches' = 1..(Len(fetches) + 1)
    BY <1>9, LenProperties
  <1>11. \A n \in DOMAIN fetches' : n \in DOMAIN fetches \/ fetches'[n] = new
    BY <1>3, <1>9, <1>10
  <1>12. Len(fetches') <= MaxFetches
    <2>1. MaxFetches \in Nat
      BY DashboardAssumption
    <2> QED BY <1>1, <1>3, <1>9, <2>1
  <1>13. ASSUME NEW n \in DOMAIN fetches'
         PROVE  JustifiedBy(fetches'[n].reply.orders, placed, settled)
    <2>1. CASE n \in DOMAIN fetches
      <3>1. fetches'[n].reply = fetches[n].reply
        BY <1>5, <1>9, <2>1
      <3> QED BY <1>2, <2>1, <3>1 DEF AllJustified
    <2>2. CASE fetches'[n] = new
      <3>1. fetches'[n].reply.orders = NoEntries
        BY <1>7, <2>2, ReplyFacts
      <3> QED BY <3>1, NothingJustified
    <2> QED BY <1>11, <2>1, <2>2
  <1>14. ASSUME NEW n \in DOMAIN fetches'
         PROVE  fetches'[n].overlapped \/ Len(fetches') = 1
    <2>1. CASE n \in DOMAIN fetches
      BY <1>5, <1>9, <2>1
    <2>2. CASE fetches'[n] = new
      <3>1. CASE fetches = <<>>
        BY <1>9, <3>1
      <3>2. CASE fetches # <<>>
        BY <1>7, <2>2, <3>2
      <3> QED BY <3>1, <3>2
    <2> QED BY <1>11, <2>1, <2>2
  <1>15. ASSUME Undisturbed, NEW n \in DOMAIN fetches'
         PROVE  FetchKept(fetches'[n], list, entries)
    <2>1. CASE n \in DOMAIN fetches
      <3>1. FetchKept(fetches[n], list, entries)
        BY <1>2, <1>15, <2>1 DEF AllKept
      <3>2. fetches'[n].reply = fetches[n].reply /\ fetches'[n].overlapped
        BY <1>5, <1>9, <2>1
      <3> QED BY <3>1, <3>2 DEF FetchKept
    <2>2. CASE fetches'[n] = new
      BY <1>7, <2>2, ReplyFacts DEF FetchKept
    <2> QED BY <1>11, <2>1, <2>2
  <1>16. Undisturbed => ShownKept(list, entries)
    BY <1>2 DEF AllKept
  <1>17. JustifiedBy(list.orders, placed, settled)
    BY <1>2 DEF AllJustified
  <1>18. list' \in [orders : [Orders -> Statuses], from : Instances \cup {Nobody}, error : BOOLEAN]
    BY <1>1, <1>2 DEF ListTypes
  <1> QED BY <1>1, <1>9, <1>12, <1>13, <1>14, <1>15, <1>16, <1>17, <1>18, ListChanged

LEMMA GetOrdersKeepsList ==
    ASSUME CommonState, ListState, NEW n \in DOMAIN fetches, GetOrders(n)
    PROVE  ListState'
  <1>1. fetches[n].reply = NoReply /\ UNCHANGED <<placed, settled, entries, faults, list>>
    BY DEF GetOrders, outcomeVars
  <1>2. PICK i \in Instances :
          fetches' = [fetches EXCEPT ![n].reply =
              IF {Gateway, i} \subseteq up THEN Reply(entries[i], i) ELSE Failure]
    BY DEF GetOrders
  <1>3. ListTypes /\ AllJustified /\ AloneOrOverlapped /\ AllKept
    BY ListByValues
  <1>4. /\ fetches \in Seq(Fetch) /\ Len(fetches) \in Nat /\ DOMAIN fetches = 1..Len(fetches)
        /\ \A m \in DOMAIN fetches : fetches[m] \in Fetch
    BY <1>3, SeqFacts DEF ListTypes
  <1>5. PICK reply \in Answers \cup {Failure} :
          /\ reply = IF {Gateway, i} \subseteq up THEN Reply(entries[i], i) ELSE Failure
          /\ reply = Failure \/ (reply \in Answers /\ reply.orders = entries[i] /\ reply.from = i)
    <2>1. entries[i] \in [Orders -> Statuses]
      BY <1>3 DEF ListTypes
    <2>2. Reply(entries[i], i) \in Answers
      BY <2>1 DEF Reply, Answers
    <2>3. Reply(entries[i], i).orders = entries[i] /\ Reply(entries[i], i).from = i
      BY DEF Reply
    <2> QED BY <2>2, <2>3
  <1>6. PICK f \in Fetch : f = fetches[n]
    BY <1>4
  <1>7. PICK g \in Fetch : /\ g = [f EXCEPT !.reply = reply]
                           /\ g.reply = reply /\ g.overlapped = f.overlapped
    BY FetchFacts
  <1>8. fetches' = [fetches EXCEPT ![n] = g]
    BY <1>2, <1>5, <1>6, <1>7
  <1>9. /\ fetches' \in Seq(Fetch) /\ Len(fetches') = Len(fetches)
        /\ DOMAIN fetches' = DOMAIN fetches /\ fetches'[n] = g
        /\ \A m \in DOMAIN fetches : m # n => fetches'[m] = fetches[m]
    BY <1>4, <1>8, ReplacedFacts
  <1>10. ASSUME NEW m \in DOMAIN fetches'
         PROVE  JustifiedBy(fetches'[m].reply.orders, placed, settled)
    <2>1. JustifiedBy(reply.orders, placed, settled)
      BY <1>3, <1>5, ReplyFacts, NothingJustified DEF AllJustified
    <2> QED BY <1>3, <1>7, <1>9, <2>1 DEF AllJustified
  <1>11. \A m \in DOMAIN fetches' : fetches'[m].overlapped \/ Len(fetches') = 1
    BY <1>3, <1>6, <1>7, <1>9 DEF AloneOrOverlapped
  <1>12. ASSUME Undisturbed, NEW m \in DOMAIN fetches'
         PROVE  FetchKept(fetches'[m], list, entries)
    <2>1. ShownKept(list, entries) /\ \A k \in DOMAIN fetches : FetchKept(fetches[k], list, entries)
      BY <1>3, <1>12 DEF AllKept
    <2>2. FetchKept(g, list, entries)
      <3>1. ASSUME reply \in Answers
            PROVE  /\ DecidedIn(reply.orders, entries[reply.from])
                   /\ list.from = reply.from => DecidedIn(list.orders, reply.orders)
        <4>1. reply.orders = entries[i] /\ reply.from = i
          BY <1>5, <3>1, ReplyFacts
        <4> QED BY <2>1, <4>1 DEF ShownKept, DecidedIn
      <3> QED BY <1>7, <3>1 DEF FetchKept
    <2> QED BY <1>9, <2>1, <2>2
  <1>13. Undisturbed => ShownKept(list, entries)
    BY <1>3 DEF AllKept
  <1>14. JustifiedBy(list.orders, placed, settled)
    BY <1>3 DEF AllJustified
  <1>15. /\ list' \in [orders : [Orders -> Statuses], from : Instances \cup {Nobody}, error : BOOLEAN]
         /\ Len(fetches') <= MaxFetches
    BY <1>1, <1>3, <1>9 DEF ListTypes
  <1> QED BY <1>1, <1>9, <1>10, <1>11, <1>12, <1>13, <1>14, <1>15, ListChanged

(* What the page shows after it has taken a reply.                             *)
LEMMA ShownAfter ==
    ASSUME ListState, NEW n \in DOMAIN fetches, ReceiveOrders(n)
    PROVE  /\ list' \in [orders : [Orders -> Statuses], from : Instances \cup {Nobody}, error : BOOLEAN]
           /\ fetches[n].reply \in Answers \cup {Failure}
           /\ fetches[n].reply = Failure => list'.orders = list.orders /\ list'.from = list.from
           /\ fetches[n].reply \in Answers => /\ list'.orders = fetches[n].reply.orders
                                              /\ list'.from = fetches[n].reply.from
  <1>1. ListTypes /\ fetches \in Seq(Fetch) /\ fetches[n] \in Fetch
    BY ListByValues, SeqFacts DEF ListTypes
  <1>2. PICK reply \in Answers \cup {NoReply, Failure} : reply = fetches[n].reply
    BY <1>1, FetchFacts
  <1>3. /\ reply # NoReply
        /\ list' = IF reply = Failure
                   THEN [list EXCEPT !.error = TRUE]
                   ELSE [list EXCEPT !.orders = reply.orders, !.from = reply.from]
    BY <1>2 DEF ReceiveOrders
  <1>4. list \in [orders : [Orders -> Statuses], from : Instances \cup {Nobody}, error : BOOLEAN]
    BY <1>1 DEF ListTypes
  <1>5. CASE reply = Failure
    <2>1. /\ list' \in [orders : [Orders -> Statuses], from : Instances \cup {Nobody}, error : BOOLEAN]
          /\ list'.orders = list.orders /\ list'.from = list.from
      BY <1>3, <1>4, <1>5
    <2> QED BY <1>2, <1>5, <2>1, ReplyFacts
  <1>6. CASE reply # Failure
    <2>1. reply \in Answers
      BY <1>3, <1>6
    <2>2. PICK orders \in [Orders -> Statuses], from \in Instances :
            orders = reply.orders /\ from = reply.from
      BY <2>1 DEF Answers
    <2>3. list' = [list EXCEPT !.orders = orders, !.from = from]
      BY <1>3, <1>6, <2>2
    <2>4. /\ list' \in [orders : [Orders -> Statuses], from : Instances \cup {Nobody}, error : BOOLEAN]
          /\ list'.orders = orders /\ list'.from = from
      BY <1>4, <2>3
    <2> QED BY <1>2, <1>6, <2>1, <2>2, <2>4
  <1> QED BY <1>5, <1>6

LEMMA ReceiveOrdersKeepsList ==
    ASSUME CommonState, ListState, NEW n \in DOMAIN fetches, ReceiveOrders(n)
    PROVE  ListState'
  <1>1. /\ fetches' = RemoveAt(fetches, n)
        /\ UNCHANGED <<placed, settled, entries, faults>>
    BY DEF ReceiveOrders, outcomeVars
  <1>2. ListTypes /\ AllJustified /\ AloneOrOverlapped /\ AllKept
    BY ListByValues
  <1>3. /\ fetches \in Seq(Fetch) /\ Len(fetches) \in Nat /\ DOMAIN fetches = 1..Len(fetches)
        /\ \A m \in DOMAIN fetches : fetches[m] \in Fetch
    BY <1>2, SeqFacts DEF ListTypes
  <1>4. /\ fetches' \in Seq(Fetch) /\ Len(fetches') = Len(fetches) - 1
        /\ \A k \in DOMAIN fetches' : \E m \in DOMAIN fetches : m # n /\ fetches'[k] = fetches[m]
    <2>1. PICK rest : rest = RemoveAt(fetches, n)
      OBVIOUS
    <2>2. Without(Fetch, fetches, n, rest)
      BY <1>3, <2>1, RemoveAtFacts
    <2> QED BY <1>1, <2>1, <2>2 DEF Without
  <1>5. /\ list' \in [orders : [Orders -> Statuses], from : Instances \cup {Nobody}, error : BOOLEAN]
        /\ fetches[n].reply \in Answers \cup {Failure}
        /\ fetches[n].reply = Failure => list'.orders = list.orders /\ list'.from = list.from
        /\ fetches[n].reply \in Answers => /\ list'.orders = fetches[n].reply.orders
                                           /\ list'.from = fetches[n].reply.from
    BY ShownAfter
  <1>6. JustifiedBy(list'.orders, placed, settled)
    BY <1>2, <1>5 DEF AllJustified
  <1>7. ASSUME NEW k \in DOMAIN fetches'
        PROVE  /\ JustifiedBy(fetches'[k].reply.orders, placed, settled)
               /\ fetches'[k].overlapped
    <2>1. PICK m \in DOMAIN fetches : m # n /\ fetches'[k] = fetches[m]
      BY <1>4
    <2>2. JustifiedBy(fetches[m].reply.orders, placed, settled)
      BY <1>2 DEF AllJustified
    <2>3. Len(fetches) # 1
      BY <1>3, <2>1
    <2>4. fetches[m].overlapped
      BY <1>2, <2>3 DEF AloneOrOverlapped
    <2> QED BY <2>1, <2>2, <2>4
  <1>8. Len(fetches') <= MaxFetches
    <2>1. MaxFetches \in Nat /\ Len(fetches) <= MaxFetches
      BY <1>2, DashboardAssumption DEF ListTypes
    <2> QED BY <1>3, <1>4, <2>1
  <1>9. ASSUME Undisturbed
        PROVE  /\ ShownKept(list', entries)
               /\ \A k \in DOMAIN fetches' : FetchKept(fetches'[k], list', entries)
    <2>1. ShownKept(list, entries) /\ \A k \in DOMAIN fetches : FetchKept(fetches[k], list, entries)
      BY <1>2, <1>9 DEF AllKept
    <2>2. ShownKept(list', entries)
      <3>1. CASE fetches[n].reply = Failure
        BY <1>5, <2>1, <3>1 DEF ShownKept
      <3>2. CASE fetches[n].reply \in Answers
        <4>1. DecidedIn(fetches[n].reply.orders, entries[fetches[n].reply.from])
          BY <2>1, <3>2 DEF FetchKept
        <4> QED BY <1>5, <3>2, <4>1 DEF ShownKept
      <3> QED BY <1>5, <3>1, <3>2
    <2>3. ASSUME NEW k \in DOMAIN fetches'
          PROVE  FetchKept(fetches'[k], list', entries)
      <3>1. PICK m \in DOMAIN fetches : m # n /\ fetches'[k] = fetches[m]
        BY <1>4
      <3>2. FetchKept(fetches[m], list, entries) /\ fetches[m].overlapped
        BY <1>7, <2>1, <3>1
      <3> QED BY <3>1, <3>2 DEF FetchKept
    <2> QED BY <2>2, <2>3
  <1> QED BY <1>1, <1>4, <1>5, <1>6, <1>7, <1>8, <1>9, ListChanged

LEMMA OpenKeepsList ==
    ASSUME CommonState, ListState, NEW p, Open(p)
    PROVE  ListState'
  <1>1. /\ list' = NewList /\ fetches' = IF p = "orders" THEN <<Unanswered>> ELSE <<>>
        /\ UNCHANGED <<placed, settled, entries, faults>>
    BY DEF Open, outcomeVars
  <1>2. /\ list' \in [orders : [Orders -> Statuses], from : Instances \cup {Nobody}, error : BOOLEAN]
        /\ list'.orders = NoEntries /\ list'.from = Nobody
    BY <1>1, ReplyFacts DEF NewList
  <1>3. PICK new \in Fetch : new = Unanswered /\ new.reply = NoReply
    <2>1. PICK no \in BOOLEAN : no = FALSE
      OBVIOUS
    <2>2. PICK new \in Fetch : new = [reply |-> NoReply, overlapped |-> no]
      BY DEF Fetch
    <2>3. new.reply = NoReply
      BY <2>2
    <2> QED BY <2>1, <2>2, <2>3 DEF Unanswered
  <1>4. /\ fetches' \in Seq(Fetch) /\ Len(fetches') \in 0..1
        /\ \A n \in DOMAIN fetches' : fetches'[n] = new /\ Len(fetches') = 1
    <2>1. CASE p = "orders"
      <3>1. fetches' = <<new>>
        BY <1>1, <1>3, <2>1
      <3>2. /\ <<new>> \in Seq(Fetch) /\ Len(<<new>>) = 1 /\ DOMAIN <<new>> = {1}
            /\ <<new>>[1] = new
        OBVIOUS
      <3> QED BY <3>1, <3>2
    <2>2. CASE p # "orders"
      <3>1. fetches' = <<>>
        BY <1>1, <2>2
      <3> QED BY <3>1
    <2> QED BY <2>1, <2>2
  <1>5. Len(fetches') <= MaxFetches
    <2>1. MaxFetches \in Nat \ {0}
      BY DashboardAssumption, Zenon
    <2> QED BY <1>4, <2>1
  <1>6. new.reply.orders = NoEntries /\ new.reply \notin Answers
    BY <1>3, ReplyFacts
  <1>7. \A n \in DOMAIN fetches' : JustifiedBy(fetches'[n].reply.orders, placed, settled)
    BY <1>4, <1>6, NothingJustified
  <1>8. JustifiedBy(list'.orders, placed, settled)
    BY <1>2, NothingJustified
  <1>9. ShownKept(list', entries)
    BY <1>2, ReplyFacts DEF ShownKept
  <1>10. \A n \in DOMAIN fetches' : FetchKept(fetches'[n], list', entries)
    BY <1>4, <1>6 DEF FetchKept
  <1> QED BY <1>1, <1>2, <1>4, <1>5, <1>7, <1>8, <1>9, <1>10, ListChanged

LEMMA PlacedKeepsList ==
    ASSUME CommonState, ListState, FaultsGrow, NEW o \in Orders,
           Place(o) \/ UNCHANGED outcomeVars, UNCHANGED listVars
    PROVE  ListState'
  <1>1. settled' = settled /\ entries' = entries /\ placed \subseteq placed'
    BY DEF Place, outcomeVars
  <1>2. settled \in [Orders -> SUBSET Outcomes]
    BY DEF ListState
  <1> QED BY <1>1, <1>2, EntriesUnchanged

LEMMA BackendKeepsList ==
    ASSUME CommonState, ListState, BackendStep
    PROVE  ListState' /\ FaultsGrow /\ UNCHANGED <<placed, announced>>
  <1>1. list' = list /\ fetches' = fetches
    BY DEF BackendStep, pageVars, listVars
  <1>2. UNCHANGED listVars
    BY <1>1 DEF listVars
  <1>3. PICK o \in Consumed :
          \/ \E outcome \in Outcomes :
                /\ Cardinality(settled[o]) < MaxOutcomes
                /\ Settle(o, outcome)
                /\ UNCHANGED faults
          \/ \E i \in Instances \cap up :
                \/ /\ Track(i, o)
                   /\ IF Redelivered(i, o) THEN Fault("redelivery") ELSE UNCHANGED faults
                \/ /\ \E outcome \in Outcomes : Decide(i, o, outcome)
                   /\ UNCHANGED faults
    BY DEF BackendStep
  <1>4. o \in Orders
    BY DashboardAssumption
  <1>5. ListTypes /\ AllJustified
    BY ListByValues
  <1>6. ASSUME NEW outcome \in Outcomes, Settle(o, outcome), UNCHANGED faults
        PROVE  ListState' /\ FaultsGrow /\ UNCHANGED <<placed, announced>>
    <2>1. /\ settled' = [settled EXCEPT ![o] = @ \cup {outcome}]
          /\ UNCHANGED <<placed, entries, announced>>
      BY <1>6 DEF Settle
    <2>2. FaultsGrow
      BY <1>6, NoFaultFacts
    <2>3. settled' \in [Orders -> SUBSET Outcomes] /\ \A p \in Orders : settled[p] \subseteq settled'[p]
      BY <1>5, <2>1 DEF ListTypes
    <2> QED BY <1>2, <2>1, <2>2, <2>3, EntriesUnchanged
  <1>7. ASSUME NEW i \in Instances, Track(i, o),
               IF Redelivered(i, o) THEN Fault("redelivery") ELSE UNCHANGED faults
        PROVE  ListState' /\ FaultsGrow /\ UNCHANGED <<placed, announced>>
    <2>1. /\ o \in placed /\ entries' = [entries EXCEPT ![i][o] = "PENDING"]
          /\ UNCHANGED <<placed, settled, announced>>
      BY <1>7 DEF Track
    <2>2. CASE Redelivered(i, o)
      <3>1. FaultsGrow /\ faults'["redelivery"] = faults["redelivery"] + 1
        BY <1>7, <2>2, FaultFacts DEF FaultKinds
      <3>2. ~Undisturbed'
        BY <3>1 DEF Undisturbed, CommonState, FaultKinds
      <3>3. "PENDING" \in Statuses /\ "PENDING" \notin Outcomes
        BY DEF Statuses, Outcomes
      <3> QED BY <1>2, <1>4, <2>1, <3>1, <3>2, <3>3, EntryChanged
    <2>3. CASE ~Redelivered(i, o)
      <3>1. FaultsGrow
        BY <1>7, <2>3, NoFaultFacts
      <3>2. entries[i][o] \notin Outcomes
        BY <2>3 DEF Redelivered, Outcomes
      <3>3. "PENDING" \in Statuses /\ "PENDING" \notin Outcomes
        BY DEF Statuses, Outcomes
      <3> QED BY <1>2, <1>4, <2>1, <3>1, <3>2, <3>3, EntryChanged
    <2> QED BY <2>2, <2>3
  <1>8. ASSUME NEW i \in Instances, NEW outcome \in Outcomes, Decide(i, o, outcome), UNCHANGED faults
        PROVE  ListState' /\ FaultsGrow /\ UNCHANGED <<placed, announced>>
    <2>1. /\ entries[i][o] # "NONE" /\ outcome \in settled[o]
          /\ entries' = [entries EXCEPT ![i][o] = outcome]
          /\ UNCHANGED <<placed, settled, announced>>
      BY <1>8 DEF Decide
    <2>2. FaultsGrow
      BY <1>8, NoFaultFacts
    <2>3. o \in placed
      BY <1>4, <1>5, <2>1 DEF AllJustified, JustifiedBy
    <2>4. outcome \in Statuses
      BY DEF Statuses
    <2> QED BY <1>2, <1>4, <2>1, <2>2, <2>3, <2>4, EntryChanged
  <1> QED BY <1>3, <1>6, <1>7, <1>8

LEMMA ServiceDiesKeepsList ==
    ASSUME CommonState, ListState, NEW s, ServiceDies(s)
    PROVE  ListState' /\ FaultsGrow /\ UNCHANGED <<placed, announced>>
  <1>1. /\ Fault("service") /\ UNCHANGED <<placed, settled, announced, list, fetches>>
        /\ entries' = [i \in Instances |-> IF i \in {s} THEN NoEntries ELSE entries[i]]
    BY DEF ServiceDies, Forget, pageVars, listVars
  <1>2. FaultsGrow /\ faults'["service"] = faults["service"] + 1
    BY <1>1, FaultFacts DEF FaultKinds
  <1>3. ~Undisturbed'
    BY <1>2 DEF Undisturbed, CommonState, FaultKinds
  <1>4. ListTypes /\ AllJustified
    BY ListByValues
  <1>5. entries' \in [Instances -> [Orders -> Statuses]]
    BY <1>1, <1>4, ReplyFacts DEF ListTypes
  <1>6. \A i \in Instances : JustifiedBy(entries'[i], placed', settled')
    BY <1>1, <1>4, NothingJustified DEF AllJustified
  <1>7. settled' \in [Orders -> SUBSET Outcomes] /\ \A p \in Orders : settled[p] \subseteq settled'[p]
    BY <1>1, <1>4 DEF ListTypes
  <1>8. UNCHANGED listVars /\ placed \subseteq placed'
    BY <1>1 DEF listVars
  <1>9. ListState'
    BY <1>2, <1>3, <1>5, <1>6, <1>7, <1>8, ListPageKept
  <1> QED BY <1>1, <1>2, <1>9

-----------------------------------------------------------------------------
(* The home page *)

CheckTruthful(check) ==
    /\ check.stage = "unreachable" => faults["gateway"] > 0
    /\ check.stage = "ok" => Services \subseteq check.details \cup {Gateway}

LEMMA CheckFacts ==
    ASSUME NEW check \in Check
    PROVE  /\ check.stage \in Stages /\ check.details \subseteq Services
           /\ \A stage \in Stages :
                \E next \in Check : /\ next = [check EXCEPT !.stage = stage]
                                    /\ next.stage = stage /\ next.details = check.details
  <1>1. check.stage \in Stages /\ check.details \in SUBSET Services
    BY DEF Check
  <1>2. ASSUME NEW stage \in Stages
        PROVE  \E next \in Check : /\ next = [check EXCEPT !.stage = stage]
                                   /\ next.stage = stage /\ next.details = check.details
    <2>1. PICK next \in Check : next = [stage |-> stage, details |-> check.details]
      BY <1>1 DEF Check
    <2>2. [check EXCEPT !.stage = stage] = [stage |-> stage, details |-> check.details]
      BY DEF Check
    <2> QED BY <2>1, <2>2
  <1> QED BY <1>1, <1>2

LEMMA HomeChanged ==
    ASSUME CommonState, HomeState, FaultsGrow,
           up' \subseteq Processes, Gateway \notin up' => faults'["gateway"] > 0,
           health' \in [Services -> {"unknown", "up", "down"}],
           checks' \in Seq(Check), Len(checks') <= MaxChecks,
           \A n \in DOMAIN checks' : CheckTruthful(checks'[n]) \/ checks'[n].stage \in {"gateway", "services"}
    PROVE  HomeState'
  <1>1. faults["gateway"] > 0 => faults'["gateway"] > 0
    <2>1. /\ faults["gateway"] \in Nat /\ faults'["gateway"] \in Nat
          /\ faults["gateway"] <= faults'["gateway"]
      BY DEF CommonState, FaultsGrow, FaultKinds
    <2> QED BY <2>1
  <1>2. ASSUME NEW n \in DOMAIN checks'
        PROVE  /\ checks'[n].stage = "unreachable" => faults'["gateway"] > 0
               /\ checks'[n].stage = "ok" => Services \subseteq checks'[n].details \cup {Gateway}
    BY <1>1 DEF CheckTruthful
  <1>3. ChecksTruthful'
    BY <1>2 DEF ChecksTruthful
  <1> QED BY <1>3 DEF HomeState

LEMMA HomeFacts ==
    ASSUME CommonState, HomeState
    PROVE  /\ up \subseteq Processes /\ health \in [Services -> {"unknown", "up", "down"}]
           /\ checks \in Seq(Check) /\ Len(checks) <= MaxChecks
           /\ Len(checks) \in Nat /\ MaxChecks \in Nat \ {0}
           /\ \A n \in DOMAIN checks : checks[n] \in Check /\ CheckTruthful(checks[n])
           /\ Gateway \notin up => faults["gateway"] > 0
  <1>1. checks \in Seq(Check) /\ ChecksTruthful
    BY DEF HomeState
  <1>2. Len(checks) \in Nat /\ \A n \in DOMAIN checks : checks[n] \in Check
    BY <1>1, SeqFacts
  <1>3. MaxChecks \in Nat \ {0}
    BY DashboardAssumption, Zenon
  <1> QED BY <1>1, <1>2, <1>3 DEF HomeState, ChecksTruthful, CheckTruthful

(* Processes die and are started again; the page does not move. *)
LEMMA HomePageKept ==
    ASSUME CommonState, HomeState, UNCHANGED homeVars, FaultsGrow,
           up' \subseteq Processes,
           Gateway \notin up' => Gateway \notin up \/ faults'["gateway"] > 0
    PROVE  HomeState'
  <1>1. health' = health /\ checks' = checks
    BY DEF homeVars
  <1>2. Gateway \notin up' => faults'["gateway"] > 0
    <2>1. /\ faults["gateway"] \in Nat /\ faults'["gateway"] \in Nat
          /\ faults["gateway"] <= faults'["gateway"]
      BY DEF CommonState, FaultsGrow, FaultKinds
    <2> QED BY <2>1, HomeFacts
  <1> QED BY <1>1, <1>2, HomeFacts, HomeChanged

LEMMA FirstCheckFacts ==
    FirstCheck \in Check /\ FirstCheck.stage = "gateway"
  <1>1. "gateway" \in Stages /\ {} \in SUBSET Services
    BY DEF Stages
  <1> QED BY <1>1 DEF FirstCheck, Check

LEMMA CheckHealthKeepsHome ==
    ASSUME CommonState, HomeState, CheckHealth
    PROVE  HomeState'
  <1>1. /\ Len(checks) < MaxChecks /\ checks' = Append(checks, FirstCheck)
        /\ up' = up /\ health' = health /\ faults' = faults
    BY DEF CheckHealth
  <1>2. PICK first \in Check : first = FirstCheck /\ first.stage = "gateway"
    BY FirstCheckFacts
  <1>3. checks \in Seq(Check) /\ Len(checks) \in Nat /\ MaxChecks \in Nat \ {0}
    BY HomeFacts
  <1>4. /\ checks' \in Seq(Check) /\ Len(checks') = Len(checks) + 1
        /\ \A n \in 1..Len(checks) : checks'[n] = checks[n]
        /\ checks'[Len(checks) + 1] = first
    BY <1>1, <1>2, <1>3, AppendProperties
  <1>5. DOMAIN checks' = 1..(Len(checks) + 1) /\ DOMAIN checks = 1..Len(checks)
    BY <1>3, <1>4, LenProperties
  <1>6. ASSUME NEW n \in DOMAIN checks'
        PROVE  CheckTruthful(checks'[n]) \/ checks'[n].stage \in {"gateway", "services"}
    <2>1. CASE n \in DOMAIN checks
      BY <1>4, <1>5, <2>1, HomeFacts
    <2>2. CASE n = Len(checks) + 1
      BY <1>2, <1>4, <2>2
    <2> QED BY <1>3, <1>5, <2>1, <2>2
  <1>7. Len(checks') <= MaxChecks
    BY <1>1, <1>3, <1>4
  <1>8. FaultsGrow
    BY <1>1, NoFaultFacts
  <1> QED BY <1>1, <1>4, <1>6, <1>7, <1>8, HomeFacts, HomeChanged

(* One check moves on to its next stage. *)
LEMMA CheckMoved ==
    ASSUME CommonState, HomeState, NEW n \in DOMAIN checks, NEW next \in Check,
           checks' = [checks EXCEPT ![n] = next], UNCHANGED <<up, faults, health>>,
           CheckTruthful(next) \/ next.stage \in {"gateway", "services"}
    PROVE  HomeState'
  <1>1. checks \in Seq(Check)
    BY HomeFacts
  <1>2. /\ checks' \in Seq(Check) /\ Len(checks') = Len(checks)
        /\ DOMAIN checks' = DOMAIN checks /\ checks'[n] = next
        /\ \A k \in DOMAIN checks : k # n => checks'[k] = checks[k]
    BY <1>1, ReplacedFacts
  <1>3. \A k \in DOMAIN checks' : CheckTruthful(checks'[k]) \/ checks'[k].stage \in {"gateway", "services"}
    BY <1>2, HomeFacts
  <1>4. FaultsGrow
    BY NoFaultFacts
  <1> QED BY <1>2, <1>3, <1>4, HomeFacts, HomeChanged

LEMMA CheckGatewayKeepsHome ==
    ASSUME CommonState, HomeState, NEW n \in DOMAIN checks, CheckGateway(n)
    PROVE  HomeState'
  <1>1. PICK check \in Check : check = checks[n]
    BY HomeFacts
  <1>2. PICK stage \in Stages : stage = IF Gateway \in up THEN "services" ELSE "unreachable"
    BY DEF Stages
  <1>3. PICK next \in Check : /\ next = [check EXCEPT !.stage = stage]
                              /\ next.stage = stage /\ next.details = check.details
    BY CheckFacts
  <1>4. checks' = [checks EXCEPT ![n] = next] /\ UNCHANGED <<up, faults, health>>
    BY <1>1, <1>2, <1>3 DEF CheckGateway
  <1>5. CheckTruthful(next) \/ next.stage \in {"gateway", "services"}
    BY <1>2, <1>3, HomeFacts DEF CheckTruthful
  <1> QED BY <1>4, <1>5, CheckMoved

LEMMA CheckServicesKeepsHome ==
    ASSUME CommonState, HomeState, NEW n \in DOMAIN checks, CheckAllServices(n)
    PROVE  HomeState'
  <1>1. PICK check \in Check : check = checks[n]
    BY HomeFacts
  <1>2. UNCHANGED <<up, faults, health>>
    BY DEF CheckAllServices
  <1>3. PICK i \in Instances :
          checks' = [checks EXCEPT ![n] =
              IF Gateway \notin up THEN [@ EXCEPT !.stage = "unreachable"]
              ELSE IF Pinged(i) # Services \ {Gateway} THEN [@ EXCEPT !.stage = "unavailable"]
              ELSE [stage |-> "ok", details |-> Pinged(i)]]
    BY DEF CheckAllServices
  <1>4. "unreachable" \in Stages /\ "unavailable" \in Stages /\ "ok" \in Stages
    BY DEF Stages
  <1>5. CASE Gateway \notin up
    <2>1. PICK next \in Check : /\ next = [check EXCEPT !.stage = "unreachable"]
                                /\ next.stage = "unreachable" /\ next.details = check.details
      BY <1>4, CheckFacts
    <2>2. checks' = [checks EXCEPT ![n] = next]
      BY <1>1, <1>3, <1>5, <2>1
    <2>3. CheckTruthful(next)
      BY <1>5, <2>1, HomeFacts DEF CheckTruthful
    <2> QED BY <1>2, <2>2, <2>3, CheckMoved
  <1>6. CASE Gateway \in up /\ Pinged(i) # Services \ {Gateway}
    <2>1. PICK next \in Check : /\ next = [check EXCEPT !.stage = "unavailable"]
                                /\ next.stage = "unavailable" /\ next.details = check.details
      BY <1>4, CheckFacts
    <2>2. checks' = [checks EXCEPT ![n] = next]
      BY <1>1, <1>3, <1>6, <2>1
    <2>3. CheckTruthful(next)
      BY <2>1 DEF CheckTruthful
    <2> QED BY <1>2, <2>2, <2>3, CheckMoved
  <1>7. CASE Gateway \in up /\ Pinged(i) = Services \ {Gateway}
    <2>1. PICK answering \in SUBSET Services : answering = Pinged(i) /\ Services \subseteq answering \cup {Gateway}
      BY <1>7
    <2>2. PICK next \in Check : next = [stage |-> "ok", details |-> answering]
      BY <1>4 DEF Check
    <2>3. next.stage = "ok" /\ next.details = answering
      BY <2>2
    <2>4. checks' = [checks EXCEPT ![n] = next]
      BY <1>3, <1>7, <2>1, <2>2
    <2>5. CheckTruthful(next)
      BY <2>1, <2>3 DEF CheckTruthful
    <2> QED BY <1>2, <2>4, <2>5, CheckMoved
  <1> QED BY <1>5, <1>6, <1>7

(* What a check shows: all up, all down, or what was there before.             *)
LEMMA HealthAfter ==
    ASSUME CommonState, HomeState, NEW n \in DOMAIN checks, ReceiveHealth(n)
    PROVE  /\ health' \in [Services -> {"unknown", "up", "down"}]
           /\ \/ \A s \in Services : health'[s] = "up"
              \/ health' = health
              \/ faults["gateway"] > 0 /\ \A s \in Services : health'[s] = "down"
  <1>1. PICK check \in Check : check = checks[n] /\ CheckTruthful(check)
    BY HomeFacts
  <1>2. /\ check.stage \in {"ok", "unavailable", "unreachable"}
        /\ health' =
              CASE check.stage = "ok" ->
                      [s \in Services |->
                          IF s \in check.details \cup {Gateway} THEN "up" ELSE "down"]
                [] check.stage = "unavailable" -> health
                [] check.stage = "unreachable" -> [s \in Services |-> "down"]
    BY <1>1 DEF ReceiveHealth
  <1>3. CASE check.stage = "ok"
    <2>1. health' = [s \in Services |-> IF s \in check.details \cup {Gateway} THEN "up" ELSE "down"]
      BY <1>2, <1>3
    <2>2. Services \subseteq check.details \cup {Gateway}
      BY <1>1, <1>3 DEF CheckTruthful
    <2> QED BY <2>1, <2>2
  <1>4. CASE check.stage = "unavailable"
    BY <1>2, <1>4, HomeFacts
  <1>5. CASE check.stage = "unreachable"
    <2>1. health' = [s \in Services |-> "down"]
      BY <1>2, <1>5
    <2>2. faults["gateway"] > 0
      BY <1>1, <1>5 DEF CheckTruthful
    <2> QED BY <2>1, <2>2
  <1> QED BY <1>2, <1>3, <1>4, <1>5

LEMMA ReceiveHealthKeepsHome ==
    ASSUME CommonState, HomeState, NEW n \in DOMAIN checks, ReceiveHealth(n)
    PROVE  HomeState'
  <1>1. checks' = RemoveAt(checks, n) /\ up' = up /\ faults' = faults
    BY DEF ReceiveHealth
  <1>2. PICK rest : rest = RemoveAt(checks, n)
    OBVIOUS
  <1>3. checks \in Seq(Check) /\ Len(checks) \in Nat /\ MaxChecks \in Nat \ {0} /\ Len(checks) <= MaxChecks
    BY HomeFacts
  <1>4. Without(Check, checks, n, rest)
    BY <1>2, <1>3, RemoveAtFacts
  <1>5. /\ checks' \in Seq(Check) /\ Len(checks') = Len(checks) - 1
        /\ \A k \in DOMAIN checks' : \E m \in DOMAIN checks : m # n /\ checks'[k] = checks[m]
    BY <1>1, <1>2, <1>4 DEF Without
  <1>6. \A k \in DOMAIN checks' : CheckTruthful(checks'[k]) \/ checks'[k].stage \in {"gateway", "services"}
    BY <1>5, HomeFacts
  <1>7. Len(checks') <= MaxChecks
    BY <1>3, <1>5
  <1>8. FaultsGrow
    BY <1>1, NoFaultFacts
  <1> QED BY <1>1, <1>5, <1>6, <1>7, <1>8, HealthAfter, HomeFacts, HomeChanged

LEMMA OpenKeepsHome ==
    ASSUME CommonState, HomeState, NEW p, Open(p)
    PROVE  HomeState'
  <1>1. /\ health' = NewHealth /\ checks' = IF p = "home" THEN <<FirstCheck>> ELSE <<>>
        /\ up' = up /\ faults' = faults
    BY DEF Open
  <1>2. PICK first \in Check : first = FirstCheck /\ first.stage = "gateway"
    BY FirstCheckFacts
  <1>3. /\ checks' \in Seq(Check) /\ Len(checks') \in 0..1
        /\ \A n \in DOMAIN checks' : checks'[n] = first
    <2>1. CASE p = "home"
      <3>1. checks' = <<first>>
        BY <1>1, <1>2, <2>1
      <3>2. /\ <<first>> \in Seq(Check) /\ Len(<<first>>) = 1 /\ DOMAIN <<first>> = {1}
            /\ <<first>>[1] = first
        OBVIOUS
      <3> QED BY <3>1, <3>2
    <2>2. CASE p # "home"
      <3>1. checks' = <<>>
        BY <1>1, <2>2
      <3> QED BY <3>1
    <2> QED BY <2>1, <2>2
  <1>4. Len(checks') <= MaxChecks
    <2>1. MaxChecks \in Nat \ {0}
      BY HomeFacts
    <2> QED BY <1>3, <2>1
  <1>5. health' \in [Services -> {"unknown", "up", "down"}]
    BY <1>1 DEF NewHealth
  <1>6. FaultsGrow
    BY <1>1, NoFaultFacts
  <1> QED BY <1>1, <1>2, <1>3, <1>4, <1>5, <1>6, HomeFacts, HomeChanged

-----------------------------------------------------------------------------
(* A step of the system preserves the invariant. What else it may do to what   *)
(* two of the pages show is kept for the properties below.                     *)

StateOK == CommonState /\ OrderState /\ ListState /\ HomeState

StepOK ==
    /\ CommonState' /\ OrderState' /\ ListState' /\ HomeState'
    /\ FaultsGrow
    /\ list' = list \/ page' # page \/ \E n \in DOMAIN fetches : ReceiveOrders(n)
    /\ health' = health \/ health' = NewHealth \/ \E n \in DOMAIN checks : ReceiveHealth(n)

LEMMA CommonKept ==
    ASSUME CommonState, FaultsGrow, placed' \subseteq Orders, UNCHANGED announced,
           seeds' \in 0..Seeds, page' \in {"home", "order", "orders"}
    PROVE  CommonState'
  BY DEF CommonState, FaultsGrow

LEMMA ListPageUntouched ==
    ASSUME StateOK, FaultsGrow, UNCHANGED <<outcomeVars, listVars>>
    PROVE  ListState'
  <1>1. UNCHANGED <<listVars, entries>> /\ placed \subseteq placed' /\ settled' = settled
    BY DEF outcomeVars
  <1>2. settled \in [Orders -> SUBSET Outcomes]
    BY DEF StateOK, ListState
  <1> QED BY <1>1, <1>2, EntriesUnchanged DEF StateOK

LEMMA HomePageUntouched ==
    ASSUME StateOK, FaultsGrow, UNCHANGED <<up, homeVars>>
    PROVE  HomeState'
  <1>1. up' \subseteq Processes /\ (Gateway \notin up' => Gateway \notin up)
    BY DEF StateOK, HomeState
  <1> QED BY <1>1, HomePageKept DEF StateOK

LEMMA OrderPageUntouched ==
    ASSUME StateOK, FaultsGrow, UNCHANGED <<placed, formVars>>
    PROVE  OrderState'
  BY OrderPageKept DEF StateOK

LEMMA BackendSteps ==
    ASSUME StateOK, BackendStep
    PROVE  StepOK
  <1>1. /\ UNCHANGED <<up, seeds, page, formVars, homeVars>> /\ list' = list /\ health' = health
    BY DEF BackendStep, pageVars, listVars, homeVars
  <1>2. ListState' /\ FaultsGrow /\ UNCHANGED <<placed, announced>>
    BY BackendKeepsList DEF StateOK
  <1>3. CommonState'
    BY <1>1, <1>2, CommonKept DEF StateOK, CommonState
  <1> QED BY <1>1, <1>2, <1>3, OrderPageUntouched, HomePageUntouched DEF StepOK

LEMMA ScriptSteps ==
    ASSUME StateOK, Script
    PROVE  StepOK
  <1>1. PICK o \in Orders : SeedOrder(o) \/ SeedFails(o)
    BY DEF Script
  <1>2. /\ Fresh(o)
        /\ Place(o) \/ UNCHANGED outcomeVars
        /\ UNCHANGED <<up, page, formVars, listVars, homeVars>>
    BY <1>1 DEF SeedOrder, SeedFails, pageVars
  <1>3. FaultsGrow
    <2>1. UNCHANGED faults \/ Fault("send")
      BY <1>1 DEF SeedOrder, SeedFails
    <2> QED BY <2>1, FaultFacts, NoFaultFacts DEF StateOK, FaultKinds
  <1>4. seeds' \in 0..Seeds
    <2>1. seeds \in 0..Seeds /\ Seeds \in Nat
      BY DashboardAssumption DEF StateOK, CommonState
    <2>2. seeds > 0 /\ (seeds' = seeds - 1 \/ seeds' = 0)
      BY <1>1 DEF SeedOrder, SeedFails
    <2> QED BY <2>1, <2>2
  <1>5. /\ UNCHANGED placed \/ placed' = placed \cup {o}
        /\ UNCHANGED announced
    BY <1>2 DEF Place, outcomeVars
  <1>6. CommonState'
    <2>1. placed' \subseteq Orders /\ page' \in {"home", "order", "orders"}
      BY <1>2, <1>5 DEF StateOK, CommonState
    <2> QED BY <1>3, <1>4, <1>5, <2>1, CommonKept DEF StateOK
  <1>7. OrderState'
    <2>1. \/ UNCHANGED placed
          \/ \E p \in Orders : Fresh(p) /\ placed' = placed \cup {p}
      BY <1>2, <1>5
    <2> QED BY <1>2, <1>3, <2>1, OrderPageKept DEF StateOK
  <1>8. ListState'
    BY <1>2, <1>3, PlacedKeepsList DEF StateOK
  <1>9. list' = list /\ health' = health
    BY <1>2 DEF listVars, homeVars
  <1> QED BY <1>2, <1>3, <1>6, <1>7, <1>8, <1>9, HomePageUntouched DEF StepOK

LEMMA FormSteps ==
    ASSUME StateOK,
           \/ \E o \in Orders : Submit(o)
           \/ SubmitInvalid
           \/ CreateAnother
           \/ \E r \in requests : ReceiveReply(r)
    PROVE  StepOK
  <1>1. UNCHANGED <<outcomeVars, up, faults, seeds, page, listVars, homeVars>>
    BY DEF Submit, SubmitInvalid, CreateAnother, ReceiveReply
  <1>2. FaultsGrow
    BY <1>1, NoFaultFacts DEF StateOK
  <1>3. OrderState'
    BY SubmitKeepsOrder, SubmitInvalidKeepsOrder, CreateAnotherKeepsOrder, ReceiveReplyKeepsOrder
       DEF StateOK
  <1>4. list' = list /\ health' = health /\ placed' = placed /\ announced' = announced
    BY <1>1 DEF listVars, homeVars, outcomeVars
  <1>5. CommonState'
    BY <1>1, <1>2, <1>4, CommonKept DEF StateOK, CommonState
  <1> QED BY <1>1, <1>2, <1>3, <1>4, <1>5, ListPageUntouched, HomePageUntouched DEF StepOK

LEMMA GatewaySteps ==
    ASSUME StateOK, NEW r \in requests,
           CreateOrder(r) \/ CreateOrderFails(r) \/ GatewayUnreachable(r)
    PROVE  StepOK
  <1>1. /\ UNCHANGED <<up, seeds, page, listVars, homeVars>>
        /\ Place(r.order) \/ UNCHANGED outcomeVars
    BY DEF CreateOrder, CreateOrderFails, GatewayUnreachable
  <1>2. OrderState' /\ FaultsGrow /\ placed' \in {placed, placed \cup {r.order}}
    BY AnswersKeepOrder DEF StateOK
  <1>3. r.order \in Orders
    BY DEF StateOK, OrderState, Requests
  <1>4. list' = list /\ health' = health /\ announced' = announced
    BY <1>1 DEF listVars, homeVars, outcomeVars, Place
  <1>5. CommonState'
    BY <1>1, <1>2, <1>3, <1>4, CommonKept DEF StateOK, CommonState
  <1>6. ListState'
    BY <1>1, <1>2, <1>3, PlacedKeepsList DEF StateOK
  <1> QED BY <1>1, <1>2, <1>4, <1>5, <1>6, HomePageUntouched DEF StepOK

LEMMA ListSteps ==
    ASSUME StateOK, FetchOrders \/ \E n \in DOMAIN fetches : GetOrders(n) \/ ReceiveOrders(n)
    PROVE  StepOK
  <1>1. /\ UNCHANGED <<outcomeVars, up, faults, seeds, page, formVars, homeVars>>
        /\ list' = list \/ \E n \in DOMAIN fetches : ReceiveOrders(n)
    BY DEF FetchOrders, GetOrders, ReceiveOrders
  <1>2. FaultsGrow
    BY <1>1, NoFaultFacts DEF StateOK
  <1>3. ListState'
    BY FetchOrdersKeepsList, GetOrdersKeepsList, ReceiveOrdersKeepsList DEF StateOK
  <1>4. health' = health /\ placed' = placed /\ announced' = announced
    BY <1>1 DEF homeVars, outcomeVars
  <1>5. CommonState'
    BY <1>1, <1>2, <1>4, CommonKept DEF StateOK, CommonState
  <1> QED BY <1>1, <1>2, <1>3, <1>4, <1>5, OrderPageUntouched, HomePageUntouched DEF StepOK

LEMMA HealthSteps ==
    ASSUME StateOK,
           \/ CheckHealth
           \/ \E n \in DOMAIN checks : CheckGateway(n) \/ CheckAllServices(n) \/ ReceiveHealth(n)
    PROVE  StepOK
  <1>1. /\ UNCHANGED <<outcomeVars, up, faults, seeds, page, formVars, listVars>>
        /\ health' = health \/ \E n \in DOMAIN checks : ReceiveHealth(n)
    BY DEF CheckHealth, CheckGateway, CheckAllServices, ReceiveHealth
  <1>2. FaultsGrow
    BY <1>1, NoFaultFacts DEF StateOK
  <1>3. HomeState'
    BY CheckHealthKeepsHome, CheckGatewayKeepsHome, CheckServicesKeepsHome, ReceiveHealthKeepsHome
       DEF StateOK
  <1>4. list' = list /\ placed' = placed /\ announced' = announced
    BY <1>1 DEF listVars, outcomeVars
  <1>5. CommonState'
    BY <1>1, <1>2, <1>4, CommonKept DEF StateOK, CommonState
  <1> QED BY <1>1, <1>2, <1>3, <1>4, <1>5, OrderPageUntouched, ListPageUntouched DEF StepOK

LEMMA OpenSteps ==
    ASSUME StateOK, NEW p \in {"home", "order", "orders"}, Open(p)
    PROVE  StepOK
  <1>1. /\ UNCHANGED <<outcomeVars, up, faults, seeds>>
        /\ page' # page /\ page' \in {"home", "order", "orders"} /\ health' = NewHealth
    BY DEF Open
  <1>2. FaultsGrow
    BY <1>1, NoFaultFacts DEF StateOK
  <1>3. OrderState' /\ ListState' /\ HomeState'
    BY OpenKeepsOrder, OpenKeepsList, OpenKeepsHome DEF StateOK
  <1>4. placed' = placed /\ announced' = announced
    BY <1>1 DEF outcomeVars
  <1>5. CommonState'
    BY <1>1, <1>2, <1>4, CommonKept DEF StateOK, CommonState
  <1> QED BY <1>1, <1>2, <1>3, <1>5 DEF StepOK

LEMMA ProcessSteps ==
    ASSUME StateOK, GatewayDies \/ Restart \/ \E s \in Instances \cup OtherServices : ServiceDies(s)
    PROVE  StepOK
  <1>1. UNCHANGED <<seeds, page, listVars, homeVars>>
    BY DEF GatewayDies, Restart, ServiceDies, pageVars
  <1>2. list' = list /\ health' = health
    BY <1>1 DEF listVars, homeVars
  <1>3. up \subseteq Processes /\ faults["gateway"] \in Nat
    BY DEF StateOK, HomeState, CommonState, FaultKinds
  <1>4. CASE GatewayDies
    <2>1. OrderState' /\ FaultsGrow /\ faults'["gateway"] = faults["gateway"] + 1
      BY <1>4, GatewayDiesKeepsOrder DEF StateOK
    <2>2. UNCHANGED outcomeVars /\ up' \subseteq Processes
      BY <1>3, <1>4 DEF GatewayDies
    <2>3. CommonState'
      BY <1>1, <2>1, <2>2, CommonKept DEF StateOK, CommonState, outcomeVars
    <2>4. HomeState'
      BY <1>1, <1>3, <2>1, <2>2, HomePageKept DEF StateOK
    <2> QED BY <1>1, <1>2, <2>1, <2>2, <2>3, <2>4, ListPageUntouched DEF StepOK
  <1>5. CASE Restart
    <2>1. UNCHANGED <<outcomeVars, faults, formVars>> /\ up' = Processes
      BY <1>5 DEF Restart, pageVars
    <2>2. FaultsGrow
      BY <2>1, NoFaultFacts DEF StateOK
    <2>3. CommonState'
      BY <1>1, <2>1, <2>2, CommonKept DEF StateOK, CommonState, outcomeVars
    <2>4. Gateway \in up'
      BY <2>1 DEF Processes
    <2>5. HomeState'
      BY <1>1, <2>1, <2>2, <2>4, HomePageKept DEF StateOK
    <2>6. UNCHANGED placed
      BY <2>1 DEF outcomeVars
    <2> QED BY <1>1, <1>2, <2>1, <2>2, <2>3, <2>5, <2>6, OrderPageUntouched, ListPageUntouched
            DEF StepOK
  <1>6. ASSUME NEW s \in Instances \cup OtherServices, ServiceDies(s)
        PROVE  StepOK
    <2>1. ListState' /\ FaultsGrow /\ UNCHANGED <<placed, announced>>
      BY <1>6, ServiceDiesKeepsList DEF StateOK
    <2>2. UNCHANGED formVars /\ up' = up \ {s}
      BY <1>6 DEF ServiceDies, pageVars
    <2>3. s # Gateway
      BY DashboardAssumption
    <2>4. up' \subseteq Processes /\ (Gateway \notin up' => Gateway \notin up)
      BY <1>3, <2>2, <2>3
    <2>5. HomeState'
      BY <1>1, <2>1, <2>4, HomePageKept DEF StateOK
    <2>6. CommonState'
      BY <1>1, <2>1, CommonKept DEF StateOK, CommonState
    <2> QED BY <1>1, <1>2, <2>1, <2>2, <2>5, <2>6, OrderPageUntouched DEF StepOK
  <1> QED BY <1>4, <1>5, <1>6

LEMMA StutterSteps ==
    ASSUME StateOK, UNCHANGED vars
    PROVE  StepOK
  <1>1. UNCHANGED <<outcomeVars, up, faults, seeds, page, formVars, listVars, homeVars>>
    BY DEF vars, pageVars
  <1>2. list' = list /\ health' = health /\ placed' = placed /\ announced' = announced
    BY <1>1 DEF listVars, homeVars, outcomeVars
  <1>3. FaultsGrow
    BY <1>1, NoFaultFacts DEF StateOK
  <1>4. CommonState'
    BY <1>1, <1>2, <1>3, CommonKept DEF StateOK, CommonState
  <1> QED BY <1>1, <1>2, <1>3, <1>4, OrderPageUntouched, ListPageUntouched, HomePageUntouched
          DEF StepOK

LEMMA NextSteps ==
    ASSUME PageInvariant, [Next]_vars
    PROVE  StepOK
  <1>1. StateOK
    BY InvariantByPages DEF StateOK
  <1>2. CASE Customer
    BY <1>1, <1>2, FormSteps, OpenSteps DEF Customer
  <1>3. CASE OrderPage
    BY <1>1, <1>3, FormSteps, GatewaySteps DEF OrderPage
  <1>4. CASE FetchOrders \/ OrdersPage
    BY <1>1, <1>4, ListSteps DEF OrdersPage
  <1>5. CASE CheckHealth \/ HomePage
    BY <1>1, <1>5, HealthSteps DEF HomePage
  <1> QED BY <1>1, <1>2, <1>3, <1>4, <1>5, BackendSteps, ScriptSteps, ProcessSteps, StutterSteps
          DEF Next

LEMMA PageStep == PageInvariant /\ [Next]_vars => PageInvariant'
  BY NextSteps, InvariantByPagesNext DEF StepOK

LEMMA PageInit == Init => PageInvariant
  <1> SUFFICES ASSUME Init PROVE PageInvariant
    OBVIOUS
  <1>1. /\ placed = {} /\ settled = [o \in Orders |-> {}]
        /\ entries = [i \in Instances |-> NoEntries] /\ announced = [o \in Orders |-> {}]
        /\ up = {Gateway} \cup Instances \cup OtherServices
        /\ faults = [kind \in FaultKinds |-> 0] /\ seeds = Seeds /\ page = "home"
        /\ form = NewForm /\ requests = {} /\ tries = {}
        /\ list = NewList /\ fetches = <<>> /\ health = NewHealth /\ checks = <<FirstCheck>>
    BY DEF Init, OutcomeInit
  <1>2. CommonState
    <2>1. Seeds \in Nat
      BY DashboardAssumption
    <2> QED BY <1>1, <2>1 DEF CommonState
  <1>3. OrderState
    <2>1. /\ form \in [loading : BOOLEAN, orderId : Orders \cup {NoOrder}, error : BOOLEAN]
          /\ ~form.loading /\ form.orderId = NoOrder
      BY <1>1 DEF NewForm
    <2>2. CreatedWasPlaced /\ OneRequestAtATime
      BY <1>1, <2>1 DEF CreatedWasPlaced, OneRequestAtATime
    <2>3. PlacedUnseen = {}
      BY <1>1 DEF PlacedUnseen
    <2>4. Cardinality(PlacedUnseen) = 0
      BY <2>3, FS_EmptySet
    <2>5. UnseenTookFault
      BY <1>1, <2>4 DEF UnseenTookFault, FaultKinds
    <2>6. requests \subseteq Requests /\ tries \subseteq Orders /\ IsFiniteSet(tries)
      BY <1>1, FS_EmptySet
    <2> QED BY <2>1, <2>2, <2>5, <2>6 DEF OrderState
  <1>4. ListState
    <2>1. /\ list \in [orders : [Orders -> Statuses], from : Instances \cup {Nobody}, error : BOOLEAN]
          /\ list.orders = NoEntries /\ list.from = Nobody
      BY <1>1, ReplyFacts DEF NewList
    <2>2. MaxFetches \in Nat \ {0}
      BY DashboardAssumption, Zenon
    <2>3. fetches \in Seq(Fetch) /\ Len(fetches) = 0 /\ DOMAIN fetches = {}
      BY <1>1
    <2>4. ListTypes
      <3>1. /\ settled \in [Orders -> SUBSET Outcomes]
            /\ entries \in [Instances -> [Orders -> Statuses]]
        BY <1>1, ReplyFacts
      <3>2. Len(fetches) <= MaxFetches
        BY <2>2, <2>3
      <3> QED BY <2>1, <2>3, <3>1, <3>2 DEF ListTypes
    <2>5. AllJustified
      BY <1>1, <2>1, <2>3, NothingJustified DEF AllJustified
    <2>6. AloneOrOverlapped
      BY <2>3 DEF AloneOrOverlapped
    <2>7. AllKept
      BY <2>1, <2>3, ReplyFacts DEF AllKept, ShownKept
    <2> QED BY <2>4, <2>5, <2>6, <2>7, ListByValues
  <1>5. HomeState
    <2>1. PICK first \in Check : first = FirstCheck /\ first.stage = "gateway"
      BY FirstCheckFacts
    <2>2. /\ <<first>> \in Seq(Check) /\ Len(<<first>>) = 1 /\ DOMAIN <<first>> = {1}
          /\ <<first>>[1] = first
      OBVIOUS
    <2>3. checks = <<first>>
      BY <1>1, <2>1
    <2>4. MaxChecks \in Nat \ {0}
      BY DashboardAssumption, Zenon
    <2>5. ChecksTruthful
      BY <1>1, <2>1, <2>2, <2>3 DEF ChecksTruthful
    <2>6. health \in [Services -> {"unknown", "up", "down"}]
      BY <1>1 DEF NewHealth
    <2>7. up \subseteq Processes
      BY <1>1 DEF Processes
    <2>8. checks \in Seq(Check) /\ Len(checks) <= MaxChecks
      BY <2>2, <2>3, <2>4
    <2> QED BY <2>5, <2>6, <2>7, <2>8 DEF HomeState
  <1> QED BY <1>2, <1>3, <1>4, <1>5, InvariantByPages

(* The order page, the orders page and the home page of any number of orders,  *)
(* instances and services: the page congratulates on placed orders only, its   *)
(* button is disabled exactly while its one request is out, what the orders    *)
(* page shows or is about to show comes from the order, and the checks tell    *)
(* the home page what was so (handleSubmit, fetchOrders, checkServicesHealth). *)
THEOREM PageInvariantHolds == Spec => []PageInvariant
  BY PageInit, PageStep, PTL DEF Spec

-----------------------------------------------------------------------------
(* The properties the invariant is there for *)

(* A customer who stays on the page ends up with at most one order per         *)
(* purchase, and one more for every send that was rejected and every time the  *)
(* gateway died: whatever is placed for the purchase is the order on show or   *)
(* about to be, or was taken for a failure (handleSubmit, createOrder).        *)
THEOREM OneOrderEach == Spec => []OneOrderPerPurchase
  <1>1. ASSUME PageInvariant
        PROVE  OneOrderPerPurchase
    <2>1. CommonState /\ OrderState
      BY <1>1, InvariantByPages
    <2>2. /\ requests \subseteq Requests /\ tries \subseteq Orders /\ IsFiniteSet(tries)
          /\ OneRequestAtATime /\ UnseenTookFault
      BY <2>1 DEF OrderState
    <2>3. PICK bought : bought = tries \cap placed
      OBVIOUS
    <2>4. PICK unseen : unseen = PlacedUnseen
      OBVIOUS
    <2>5. /\ IsFiniteSet(unseen) /\ Cardinality(unseen) \in Nat
          /\ Cardinality(unseen) <= faults["send"] + faults["gateway"]
      BY <2>1, <2>2, <2>4, UnseenFinite DEF UnseenTookFault
    <2>6. faults["send"] \in Nat /\ faults["gateway"] \in Nat
      BY <2>1 DEF CommonState, FaultKinds
    <2>7. ASSUME NEW o \in bought, NEW p \in bought, o \notin unseen, p \notin unseen
          PROVE  o = p
      <3>1. ASSUME NEW x \in bought, x \notin unseen
            PROVE  x = form.orderId \/ \E r \in requests : r.order = x /\ r.mounted
        <4>1. x \in tries /\ x \in placed /\ x \in Orders
          BY <2>2, <2>3
        <4>2. x = form.orderId \/ \E r \in requests : r.order = x /\ r.reply # "error"
          BY <2>4, <3>1, <4>1 DEF PlacedUnseen
        <4>3. ASSUME NEW r \in requests, r.order = x
              PROVE  r.mounted
          BY <2>2, <4>1, <4>3 DEF OneRequestAtATime
        <4> QED BY <4>2, <4>3
      <3>2. ASSUME NEW r \in requests, r.mounted
            PROVE  form.orderId \notin bought
        <4>1. form.orderId = NoOrder
          BY <2>2, <3>2 DEF OneRequestAtATime
        <4>2. NoOrder \notin Orders
          BY DashboardAssumption
        <4> QED BY <2>2, <2>3, <4>1, <4>2
      <3>3. \A r, q \in requests : r.mounted /\ q.mounted => r = q
        BY <2>2 DEF OneRequestAtATime
      <3> QED BY <2>7, <3>1, <3>2, <3>3
    <2>8. \E o : bought \subseteq unseen \cup {o}
      <3>1. CASE bought \subseteq unseen
        BY <3>1
      <3>2. CASE ~(bought \subseteq unseen)
        <4>1. PICK o \in bought : o \notin unseen
          BY <3>2
        <4>2. \A p \in bought : p \in unseen \/ p = o
          BY <2>7, <4>1
        <4> QED BY <4>2
      <3> QED BY <3>1, <3>2
    <2>9. PICK o : bought \subseteq unseen \cup {o}
      BY <2>8
    <2>10. /\ IsFiniteSet(unseen \cup {o})
           /\ Cardinality(unseen \cup {o}) = IF o \in unseen THEN Cardinality(unseen)
                                                            ELSE Cardinality(unseen) + 1
      BY <2>5, FS_AddElement
    <2>11. Cardinality(bought) <= Cardinality(unseen \cup {o}) /\ Cardinality(bought) \in Nat
      BY <2>9, <2>10, FS_Subset, FS_CardinalityType
    <2>12. Cardinality(bought) <= 1 + faults["send"] + faults["gateway"]
      BY <2>5, <2>6, <2>10, <2>11
    <2> QED BY <2>3, <2>12 DEF OneOrderPerPurchase
  <1>2. PageInvariant => OneOrderPerPurchase
    BY <1>1
  <1> QED BY <1>2, PageInvariantHolds, PTL

(* The home page never shows a single service as down (checkServicesHealth).   *)
THEOREM OutageIsHidden == Spec => []ServiceOutageNotShown
  <1>1. Init => ServiceOutageNotShown
    BY DEF Init, NewHealth, ServiceOutageNotShown
  <1>2. ASSUME PageInvariant, ServiceOutageNotShown, [Next]_vars
        PROVE  ServiceOutageNotShown'
    <2>1. StepOK
      BY <1>2, NextSteps
    <2>2. CommonState /\ HomeState
      BY <1>2, InvariantByPages
    <2>3. faults["gateway"] > 0 => faults'["gateway"] > 0
      <3>1. /\ faults["gateway"] \in Nat /\ faults'["gateway"] \in Nat
            /\ faults["gateway"] <= faults'["gateway"]
        BY <2>1, <2>2 DEF StepOK, CommonState, FaultsGrow, FaultKinds
      <3> QED BY <3>1
    <2>4. CASE health' = health
      BY <1>2, <2>3, <2>4 DEF ServiceOutageNotShown
    <2>5. CASE health' = NewHealth
      BY <2>5 DEF NewHealth, ServiceOutageNotShown
    <2>6. ASSUME NEW n \in DOMAIN checks, ReceiveHealth(n)
          PROVE  ServiceOutageNotShown'
      <3>1. \/ \A s \in Services : health'[s] = "up"
            \/ health' = health
            \/ faults["gateway"] > 0 /\ \A s \in Services : health'[s] = "down"
        BY <2>2, <2>6, HealthAfter
      <3> QED BY <2>3, <2>4, <3>1 DEF ServiceOutageNotShown
    <2> QED BY <2>1, <2>4, <2>5, <2>6 DEF StepOK
  <1>3. PageInvariant /\ ServiceOutageNotShown /\ [Next]_vars => ServiceOutageNotShown'
    BY <1>2
  <1> QED BY <1>1, <1>3, PageInvariantHolds, PTL DEF Spec

(* A decision on show changes only when another instance answered, one died or *)
(* got the order again, the answers contradict each other, or responses        *)
(* overtook each other: the response of a request that no other overlapped is  *)
(* at least as new as what it replaces (fetchOrders).                          *)
THEOREM ShownDecisionKept == Spec => ShownDecisionStable
  <1> DEFINE Stable ==
        \A o \in Orders :
          (/\ page' = page
           /\ list.orders[o] \in Outcomes
           /\ list.orders'[o] # list.orders[o])
              => \/ list.from' \in Instances \ {list.from}
                 \/ faults["service"] + faults["redelivery"] > 0
                 \/ settled[o] = Outcomes
                 \/ \E n \in DOMAIN fetches : fetches[n].overlapped
  <1>1. ASSUME PageInvariant, [Next]_vars
        PROVE  Stable
    <2>1. StepOK /\ CommonState /\ ListState
      BY <1>1, NextSteps, InvariantByPages
    <2>2. ListTypes /\ AllJustified /\ AllKept
      BY <2>1, ListByValues
    <2>3. SUFFICES ASSUME NEW o \in Orders, page' = page, list.orders[o] \in Outcomes,
                          list.orders'[o] # list.orders[o],
                          list.from' \notin Instances \ {list.from},
                          ~(faults["service"] + faults["redelivery"] > 0),
                          settled[o] # Outcomes,
                          \A n \in DOMAIN fetches : ~fetches[n].overlapped
                   PROVE  FALSE
      OBVIOUS
    <2>4. PICK n \in DOMAIN fetches : ReceiveOrders(n)
      BY <2>1, <2>3 DEF StepOK
    <2>5. Undisturbed
      BY <2>1, <2>3 DEF Undisturbed, CommonState, FaultKinds
    <2>6. PICK reply : reply = fetches[n].reply
      OBVIOUS
    <2>7. /\ reply \in Answers \cup {Failure}
          /\ reply = Failure => list'.orders = list.orders
          /\ reply \in Answers => list'.orders = reply.orders /\ list'.from = reply.from
      BY <2>1, <2>4, <2>6, ShownAfter
    <2>8. reply \in Answers /\ reply.from \in Instances
      BY <2>3, <2>7 DEF Answers
    <2>9. list.from = reply.from
      BY <2>3, <2>7, <2>8
    <2>10. FetchKept(fetches[n], list, entries) /\ ~fetches[n].overlapped
      BY <2>2, <2>3, <2>5 DEF AllKept
    <2>11. reply.orders[o] \in Outcomes
      BY <2>3, <2>6, <2>8, <2>9, <2>10 DEF FetchKept, DecidedIn
    <2>12. reply.orders[o] \in settled[o] /\ list.orders[o] \in settled[o]
      BY <2>2, <2>3, <2>6, <2>11 DEF AllJustified, JustifiedBy
    <2>13. settled[o] \subseteq Outcomes
      BY <2>2 DEF ListTypes
    <2> QED BY <2>3, <2>7, <2>8, <2>11, <2>12, <2>13 DEF Outcomes
  <1>2. PageInvariant /\ [Next]_vars => [Stable]_vars
    BY <1>1
  <1> QED BY <1>2, PageInvariantHolds, PTL DEF Spec, ShownDecisionStable
=============================================================================
