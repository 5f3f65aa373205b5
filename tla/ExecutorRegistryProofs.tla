------------------------ MODULE ExecutorRegistryProofs ------------------------
(***************************************************************************)
(* What rank and select of module ExecutorRegistry return, for every       *)
(* registry, requirement and set of available executors.                   *)
(***************************************************************************)
EXTENDS ExecutorRegistry, FiniteSetTheorems, WellFoundedInduction, TLAPS

LEMMA LeastNumber ==
  ASSUME NEW T \in SUBSET Nat, T # {}
  PROVE  \E m \in T : \A k \in T : m <= k
<1>1. PICK m \in T : \A k \in T : ~ (<<k, m>> \in OpToRel(<, Nat))
  BY NatLessThanWellFounded, WFMin, Zenon
<1>2. \A k \in T : ~ (k < m)
  BY <1>1 DEF OpToRel
<1> QED
  BY <1>2

LEMMA GreatestNumber ==
  ASSUME NEW n \in Nat, NEW T \in SUBSET (0 .. n), T # {}
  PROVE  \E m \in T : \A k \in T : k <= m
<1> DEFINE U == {n - k : k \in T}
<1>1. PICK u \in U : \A v \in U : u <= v
  <2>1. \A k \in T : n - k \in Nat
    OBVIOUS
  <2>2. U \in SUBSET Nat /\ U # {}
    BY <2>1
  <2> HIDE DEF U
  <2> QED
    BY <2>2, LeastNumber
<1>2. PICK m \in T : u = n - m
  OBVIOUS
<1>3. \A k \in T : n - m <= n - k
  BY <1>1, <1>2
<1>4. \A k \in T : k <= m
  BY <1>3
<1> QED
  BY <1>4

-----------------------------------------------------------------------------
(* The order of rank.                                                      *)

LEMMA PreferenceType ==
  ASSUME NEW P, NEW preferred \in Seq(P), NEW p
  PROVE  Preference(p, preferred) \in 0 .. Len(preferred)
<1> DEFINE at == {i \in DOMAIN preferred : preferred[i] = p}
<1>1. CASE at = {}
  BY <1>1 DEF Preference
<1>2. CASE at # {}
  <2>1. at \in SUBSET (0 .. Len(preferred)) /\ Len(preferred) \in Nat
        /\ \A i \in at : i \in 1 .. Len(preferred)
    OBVIOUS
  <2>2. \E i \in at : \A j \in at : j <= i
    <3> HIDE DEF at
    <3> QED
      BY <1>2, <2>1, GreatestNumber
  <2> DEFINE last == CHOOSE i \in at : \A j \in at : j <= i
  <2>3. last \in at
    BY <2>2
  <2>4. Preference(p, preferred) = 1 + Len(preferred) - last
    BY <1>2 DEF Preference
  <2> QED
    BY <2>1, <2>3, <2>4
<1> QED
  BY <1>1, <1>2

LEMMA ScoreType ==
  ASSUME NEW P, NEW e, NEW req, req.preferred \in Seq(P)
  PROVE  Score(e, req) \in 0 .. 100 * Len(req.preferred) + 9
<1>1. Preference(e.provider, req.preferred) \in 0 .. Len(req.preferred)
  BY PreferenceType
<1>2. Len(req.preferred) \in Nat
  OBVIOUS
<1> QED
  BY <1>1, <1>2 DEF Score

(* rank is a strict total order: two executors are never tied.             *)
LEMMA PrecedesOrder ==
  ASSUME NEW E, NEW registry \in Seq(E), NEW P, NEW req, req.preferred \in Seq(P),
         NEW i \in DOMAIN registry, NEW j \in DOMAIN registry, NEW k \in DOMAIN registry
  PROVE  /\ ~Precedes(registry, req, i, i)
         /\ i = j \/ Precedes(registry, req, i, j) \/ Precedes(registry, req, j, i)
         /\ Precedes(registry, req, i, j) /\ Precedes(registry, req, j, k) =>
              Precedes(registry, req, i, k)
<1>1. \A h \in DOMAIN registry : Score(registry[h], req) \in Int
  <2>1. TAKE h \in DOMAIN registry
  <2>2. Score(registry[h], req) \in 0 .. 100 * Len(req.preferred) + 9
    BY ScoreType
  <2> QED
    BY <2>2
<1>2. i \in Int /\ j \in Int /\ k \in Int
  OBVIOUS
<1> QED
  BY <1>1, <1>2 DEF Precedes

(* Of some executors one is the first.                                     *)
LEMMA FirstOfSome ==
  ASSUME NEW E, NEW registry \in Seq(E), NEW P, NEW req, req.preferred \in Seq(P),
         NEW at \in SUBSET DOMAIN registry, at # {}
  PROVE  \E i \in at : \A j \in at \ {i} : Precedes(registry, req, i, j)
<1> DEFINE scores == {Score(registry[i], req) : i \in at}
           bound == 100 * Len(req.preferred) + 9
<1>1. bound \in Nat /\ scores \in SUBSET (0 .. bound) /\ scores # {}
  <2>1. \A i \in at : Score(registry[i], req) \in 0 .. bound
    BY ScoreType
  <2> QED
    BY <2>1
<1>2. PICK best \in scores : \A s \in scores : s <= best
  <2> HIDE DEF scores, bound
  <2> QED
    BY <1>1, GreatestNumber
<1> DEFINE top == {i \in at : Score(registry[i], req) = best}
<1>3. PICK i \in top : \A j \in top : i <= j
  <2>1. top \in SUBSET Nat /\ top # {}
    BY <1>2
  <2> HIDE DEF top
  <2> QED
    BY <2>1, LeastNumber
<1>4. SUFFICES ASSUME NEW j \in at \ {i} PROVE Precedes(registry, req, i, j)
  BY <1>3
<1>5. Score(registry[j], req) <= best /\ Score(registry[i], req) = best
  BY <1>2, <1>3
<1>6. Score(registry[j], req) \in Int /\ best \in Int
  BY <1>1, ScoreType
<1>7. CASE Score(registry[j], req) = best
  <2>1. i <= j /\ i # j /\ i \in Nat /\ j \in Nat
    BY <1>3, <1>4, <1>7
  <2> QED
    BY <1>5, <1>7, <2>1 DEF Precedes
<1>8. CASE Score(registry[j], req) # best
  BY <1>5, <1>6, <1>8 DEF Precedes
<1> QED
  BY <1>7, <1>8

-----------------------------------------------------------------------------
(* select.                                                                 *)

LEMMA CandidatesFinite ==
  ASSUME NEW E, NEW registry \in Seq(E), NEW req, NEW available \in SUBSET DOMAIN registry
  PROVE  /\ IsFiniteSet(Candidates(registry, req, available))
         /\ Candidates(registry, req, available) \subseteq DOMAIN registry
<1>1. IsFiniteSet(1 .. Len(registry)) /\ DOMAIN registry = 1 .. Len(registry)
  BY FS_Interval
<1> QED
  BY <1>1, FS_Subset DEF Candidates

(* What is selected is of the candidates. *)
LEMMA SelectCandidates ==
  ASSUME NEW registry, NEW req, NEW available, NEW count,
         NEW i \in select(registry, req, available, count)
  PROVE  i \in available /\ Satisfies(registry[i], req)
BY DEF select, Candidates

(* An executor that satisfies the requirement is enough for a route: only  *)
(* then can routing fail, and the workflow with it, when there is none.    *)
THEOREM SelectSome ==
  ASSUME NEW E, NEW registry \in Seq(E), NEW P, NEW req, req.preferred \in Seq(P),
         NEW available \in SUBSET DOMAIN registry, NEW count \in Nat \ {0},
         Candidates(registry, req, available) # {}
  PROVE  select(registry, req, available, count) # {}
<1> DEFINE candidates == Candidates(registry, req, available)
<1>1. candidates \in SUBSET DOMAIN registry
  BY CandidatesFinite
<1>2. PICK i \in candidates : \A j \in candidates \ {i} : Precedes(registry, req, i, j)
  BY <1>1, FirstOfSome
<1>3. \A j \in candidates : ~Precedes(registry, req, j, i)
  BY <1>1, <1>2, PrecedesOrder
<1>4. {j \in candidates : Precedes(registry, req, j, i)} = {}
  BY <1>3
<1>5. Cardinality({j \in candidates : Precedes(registry, req, j, i)}) < count
  <2>1. Cardinality({j \in candidates : Precedes(registry, req, j, i)}) = 0
    BY <1>4, FS_EmptySet, Zenon
  <2> QED
    BY <2>1
<1> QED
  BY <1>2, <1>5 DEF select

(* No more are selected than asked for (ExecutionRegistry.select): their   *)
(* places in the ranking differ and are below count.                       *)
THEOREM SelectAtMost ==
  ASSUME NEW E, NEW registry \in Seq(E), NEW P, NEW req, req.preferred \in Seq(P),
         NEW available \in SUBSET DOMAIN registry, NEW count \in Nat
  PROVE  /\ IsFiniteSet(select(registry, req, available, count))
         /\ Cardinality(select(registry, req, available, count)) <= count
<1> DEFINE candidates == Candidates(registry, req, available)
           before(i) == {j \in candidates : Precedes(registry, req, j, i)}
           chosen == select(registry, req, available, count)
           place == [i \in chosen |-> Cardinality(before(i))]
<1>1. IsFiniteSet(candidates) /\ candidates \subseteq DOMAIN registry
  BY CandidatesFinite
<1>2. \A i \in candidates : IsFiniteSet(before(i)) /\ Cardinality(before(i)) \in Nat
  BY <1>1, FS_Subset, FS_CardinalityType
<1>3. \A i \in chosen : i \in candidates /\ Cardinality(before(i)) < count
  BY DEF select
<1>4. place \in [chosen -> 0 .. count - 1]
  <2>1. ASSUME NEW i \in chosen PROVE Cardinality(before(i)) \in 0 .. count - 1
    <3>1. Cardinality(before(i)) \in Nat /\ Cardinality(before(i)) < count
      BY <1>2, <1>3
    <3> HIDE DEF before
    <3> QED
      BY <3>1
  <2> HIDE DEF before, chosen
  <2> QED
    BY <2>1
<1>5. ASSUME NEW i \in chosen, NEW j \in chosen, Precedes(registry, req, i, j)
      PROVE  place[i] # place[j]
  <2>1. before(i) \subseteq before(j)
    BY <1>1, <1>3, <1>5, PrecedesOrder
  <2>2. i \in before(j) /\ i \notin before(i)
    BY <1>1, <1>3, <1>5, PrecedesOrder
  <2>3. before(i) \in SUBSET before(j) /\ before(i) # before(j) /\ IsFiniteSet(before(j))
    BY <1>2, <1>3, <2>1, <2>2
  <2>4. Cardinality(before(i)) # Cardinality(before(j))
    <3> HIDE DEF before
    <3> QED
      BY <2>3, FS_Subset
  <2> QED
    BY <2>4
<1>6. \A i, j \in chosen : i # j => place[i] # place[j]
  BY <1>1, <1>3, <1>5, PrecedesOrder
<1>7. place \in Injection(chosen, 0 .. count - 1)
  BY <1>4, <1>6 DEF Injection, IsInjective
<1>8. IsFiniteSet(0 .. count - 1) /\ Cardinality(0 .. count - 1) = count
  BY FS_Interval
<1> QED
  <2> HIDE DEF place, chosen
  <2>1. IsFiniteSet(chosen) /\ Cardinality(chosen) <= count
    BY <1>7, <1>8, FS_Injection
  <2> QED
    BY <2>1 DEF chosen

(* What is left out gives way to what is selected, and only when as many   *)
(* were selected as were asked for (ExecutionRegistry.select): no          *)
(* executor that could run is passed over for a lesser one, and none is    *)
(* passed over for nothing.                                                *)
THEOREM SelectBest ==
  ASSUME NEW E, NEW registry \in Seq(E), NEW P, NEW req, req.preferred \in Seq(P),
         NEW available \in SUBSET DOMAIN registry, NEW count \in Nat,
         NEW j \in Candidates(registry, req, available),
         j \notin select(registry, req, available, count)
  PROVE  /\ \A i \in select(registry, req, available, count) : Precedes(registry, req, i, j)
         /\ Cardinality(select(registry, req, available, count)) = count
<1> DEFINE candidates == Candidates(registry, req, available)
           before(i) == {k \in candidates : Precedes(registry, req, k, i)}
           chosen == select(registry, req, available, count)
           left == candidates \ chosen
<1>1. IsFiniteSet(candidates) /\ candidates \subseteq DOMAIN registry
  BY CandidatesFinite
<1>2. \A i \in candidates : IsFiniteSet(before(i)) /\ Cardinality(before(i)) \in Nat
  BY <1>1, FS_Subset, FS_CardinalityType
<1>3. \A i \in candidates : i \in chosen <=> Cardinality(before(i)) < count
  BY DEF select
<1>4. \A i \in chosen : i \in candidates
  BY DEF select
<1>5. ASSUME NEW i \in chosen PROVE Precedes(registry, req, i, j)
  <2>1. SUFFICES ASSUME Precedes(registry, req, j, i) PROVE FALSE
    BY <1>1, <1>4, <1>5, PrecedesOrder
  <2>2. before(j) \in SUBSET before(i)
    BY <1>1, <1>4, <1>5, <2>1, PrecedesOrder
  <2>3. i \in candidates /\ j \in candidates
    BY <1>4, <1>5
  <2>4. Cardinality(before(j)) <= Cardinality(before(i))
    <3>1. IsFiniteSet(before(i))
      BY <1>2, <2>3
    <3> HIDE DEF before
    <3> QED
      BY <2>2, <3>1, FS_Subset
  <2>5. Cardinality(before(i)) < count /\ ~(Cardinality(before(j)) < count)
    BY <1>3, <1>5, <2>3
  <2>6. Cardinality(before(i)) \in Nat /\ Cardinality(before(j)) \in Nat
    BY <1>2, <2>3
  <2> HIDE DEF before
  <2> QED
    BY <2>4, <2>5, <2>6
<1>6. Cardinality(chosen) = count
  <2>1. PICK i \in left : \A k \in left \ {i} : Precedes(registry, req, i, k)
    <3>1. left \in SUBSET DOMAIN registry /\ left # {}
      BY <1>1
    <3> HIDE DEF left
    <3> QED
      BY <3>1, FirstOfSome
  <2>2. before(i) \in SUBSET chosen
    <3>1. SUFFICES ASSUME NEW k \in before(i), k \notin chosen PROVE FALSE
      OBVIOUS
    <3>2. k \in left /\ Precedes(registry, req, k, i)
      BY <3>1
    <3> QED
      BY <1>1, <2>1, <3>2, PrecedesOrder
  <2>3. Cardinality(chosen) \in Nat /\ IsFiniteSet(chosen) /\ Cardinality(chosen) <= count
    BY SelectAtMost, FS_CardinalityType
  <2>4. Cardinality(before(i)) <= Cardinality(chosen)
    <3> HIDE DEF before, chosen
    <3> QED
      BY <2>2, <2>3, FS_Subset
  <2>5. Cardinality(before(i)) \in Nat /\ ~(Cardinality(before(i)) < count)
    BY <1>2, <1>3, <2>1
  <2> HIDE DEF before, chosen
  <2> QED
    BY <2>3, <2>4, <2>5
<1> QED
  BY <1>5, <1>6

(* A preference outweighs every other merit of an executor, whatever is    *)
(* preferred and in which order (ExecutionRegistry.rank): an executor of a *)
(* provider that is preferred more is not left out for one of less.        *)
THEOREM PreferredFirst ==
  ASSUME NEW E, NEW registry \in Seq(E), NEW P, NEW req, req.preferred \in Seq(P),
         NEW available \in SUBSET DOMAIN registry, NEW count \in Nat,
         NEW i \in select(registry, req, available, count),
         NEW j \in Candidates(registry, req, available),
         j \notin select(registry, req, available, count)
  PROVE  Preference(registry[j].provider, req.preferred)
           <= Preference(registry[i].provider, req.preferred)
<1>1. Precedes(registry, req, i, j)
  BY SelectBest
<1>2. /\ Preference(registry[i].provider, req.preferred) \in Int
      /\ Preference(registry[j].provider, req.preferred) \in Int
  <2>1. Len(req.preferred) \in Nat
    OBVIOUS
  <2> QED
    BY <2>1, PreferenceType
<1>3. Score(registry[j], req) <= Score(registry[i], req)
  <2>1. Score(registry[i], req) \in Int /\ Score(registry[j], req) \in Int
    BY <1>2 DEF Score
  <2> QED
    BY <1>1, <2>1 DEF Precedes
<1>4. /\ Score(registry[i], req) <= 100 * Preference(registry[i].provider, req.preferred) + 9
      /\ 100 * Preference(registry[j].provider, req.preferred) <= Score(registry[j], req)
  BY <1>2 DEF Score
<1>5. Score(registry[i], req) \in Int /\ Score(registry[j], req) \in Int
  BY <1>2 DEF Score
<1> QED
  BY <1>2, <1>3, <1>4, <1>5

(* The code sorts the candidates and takes a prefix: ranked[:count].       *)
(* Whatever sorts them, what it takes is what select says.                 *)
THEOREM SelectIsPrefix ==
  ASSUME NEW E, NEW registry \in Seq(E), NEW P, NEW req, req.preferred \in Seq(P),
         NEW available \in SUBSET DOMAIN registry, NEW count \in Nat,
         NEW ranked \in Seq(Candidates(registry, req, available)),
         \A i \in Candidates(registry, req, available) : \E k \in DOMAIN ranked : ranked[k] = i,
         \A k, l \in DOMAIN ranked : k < l => Precedes(registry, req, ranked[k], ranked[l])
  PROVE  select(registry, req, available, count)
           = {ranked[k] : k \in {k \in DOMAIN ranked : k <= count}}
<1> DEFINE candidates == Candidates(registry, req, available)
           before(i) == {j \in candidates : Precedes(registry, req, j, i)}
<1>1. candidates \subseteq DOMAIN registry
  BY CandidatesFinite
<1>2. DOMAIN ranked = 1 .. Len(ranked) /\ Len(ranked) \in Nat /\ \A k \in DOMAIN ranked : ranked[k] \in candidates
  OBVIOUS
<1>3. \A k, l \in DOMAIN ranked : Precedes(registry, req, ranked[k], ranked[l]) => k < l
  <2>1. SUFFICES ASSUME NEW k \in DOMAIN ranked, NEW l \in DOMAIN ranked,
                        Precedes(registry, req, ranked[k], ranked[l]), ~(k < l)
                 PROVE  FALSE
    OBVIOUS
  <2>2. ranked[k] \in DOMAIN registry /\ ranked[l] \in DOMAIN registry
    BY <1>1, <1>2, <2>1
  <2>3. k = l \/ Precedes(registry, req, ranked[l], ranked[k])
    BY <1>2, <2>1
  <2>4. ~Precedes(registry, req, ranked[k], ranked[k])
    BY <2>2, PrecedesOrder
  <2>5. ~(Precedes(registry, req, ranked[k], ranked[l]) /\ Precedes(registry, req, ranked[l], ranked[k]))
    BY <2>2, <2>4, PrecedesOrder
  <2> QED
    BY <2>1, <2>3, <2>4, <2>5
<1>4. ASSUME NEW k \in DOMAIN ranked PROVE Cardinality(before(ranked[k])) = k - 1
  <2> DEFINE place == [l \in 1 .. (k - 1) |-> ranked[l]]
  <2>1. k \in 1 .. Len(ranked) /\ 1 .. (k - 1) \subseteq DOMAIN ranked
    BY <1>2, <1>4
  <2>2. \A l \in 1 .. (k - 1) : place[l] \in before(ranked[k])
    BY <1>2, <2>1
  <2>3. \A l, m \in 1 .. (k - 1) : place[l] = place[m] => l = m
    <3>1. SUFFICES ASSUME NEW l \in 1 .. (k - 1), NEW m \in 1 .. (k - 1), l < m,
                          ranked[l] = ranked[m]
                   PROVE  FALSE
      BY <2>1
    <3>2. Precedes(registry, req, ranked[l], ranked[m]) /\ ranked[l] \in DOMAIN registry
      BY <1>1, <1>2, <2>1, <3>1
    <3> QED
      BY <3>1, <3>2, PrecedesOrder
  <2>4. \A j \in before(ranked[k]) : \E l \in 1 .. (k - 1) : place[l] = j
    <3>1. TAKE j \in before(ranked[k])
    <3>2. PICK l \in DOMAIN ranked : ranked[l] = j
      OBVIOUS
    <3>3. l < k
      BY <1>3, <1>4, <3>2
    <3>4. l \in 1 .. (k - 1)
      BY <1>2, <2>1, <3>3
    <3> QED
      BY <3>2, <3>4
  <2>5. place \in Bijection(1 .. (k - 1), before(ranked[k]))
    <3>1. place \in [1 .. (k - 1) -> before(ranked[k])]
      BY <2>2
    <3> HIDE DEF place, before
    <3> QED
      BY <2>3, <2>4, <3>1 DEF Bijection, Injection, Surjection, IsInjective
  <2>6. IsFiniteSet(1 .. (k - 1)) /\ Cardinality(1 .. (k - 1)) = k - 1
    <3>1. 1 \in Int /\ k - 1 \in Int /\ (IF 1 > k - 1 THEN 0 ELSE (k - 1) - 1 + 1) = k - 1
      BY <1>2, <2>1
    <3> QED
      BY <3>1, FS_Interval, Zenon
  <2>7. ExistsBijection(1 .. (k - 1), before(ranked[k]))
    BY <2>5, Zenon DEF ExistsBijection
  <2> HIDE DEF place, before
  <2> QED
    BY <2>6, <2>7, FS_Bijection, Zenon
<1>5. \A k \in DOMAIN ranked : ranked[k] \in select(registry, req, available, count) <=> k <= count
  <2>1. TAKE k \in DOMAIN ranked
  <2>2. Cardinality(before(ranked[k])) < count <=> k <= count
    <3>1. k \in Int
      BY <1>2
    <3>2. Cardinality(before(ranked[k])) = k - 1
      BY <1>4
    <3> HIDE DEF before
    <3> QED
      BY <3>1, <3>2
  <2> QED
    BY <1>2, <2>2 DEF select
<1>6. \A i \in select(registry, req, available, count) : \E k \in DOMAIN ranked : ranked[k] = i
  BY DEF select
<1> QED
  BY <1>5, <1>6
=============================================================================
