--------------------------- MODULE TemplatesProofs ---------------------------
(* What holds of the functions that templates call, whatever MO keeps of a   *)
(* person, however units are nested, and for any number of renderings.       *)
EXTENDS Templates, FunctionTheorems, FiniteSetTheorems, WellFoundedInduction, TLAPS

-----------------------------------------------------------------------------
(* Finite sets: a family of subsets has a minimal one; hence values have a    *)
(* greatest, and a cardinality of at most one is what it says.               *)

LEMMA MinimalSubset ==
  ASSUME NEW S, IsFiniteSet(S), NEW Q \in SUBSET (SUBSET S), Q # {}
  PROVE  \E x \in Q : \A y \in Q : y \subseteq x => y = x
<1>1. Q \subseteq FiniteSubsetsOf(S)
  BY FS_Subset DEF FiniteSubsetsOf
<1>2. \E x \in Q : \A y \in Q : ~(<<y, x>> \in StrictSubsetOrdering(S))
  BY <1>1, FS_StrictSubsetOrderingWellFounded, WFMin
<1> QED
  BY <1>2 DEF StrictSubsetOrdering

LEMMA GreatestExists ==
  ASSUME NEW S, IsFiniteSet(S), S # {}, NEW f, \A x \in S : f[x] \in Nat
  PROVE  \E x \in S : \A y \in S : f[y] <= f[x]
<1> DEFINE Above(x) == {y \in S : f[x] <= f[y]}
           Q == {Above(x) : x \in S}
<1>1. Q \in SUBSET (SUBSET S) /\ Q # {}
  OBVIOUS
<1>2. PICK T \in Q : \A U \in Q : U \subseteq T => U = T
  <2> HIDE DEF Q
  <2> QED
    BY <1>1, MinimalSubset
<1>3. PICK x \in S : T = Above(x)
  OBVIOUS
<1>4. ASSUME NEW y \in S, f[x] < f[y]
      PROVE  FALSE
  <2>1. Above(y) \subseteq Above(x)
    BY <1>4
  <2>2. Above(y) = Above(x)
    BY <1>2, <1>3, <2>1
  <2>3. x \in Above(x) /\ x \notin Above(y)
    BY <1>4
  <2> QED
    BY <2>2, <2>3
<1> QED
  BY <1>4

LEMMA GreatestNumber ==
  ASSUME NEW S \in SUBSET Nat, IsFiniteSet(S), S # {}
  PROVE  \E x \in S : \A y \in S : y <= x
<1> DEFINE f == [x \in S |-> x]
<1>1. \A x \in S : f[x] \in Nat
  OBVIOUS
<1>2. \E x \in S : \A y \in S : f[y] <= f[x]
  <2> HIDE DEF f
  <2> QED
    BY <1>1, GreatestExists
<1> QED
  BY <1>2

LEMMA LeastNumber ==
  ASSUME NEW S \in SUBSET Nat, S # {}
  PROVE  \E x \in S : \A y \in S : x <= y
<1>1. PICK n \in S : TRUE
  OBVIOUS
<1> DEFINE N == 0 .. n
           Below(x) == 0 .. x
           Q == {Below(x) : x \in {y \in S : y <= n}}
<1>2. IsFiniteSet(N)
  BY FS_Interval
<1>3. Q \in SUBSET (SUBSET N) /\ Q # {}
  BY <1>1
<1>4. PICK T \in Q : \A U \in Q : U \subseteq T => U = T
  <2> HIDE DEF Q, N
  <2> QED
    BY <1>2, <1>3, MinimalSubset
<1>5. PICK x \in S : x <= n /\ T = Below(x)
  OBVIOUS
<1>6. ASSUME NEW y \in S, y < x
      PROVE  FALSE
  <2>1. Below(y) \in Q /\ Below(y) \subseteq Below(x) /\ x \in Below(x) /\ x \notin Below(y)
    BY <1>5, <1>6
  <2> QED
    BY <1>4, <1>5, <2>1
<1> QED
  BY <1>6

LEMMA AtMostOne ==
  ASSUME NEW S, IsFiniteSet(S)
  PROVE  Cardinality(S) <= 1 <=> \A v, w \in S : v = w
<1>1. Cardinality(S) \in Nat
  BY FS_CardinalityType
<1>2. ASSUME Cardinality(S) <= 1, NEW v \in S, NEW w \in S
      PROVE  v = w
  <2>1. Cardinality(S) = 0 \/ Cardinality(S) = 1
    BY <1>1, <1>2
  <2> QED
    BY <1>2, <2>1, FS_EmptySet, FS_Singleton
<1>3. ASSUME \A v, w \in S : v = w
      PROVE  Cardinality(S) <= 1
  <2>1. S = {} \/ \E x : S = {x}
    BY <1>3
  <2> QED
    BY <2>1, FS_EmptySet, FS_Singleton
<1> QED
  BY <1>2, <1>3

-----------------------------------------------------------------------------
(* Validities of one person: what a choice among some of them returns.       *)

Ordered(S) == \A v \in S : v.from < v.to

\* The instance's names for what FiniteSets defines.
LEMMA SameCounts ==
  /\ \A S : Lookups!IsFiniteSet(S) <=> IsFiniteSet(S)
  /\ \A S : Lookups!Cardinality(S) = Cardinality(S)
  BY DEF Lookups!IsFiniteSet, IsFiniteSet, Lookups!Cardinality, Cardinality

LEMMA Assumed ==
  /\ IsFiniteSet(Engagements) /\ IsFiniteSet(Addresses) /\ Engagements \cap Addresses = {}
  /\ LastDay \in Nat \ {0} /\ Today \in 1 .. LastDay
  /\ Rank \in [Engagements -> Nat]
  /\ \A d, e \in Engagements : Rank[d] = Rank[e] => d = e
  BY TemplatesAssumption, SameCounts DEF Lookups!LookupsAssumption

LEMMA Numbers ==
  /\ Lookups!Forever \in Nat
  /\ \A d \in Lookups!Days : d \in Nat
  /\ \A v \in Lookups!Validities : v.from \in Nat /\ v.to \in Nat /\ v.from \in Lookups!Days
  BY Assumed DEF Lookups!Forever, Lookups!Days, Lookups!Validities

LEMMA FiniteValidities == IsFiniteSet(Lookups!Validities)
<1> DEFINE ends == Lookups!Days \cup {Lookups!Forever}
           P == (Lookups!Uuids \X Lookups!Days) \X (ends \X Lookups!Marks)
           f == [p \in P |-> [uuid |-> p[1][1], from |-> p[1][2], to |-> p[2][1], primary |-> p[2][2]]]
<1>1. IsFiniteSet(Lookups!Uuids)
  BY Assumed, FS_Union DEF Lookups!Uuids
<1>2. IsFiniteSet(Lookups!Days)
  BY Assumed, FS_Interval DEF Lookups!Days
<1>3. IsFiniteSet(ends)
  BY <1>2, FS_AddElement
<1>4. IsFiniteSet(Lookups!Marks)
  <2>1. IsFiniteSet({"no"}) /\ IsFiniteSet({"no"} \cup {"calculated"})
    BY FS_Singleton, FS_AddElement
  <2>2. IsFiniteSet(({"no"} \cup {"calculated"}) \cup {"explicit"})
    BY <2>1, FS_AddElement
  <2>3. Lookups!Marks = ({"no"} \cup {"calculated"}) \cup {"explicit"}
    BY DEF Lookups!Marks
  <2> QED
    BY <2>2, <2>3
<1> HIDE DEF ends
<1>5. IsFiniteSet(Lookups!Uuids \X Lookups!Days) /\ IsFiniteSet(ends \X Lookups!Marks)
  BY <1>1, <1>2, <1>3, <1>4, FS_Product
<1>6. IsFiniteSet(P)
  BY <1>5, FS_Product
<1>7. f \in Surjection(P, Lookups!Validities)
  <2>1. f \in [P -> Lookups!Validities]
    BY DEF Lookups!Validities, ends
  <2>2. ASSUME NEW v \in Lookups!Validities
        PROVE  \E p \in P : f[p] = v
    <3> DEFINE q == <<<<v.uuid, v.from>>, <<v.to, v.primary>>>>
    <3>1. q \in P
      BY DEF Lookups!Validities, ends
    <3>2. f[q] = v
      BY <3>1 DEF Lookups!Validities
    <3> QED
      BY <3>1, <3>2
  <2> QED
    BY <2>1, <2>2 DEF Surjection
<1> QED
  BY <1>6, <1>7, FS_Surjection

LEMMA FiniteSome ==
  ASSUME NEW S \in SUBSET Lookups!Validities
  PROVE  IsFiniteSet(S) /\ IsFiniteSet(Lookups!Current(S)) /\ Lookups!Current(S) \subseteq S
  BY FiniteValidities, FS_Subset DEF Lookups!Current

LEMMA Ambiguity ==
  ASSUME NEW S \in SUBSET Lookups!Validities
  PROVE  Lookups!Ambiguous(S) <=> \E v, w \in Lookups!Current(S) : v # w
<1>1. /\ Cardinality(Lookups!Current(S)) <= 1 <=> \A v, w \in Lookups!Current(S) : v = w
      /\ Cardinality(S) <= 1 <=> \A v, w \in S : v = w
      /\ Cardinality(S) \in Nat /\ Cardinality(Lookups!Current(S)) \in Nat
  BY FiniteSome, AtMostOne, FS_CardinalityType
<1>2. Lookups!Current(S) \subseteq S
  BY FiniteSome
<1> QED
  BY <1>1, <1>2, SameCounts DEF Lookups!Ambiguous

\* Extract returns current validities, and without any those that end last.
LEMMA Extracts ==
  ASSUME NEW S \in SUBSET Lookups!Validities, NEW v \in Lookups!Extract(S)
  PROVE  /\ v \in S
         /\ Lookups!Current(S) # {} => v \in Lookups!Current(S)
         /\ Lookups!Current(S) = {} => \A w \in S : w.to <= v.to
<1>1. Cardinality(S) <= 1 <=> \A x, w \in S : x = w
  BY FiniteSome, AtMostOne
<1>2. Lookups!Current(S) \subseteq S
  BY FiniteSome
<1>3. \A w \in S : w.to \in Nat
  BY Numbers
<1>4. CASE Cardinality(S) <= 1
  <2>1. v \in S
    BY <1>4, SameCounts DEF Lookups!Extract
  <2> QED
    BY <1>1, <1>2, <1>3, <1>4, <2>1
<1>5. CASE ~(Cardinality(S) <= 1)
  BY <1>2, <1>5, SameCounts DEF Lookups!Extract, Lookups!Latest
<1> QED
  BY <1>4, <1>5

\* Of one object at most one validity is current.
LEMMA OneIsCurrent ==
  ASSUME NEW S \in SUBSET Lookups!Validities, Lookups!IsTimeline(S), today \in Lookups!Days,
         NEW v \in Lookups!Current(S), NEW w \in Lookups!Current(S), v.uuid = w.uuid
  PROVE  v = w
<1>1. v \in S /\ w \in S /\ v.from \in Nat /\ v.to \in Nat /\ w.from \in Nat /\ w.to \in Nat /\ today \in Nat
  BY Numbers, FiniteSome
<1> QED
  BY <1>1 DEF Lookups!Current, Lookups!IsCurrent, Lookups!Covers, Lookups!IsTimeline, Lookups!Overlap

-----------------------------------------------------------------------------
(* A person whose primaries are calculated.                                  *)

LEMMA GreatestIs ==
  ASSUME NEW S \in SUBSET Nat, IsFiniteSet(S), S # {}
  PROVE  Lookups!Max(S) \in S /\ \A y \in S : y <= Lookups!Max(S)
<1>1. \E x \in S : \A y \in S : x >= y
  BY GreatestNumber
<1> QED
  BY <1>1 DEF Lookups!Max

LEMMA LeastIs ==
  ASSUME NEW S \in SUBSET Nat, S # {}
  PROVE  Lookups!Min(S) \in S /\ \A y \in S : Lookups!Min(S) <= y
<1>1. \E x \in S : \A y \in S : x <= y
  BY LeastNumber
<1> QED
  BY <1>1 DEF Lookups!Min

\* The last of them ends then.
LEMMA EmploymentEnds ==
  ASSUME NEW S \in SUBSET Lookups!Validities, S # {}, today \in Lookups!Days
  PROVE  Lookups!EmploymentInterval(S).to <= today <=> \A v \in S : v.to <= today
<1> DEFINE T == {v.to : v \in S}
<1>1. T \in SUBSET Nat /\ T # {} /\ today \in Nat
  BY Numbers
<1>2. IsFiniteSet(T)
  <2> DEFINE f == [v \in S |-> v.to]
  <2>1. f \in Surjection(S, T)
    BY DEF Surjection
  <2>2. IsFiniteSet(S)
    BY FiniteSome
  <2> QED
    BY <2>1, <2>2, FS_Surjection
<1>3. Lookups!EmploymentInterval(S).to = Lookups!Max(T)
  BY DEF Lookups!EmploymentInterval
<1> HIDE DEF T
<1>4. Lookups!Max(T) \in T /\ \A y \in T : y <= Lookups!Max(T)
  BY <1>1, <1>2, GreatestIs
<1>5. Lookups!Max(T) <= today <=> \A y \in T : y <= today
  <2> DEFINE m == Lookups!Max(T)
  <2> HIDE DEF m
  <2>1. m \in T /\ (\A y \in T : y <= m) /\ \A y \in T : y \in Nat
    BY <1>1, <1>4 DEF m
  <2>2. m <= today <=> \A y \in T : y <= today
    BY <1>1, <2>1
  <2> QED
    BY <2>2 DEF m
<1> QED
  BY <1>3, <1>5 DEF T

\* On each day on which a person is engaged, exactly one validity is primary.
LEMMA OnePrimary ==
  ASSUME NEW S \in SUBSET Lookups!Validities, Lookups!IsTimeline(S), Lookups!Calculated(S),
         \A v \in S : v.uuid \in Engagements,
         NEW d \in Lookups!Days, NEW w \in S, Lookups!Covers(w, d)
  PROVE  \E x \in S :
           /\ Lookups!IsPrimary(x) /\ Lookups!Covers(x, d)
           /\ \A y \in S : Lookups!IsPrimary(y) /\ Lookups!Covers(y, d) => y = x
<1> DEFINE cover == {v \in S : Lookups!Covers(v, d)}
           f == [v \in cover |-> Rank[v.uuid]]
<1>1. {v \in cover : Lookups!IsPrimary(v)} = Lookups!Best(cover)
  BY DEF Lookups!Calculated
<1>2. IsFiniteSet(cover) /\ cover # {}
  BY FiniteSome, FS_Subset
<1>3. \A v \in cover : Rank[v.uuid] \in Nat
  BY Assumed
<1>4. PICK x \in cover : \A y \in cover : Rank[y.uuid] <= Rank[x.uuid]
  <2>1. \E x \in cover : \A y \in cover : f[y] <= f[x]
    <3>1. \A v \in cover : f[v] \in Nat
      BY <1>3
    <3> HIDE DEF f, cover
    <3> QED
      BY <1>2, <3>1, GreatestExists
  <2> QED
    BY <2>1
<1>5. x \in Lookups!Best(cover)
  BY <1>4 DEF Lookups!Best
<1>6. ASSUME NEW y \in cover, Lookups!IsPrimary(y)
      PROVE  y = x
  <2>1. y \in Lookups!Best(cover)
    BY <1>1, <1>6
  <2>2. Rank[x.uuid] <= Rank[y.uuid] /\ Rank[y.uuid] <= Rank[x.uuid]
    BY <1>4, <2>1 DEF Lookups!Best
  <2>3. x.uuid = y.uuid
    BY <1>3, <2>2, Assumed
  <2>4. /\ x.from <= d /\ d < x.to /\ y.from <= d /\ d < y.to
        /\ x.from \in Nat /\ x.to \in Nat /\ y.from \in Nat /\ y.to \in Nat /\ d \in Nat
    BY Numbers DEF Lookups!Covers
  <2>5. Lookups!Overlap(x, y)
    BY <2>4 DEF Lookups!Overlap
  <2> QED
    BY <2>3, <2>5 DEF Lookups!IsTimeline
<1>7. Lookups!IsPrimary(x)
  BY <1>1, <1>5
<1> QED
  BY <1>6, <1>7

-----------------------------------------------------------------------------
(* The invariant of a look-up.                                               *)

\* Chosen by what the first request returned.
ChosenFrom(S) ==
  /\ ~Lookups!Ambiguous(S)
  /\ \E v \in Lookups!Extract(S) : chosen = {v.uuid}

LookupInv ==
  /\ Lookups!TypeOK
  /\ Ordered(mo) /\ Ordered(seen)
  /\ lookup = "ask" => chosen = {}
  /\ lookup = "choose" => kind = "unit address"
  /\ lookup = "load" => kind # "recalculated"
  /\ lookup = "compute" =>
       /\ kind = "recalculated" /\ seen # {}
       /\ \A v \in seen : today <= v.to
  /\ outcome # "empty"
  /\ ~disturbed =>
       /\ Lookups!IsTimeline(mo)
       /\ lookup = "load" =>
            IF kind = "engagement" THEN \E e \in Engagements : chosen = {e}
            ELSE ChosenFrom(Lookups!Candidates)
       /\ lookup = "compute" => seen = Lookups!ReadEngagements

LookupGood == Lookups!CurrentServed /\ Lookups!NoneWhenLeft /\ Lookups!AgreesWithCalculated

\* What MO keeps of one object at first.
LEMMA TimelinesAre ==
  ASSUME NEW u \in Lookups!Uuids, NEW marks \in SUBSET Lookups!Marks,
         NEW S \in Lookups!Timelines(u, marks)
  PROVE  /\ S \subseteq Lookups!Validities /\ Ordered(S) /\ Lookups!IsTimeline(S)
         /\ \A v \in S : v.uuid = u
<1> DEFINE V == {[uuid |-> u, from |-> i.from, to |-> i.to, primary |-> m] :
                    i \in Lookups!Intervals, m \in marks}
<1>1. ASSUME NEW v \in V
      PROVE  v \in Lookups!Validities /\ v.from < v.to /\ v.uuid = u
  <2>1. PICK i \in Lookups!Intervals, m \in marks :
           v = [uuid |-> u, from |-> i.from, to |-> i.to, primary |-> m]
    OBVIOUS
  <2>2. i.from \in Lookups!Days /\ i.to \in Lookups!Days \cup {Lookups!Forever} /\ i.from < i.to
    BY DEF Lookups!Intervals
  <2> QED
    BY <2>1, <2>2 DEF Lookups!Validities
<1>2. S = {} \/ ((\E v, w \in V : S = {v, w}) /\ Lookups!IsTimeline(S))
  <2> DEFINE pairs == {{v, w} : v, w \in V}
  <2>1. S \in {{}} \cup {R \in pairs : Lookups!IsTimeline(R)}
    BY DEF Lookups!Timelines
  <2>2. \A R \in pairs : \E v, w \in V : R = {v, w}
    OBVIOUS
  <2> HIDE DEF pairs, V
  <2> QED
    BY <2>1, <2>2
<1> HIDE DEF V
<1>3. CASE S = {}
  BY <1>3 DEF Ordered, Lookups!IsTimeline
<1>4. CASE S # {}
  BY <1>1, <1>2, <1>4 DEF Ordered
<1> QED
  BY <1>3, <1>4

LEMMA ObjectsAre ==
  ASSUME NEW k, NEW u \in Lookups!Uuids, NEW S \in Lookups!Objects(k, u)
  PROVE  /\ S \subseteq Lookups!Validities /\ Ordered(S) /\ Lookups!IsTimeline(S)
         /\ \A v \in S : v.uuid = u
<1>1. \/ S = {}
      \/ S \in Lookups!Timelines(u, {"no", "calculated"})
      \/ S \in Lookups!Timelines(u, Lookups!Marks)
      \/ S \in Lookups!Timelines(u, {"no"})
  BY DEF Lookups!Objects
<1>2. CASE S = {}
  BY <1>2 DEF Ordered, Lookups!IsTimeline
<1>3. {"no", "calculated"} \subseteq Lookups!Marks /\ {"no"} \subseteq Lookups!Marks
  BY DEF Lookups!Marks
<1> QED
  BY <1>1, <1>2, <1>3, TimelinesAre

LEMMA KeptAre ==
  ASSUME NEW k, NEW uuids \in SUBSET Lookups!Uuids, NEW S \in Lookups!Kept(k, uuids)
  PROVE  /\ S \subseteq Lookups!Validities /\ Ordered(S) /\ Lookups!IsTimeline(S)
         /\ \A v \in S : v.uuid \in uuids
<1>1. PICK F \in [uuids -> UNION {Lookups!Objects(k, u) : u \in uuids}] :
         /\ \A u \in uuids : F[u] \in Lookups!Objects(k, u)
         /\ S = UNION {F[u] : u \in uuids}
  BY DEF Lookups!Kept
<1>2. \A u \in uuids :
         /\ F[u] \subseteq Lookups!Validities /\ Ordered(F[u]) /\ Lookups!IsTimeline(F[u])
         /\ \A v \in F[u] : v.uuid = u
  BY <1>1, ObjectsAre
<1>3. \A v \in S : v.uuid \in uuids /\ v \in F[v.uuid]
  BY <1>1, <1>2
<1>4. S \subseteq Lookups!Validities /\ Ordered(S)
  BY <1>2, <1>3 DEF Ordered
<1>5. Lookups!IsTimeline(S)
  BY <1>2, <1>3 DEF Lookups!IsTimeline
<1> QED
  BY <1>3, <1>4, <1>5

LEMMA LookupInit ==
  ASSUME Lookups!Init
  PROVE  LookupInv
<1>1. PICK S \in Lookups!Kept(kind, Engagements), T \in Lookups!Kept(kind, Addresses) : mo = S \cup T
  BY DEF Lookups!Init
<1>2. Engagements \subseteq Lookups!Uuids /\ Addresses \subseteq Lookups!Uuids
  BY DEF Lookups!Uuids
<1>3. /\ S \subseteq Lookups!Validities /\ Ordered(S) /\ Lookups!IsTimeline(S)
      /\ \A v \in S : v.uuid \in Engagements
  BY <1>2, KeptAre
<1>4. /\ T \subseteq Lookups!Validities /\ Ordered(T) /\ Lookups!IsTimeline(T)
      /\ \A v \in T : v.uuid \in Addresses
  BY <1>2, KeptAre
<1>5. mo \subseteq Lookups!Validities /\ Ordered(mo) /\ Lookups!IsTimeline(mo)
  BY <1>1, <1>3, <1>4, Assumed DEF Ordered, Lookups!IsTimeline
<1>6. Lookups!TypeOK
  <2>1. keep \in BOOLEAN
    <3>1. keep \in IF kind \in {"primary", "ituser", "current ituser"} THEN BOOLEAN ELSE {FALSE}
      BY DEF Lookups!Init
    <3> QED
      BY <3>1, Zenon
  <2>2. /\ today = Today /\ kind \in Lookups!Kinds /\ lookup = "ask" /\ outcome = "none"
        /\ chosen = {} /\ seen = {} /\ found = {} /\ disturbed = FALSE
    BY DEF Lookups!Init
  <2> QED
    BY <1>5, <2>1, <2>2, Assumed DEF Lookups!TypeOK, Lookups!Days
<1> QED
  BY <1>5, <1>6 DEF LookupInv, Lookups!Init, Ordered

\* The person whose manager is wanted.
LEMMA EmployedInit ==
  ASSUME \/ PrimaryOf({})
         \/ \E e \in Engagements : PrimaryOf({Employed(e)})
  PROVE  LookupInv
<1>1. /\ mo \subseteq Lookups!Validities /\ Ordered(mo) /\ Lookups!IsTimeline(mo)
  <2>1. ASSUME NEW e \in Engagements
        PROVE  Employed(e) \in Lookups!Validities /\ Employed(e).from < Employed(e).to
    BY Assumed DEF Employed, Lookups!Validities, Lookups!Uuids, Lookups!Days, Lookups!Forever, Lookups!Marks
  <2> QED
    BY <2>1 DEF PrimaryOf, Ordered, Lookups!IsTimeline
<1>2. Lookups!TypeOK
  BY <1>1, Assumed DEF PrimaryOf, Lookups!TypeOK, Lookups!Days, Lookups!Kinds
<1> QED
  BY <1>1, <1>2 DEF LookupInv, PrimaryOf, Ordered

-----------------------------------------------------------------------------
(* Each step of a look-up.                                                   *)

LEMMA SameLookup ==
  ASSUME today' = today, mo' = mo, kind' = kind
  PROVE  /\ \A S : Lookups!Current(S)' = Lookups!Current(S)
         /\ \A S : Lookups!Ambiguous(S)' = Lookups!Ambiguous(S)
         /\ \A S : Lookups!Extract(S)' = Lookups!Extract(S)
         /\ kind # "engagement" \/ chosen' = chosen => Lookups!Candidates' = Lookups!Candidates
         /\ Lookups!ReadEngagements' = Lookups!ReadEngagements
         /\ Lookups!IsTimeline(mo)' = Lookups!IsTimeline(mo)
<1>1. \A S : Lookups!Current(S)' = Lookups!Current(S)
  BY DEF Lookups!Current, Lookups!IsCurrent
<1>2. \A S : Lookups!Ambiguous(S)' = Lookups!Ambiguous(S)
  BY <1>1 DEF Lookups!Ambiguous
<1>3. \A S : Lookups!Extract(S)' = Lookups!Extract(S)
  BY <1>1 DEF Lookups!Extract
<1>4. kind # "engagement" \/ chosen' = chosen => Lookups!Candidates' = Lookups!Candidates
  BY DEF Lookups!Candidates
<1>5. Lookups!ReadEngagements' = Lookups!ReadEngagements
  BY DEF Lookups!ReadEngagements
<1> QED
  BY <1>1, <1>2, <1>3, <1>4, <1>5

\* What is chosen from is what the answer is to be among.
LEMMA SameCandidates ==
  ASSUME today' = today, mo' = mo, kind' = kind, kind # "engagement" \/ chosen' = chosen
  PROVE  /\ ChosenFrom(Lookups!Candidates)' <=>
              /\ ~Lookups!Ambiguous(Lookups!Candidates)
              /\ \E v \in Lookups!Extract(Lookups!Candidates) : chosen' = {v.uuid}
         /\ Lookups!Current(Lookups!Candidates)' = Lookups!Current(Lookups!Candidates)
<1> DEFINE C == Lookups!Candidates
<1>1. C' = C
  BY SameLookup
<1>2. /\ \A S : Lookups!Current(S)' = Lookups!Current(S)
      /\ \A S : Lookups!Ambiguous(S)' = Lookups!Ambiguous(S)
      /\ \A S : Lookups!Extract(S)' = Lookups!Extract(S)
  BY SameLookup
<1>3. Lookups!Ambiguous(C)' = Lookups!Ambiguous(C)
  BY <1>1, <1>2
<1>4. Lookups!Extract(C)' = Lookups!Extract(C)
  BY <1>1, <1>2
<1>5. Lookups!Current(C)' = Lookups!Current(C)
  BY <1>1, <1>2
<1> QED
  BY <1>3, <1>4, <1>5 DEF ChosenFrom

LEMMA CandidatesTyped ==
  ASSUME Lookups!TypeOK
  PROVE  /\ Lookups!Candidates \in SUBSET Lookups!Validities
         /\ Lookups!Candidates \subseteq mo
         /\ kind = "primary" => \A v \in Lookups!Candidates : v.uuid \in Engagements
  BY DEF Lookups!TypeOK, Lookups!Candidates, Lookups!Of

LEMMA CurrentCounted ==
  ASSUME NEW C \in SUBSET Lookups!Validities
  PROVE  /\ Lookups!Cardinality(Lookups!Current(C)) = 1 <=> \E x : Lookups!Current(C) = {x}
         /\ ~Lookups!Ambiguous(C) => Lookups!Cardinality(Lookups!Current(C)) <= 1
         /\ C = {} \/ Lookups!Ambiguous(C) => Lookups!Cardinality(Lookups!Current(C)) # 1
<1>1. IsFiniteSet(Lookups!Current(C)) /\ Lookups!Current(C) \subseteq C
  BY FiniteSome
<1>2. Lookups!Cardinality(Lookups!Current(C)) = 1 <=> \E x : Lookups!Current(C) = {x}
  BY <1>1, SameCounts, FS_Singleton
<1>3. Lookups!Ambiguous(C) <=> \E v, w \in Lookups!Current(C) : v # w
  BY Ambiguity
<1>4. Lookups!Cardinality(Lookups!Current(C)) <= 1 <=> \A v, w \in Lookups!Current(C) : v = w
  BY <1>1, SameCounts, AtMostOne
<1> QED
  BY <1>1, <1>2, <1>3, <1>4

\* As long as there is no answer, there is nothing to say of it.
LEMMA NoAnswerYet ==
  ASSUME lookup' # "answered", outcome' # "empty"
  PROVE  LookupGood'
  BY DEF LookupGood, Lookups!CurrentServed, Lookups!NoneWhenLeft, Lookups!AgreesWithCalculated,
         Lookups!Undisturbed

Chosen(S) == {{v.uuid} : v \in Lookups!Extract(S)}

LEMMA ChosenTyped ==
  ASSUME Lookups!TypeOK, NEW S \in SUBSET Lookups!Validities, NEW c \in Chosen(S)
  PROVE  /\ c \subseteq Lookups!Uuids
         /\ \E v \in Lookups!Extract(S) : c = {v.uuid}
<1>1. PICK v \in Lookups!Extract(S) : c = {v.uuid}
  BY DEF Chosen
<1>2. v \in Lookups!Validities
  BY Extracts
<1> QED
  BY <1>1, <1>2 DEF Lookups!Validities

LEMMA GetPrimaryKeeps ==
  ASSUME LookupInv, Lookups!GetPrimaryEngagement
  PROVE  LookupInv' /\ LookupGood'
<1> DEFINE all == Lookups!Of(mo, Engagements)
           primary == {v \in all : Lookups!IsPrimary(v)}
<1>1. /\ lookup = "ask" /\ kind \in {"primary", "unit address"} /\ chosen = {}
      /\ UNCHANGED <<today, mo, kind, keep, seen, disturbed>>
  BY DEF Lookups!GetPrimaryEngagement, LookupInv
<1>2. \/ all = {} /\ lookup' = "answered" /\ outcome' = "none" /\ found' = {} /\ chosen' = chosen
      \/ /\ all # {} /\ (primary = {} \/ Lookups!Ambiguous(primary))
         /\ lookup' = "answered" /\ outcome' = "acknowledge" /\ found' = {} /\ chosen' = chosen
      \/ /\ primary # {} /\ ~Lookups!Ambiguous(primary) /\ chosen' \in Chosen(primary)
         /\ lookup' = IF kind = "primary" THEN "load" ELSE "choose"
         /\ outcome' = outcome /\ found' = found
  BY DEF Lookups!GetPrimaryEngagement, Lookups!ReadEngagementsIsPrimary, Lookups!Answer, Chosen
<1>3. primary \in SUBSET Lookups!Validities /\ all \in SUBSET Lookups!Validities /\ all \subseteq mo
      /\ \A v \in all : v.uuid \in Engagements
  BY DEF LookupInv, Lookups!TypeOK, Lookups!Of
<1>4. kind = "primary" => Lookups!Candidates = primary
  BY DEF Lookups!Candidates
<1> HIDE DEF primary
<1>5. Lookups!TypeOK'
  <2>1. chosen' \subseteq Lookups!Uuids
    BY <1>1, <1>2, <1>3, ChosenTyped DEF LookupInv, Lookups!TypeOK
  <2> QED
    BY <1>1, <1>2, <2>1 DEF LookupInv, Lookups!TypeOK
<1>6. LookupInv'
  <2>1. lookup' = "load" => ChosenFrom(Lookups!Candidates)'
    <3> SUFFICES ASSUME lookup' = "load"
                 PROVE  ChosenFrom(Lookups!Candidates)'
      OBVIOUS
    <3>1. kind = "primary" /\ ~Lookups!Ambiguous(primary) /\ chosen' \in Chosen(primary)
      BY <1>1, <1>2
    <3>2. \E v \in Lookups!Extract(primary) : chosen' = {v.uuid}
      BY <1>3, <3>1, ChosenTyped DEF LookupInv
    <3>3. Lookups!Candidates = primary
      BY <1>4, <3>1
    <3> QED
      BY <1>1, <3>1, <3>2, <3>3, SameCandidates
  <2>2. Lookups!IsTimeline(mo)' = Lookups!IsTimeline(mo)
    BY <1>1, SameLookup
  <2> QED
    BY <1>1, <1>2, <1>5, <2>1, <2>2 DEF LookupInv, Ordered
<1>7. LookupGood'
  <2>1. CASE lookup' # "answered"
    BY <1>6, <2>1, NoAnswerYet DEF LookupInv
  <2>2. CASE lookup' = "answered" /\ ~disturbed
    <3>1. /\ chosen' = {} /\ found' = {} /\ outcome' \in {"none", "acknowledge"}
          /\ primary = {} \/ Lookups!Ambiguous(primary)
          /\ outcome' = "none" <=> all = {}
      BY <1>1, <1>2, <2>2 DEF primary
    <3>2. Lookups!CurrentServed'
      <4>1. CASE kind = "unit address"
        BY <1>1, <3>1, <4>1 DEF Lookups!CurrentServed
      <4>2. CASE kind = "primary"
        <5>1. Lookups!Candidates = primary
          BY <1>4, <4>2
        <5>2. Lookups!Cardinality(Lookups!Current(Lookups!Candidates)) # 1
          BY <1>3, <3>1, <5>1, CurrentCounted
        <5>3. Lookups!Current(Lookups!Candidates)' = Lookups!Current(Lookups!Candidates)
          BY <1>1, <4>2, SameCandidates
        <5>4. Lookups!Cardinality(Lookups!Current(Lookups!Candidates))' # 1
          BY <5>2, <5>3
        <5> QED
          BY <3>1, <5>4 DEF Lookups!CurrentServed
      <4> QED
        BY <1>1, <4>1, <4>2
    <3>3. ASSUME Lookups!Calculated(all), all # {}, kind = "primary"
          PROVE  FALSE
      <4>1. PICK w \in all : TRUE
        BY <3>3
      <4>2. w.from \in Lookups!Days /\ Lookups!Covers(w, w.from)
        <5>1. w \in Lookups!Validities /\ w \in mo
          BY <1>3, <4>1
        <5>2. w.from < w.to /\ w.from \in Nat
          BY <5>1, Numbers DEF LookupInv, Ordered
        <5> QED
          BY <5>1, <5>2, Numbers DEF Lookups!Covers
      <4>3. Lookups!IsTimeline(all) /\ today \in Lookups!Days
        BY <1>3, <2>2 DEF LookupInv, Lookups!IsTimeline, Lookups!TypeOK
      <4> HIDE DEF all
      <4>4. primary # {}
        BY <1>3, <3>3, <4>2, <4>3, OnePrimary DEF primary
      <4>5. PICK v, w1 \in Lookups!Current(primary) : v # w1
        BY <1>3, <3>1, <4>4, Ambiguity
      <4>6. /\ v \in all /\ Lookups!Covers(v, today) /\ Lookups!IsPrimary(v)
            /\ w1 \in all /\ Lookups!Covers(w1, today) /\ Lookups!IsPrimary(w1)
        BY DEF Lookups!Current, Lookups!IsCurrent, primary
      <4> QED
        BY <1>3, <3>3, <4>3, <4>5, <4>6, OnePrimary
    <3>4. all' = all /\ Lookups!Calculated(all)' = Lookups!Calculated(all)
      BY <1>1
    <3>5. Lookups!NoneWhenLeft'
      BY <1>1, <3>3, <3>4 DEF Lookups!NoneWhenLeft
    <3>6. Lookups!AgreesWithCalculated'
      <4>1. Lookups!Current(all)' \subseteq all
        BY <3>4 DEF Lookups!Current
      <4> QED
        BY <1>1, <3>1, <3>3, <3>4, <4>1 DEF Lookups!AgreesWithCalculated
    <3> QED
      BY <3>2, <3>5, <3>6 DEF LookupGood
  <2>3. CASE disturbed
    BY <1>1, <1>2, <2>3 DEF LookupGood, LookupInv, Lookups!CurrentServed, Lookups!NoneWhenLeft,
                            Lookups!AgreesWithCalculated, Lookups!Undisturbed
  <2> QED
    BY <2>1, <2>2, <2>3 DEF LookupInv, Lookups!TypeOK
<1> QED
  BY <1>6, <1>7

LEMMA OtherKinds ==
  ASSUME kind' \notin {"primary", "recalculated"}, outcome' # "empty", Lookups!CurrentServed'
  PROVE  LookupGood'
  BY DEF LookupGood, Lookups!NoneWhenLeft, Lookups!AgreesWithCalculated

\* After an edit or midnight nothing is said of the answer, but that it is one.
LEMMA Disturbed ==
  ASSUME disturbed', outcome' # "empty"
  PROVE  LookupGood'
  BY DEF LookupGood, Lookups!CurrentServed, Lookups!NoneWhenLeft, Lookups!AgreesWithCalculated,
         Lookups!Undisturbed

LEMMA FindKeeps ==
  ASSUME LookupInv, NEW read, Lookups!FindIn(read), read = Lookups!Candidates,
         kind \in {"address", "ituser", "current ituser", "unit address"},
         lookup \in {"ask", "choose"}
  PROVE  LookupInv' /\ LookupGood'
<1>1. UNCHANGED <<today, mo, kind, keep, seen, disturbed>>
  BY DEF Lookups!FindIn
<1>2. \/ /\ read = {} /\ lookup' = "answered" /\ outcome' = "none" /\ found' = {}
         /\ chosen' = chosen
      \/ /\ Lookups!Ambiguous(read) /\ lookup' = "answered" /\ outcome' = "error" /\ found' = {}
         /\ chosen' = chosen
      \/ /\ read # {} /\ ~Lookups!Ambiguous(read) /\ lookup' = "load"
         /\ chosen' \in Chosen(read) /\ outcome' = outcome /\ found' = found
  BY DEF Lookups!FindIn, Lookups!Answer, Lookups!Choose, Chosen
<1>3. read \in SUBSET Lookups!Validities
  BY CandidatesTyped DEF LookupInv
<1>4. Lookups!TypeOK'
  <2>1. chosen' \subseteq Lookups!Uuids
    BY <1>2, <1>3, ChosenTyped DEF LookupInv, Lookups!TypeOK
  <2> QED
    BY <1>1, <1>2, <2>1 DEF LookupInv, Lookups!TypeOK
<1>5. LookupInv'
  <2>1. lookup' = "load" => ChosenFrom(Lookups!Candidates)'
    <3> SUFFICES ASSUME lookup' = "load"
                 PROVE  ChosenFrom(Lookups!Candidates)'
      OBVIOUS
    <3>1. ~Lookups!Ambiguous(read) /\ chosen' \in Chosen(read)
      BY <1>2
    <3>2. \E v \in Lookups!Extract(read) : chosen' = {v.uuid}
      BY <1>3, <3>1, ChosenTyped DEF LookupInv
    <3> QED
      BY <1>1, <3>1, <3>2, SameCandidates
  <2>2. Lookups!IsTimeline(mo)' = Lookups!IsTimeline(mo)
    BY <1>1, SameLookup
  <2> QED
    BY <1>1, <1>2, <1>4, <2>1, <2>2 DEF LookupInv, Ordered
<1>6. LookupGood'
  <2>1. CASE lookup' # "answered"
    BY <1>5, <2>1, NoAnswerYet DEF LookupInv
  <2>2. CASE lookup' = "answered"
    <3>1. /\ read = {} \/ Lookups!Ambiguous(read)
          /\ outcome' \in {"none", "error"}
      BY <1>2, <2>2
    <3>2. Lookups!Cardinality(Lookups!Current(Lookups!Candidates)) # 1
      BY <1>3, <3>1, CurrentCounted
    <3>3. Lookups!Current(Lookups!Candidates)' = Lookups!Current(Lookups!Candidates)
      BY <1>1, SameCandidates
    <3>4. Lookups!Cardinality(Lookups!Current(Lookups!Candidates))' # 1
      BY <3>2, <3>3
    <3>5. Lookups!CurrentServed'
      BY <3>1, <3>4 DEF Lookups!CurrentServed
    <3> QED
      BY <1>1, <3>1, <3>5, OtherKinds
  <2> QED
    BY <2>1, <2>2
<1> QED
  BY <1>5, <1>6

LEMMA AskKeeps ==
  ASSUME LookupInv, Lookups!LoadAddress \/ Lookups!LoadItUser \/ Lookups!LoadOrgUnitAddress
  PROVE  LookupInv' /\ LookupGood'
<1>1. CASE Lookups!LoadAddress
  <2>1. Lookups!ReadFilteredAddresses = Lookups!Candidates
    BY <1>1 DEF Lookups!LoadAddress, Lookups!ReadFilteredAddresses, Lookups!Candidates
  <2> QED
    BY <1>1, <2>1, FindKeeps DEF Lookups!LoadAddress
<1>2. CASE Lookups!LoadItUser
  <2>1. Lookups!ReadFilteredItusers = Lookups!Candidates
    BY <1>2 DEF Lookups!LoadItUser, Lookups!ReadFilteredItusers, Lookups!Candidates,
                Lookups!Current, Lookups!IsCurrent
  <2> QED
    BY <1>2, <2>1, FindKeeps DEF Lookups!LoadItUser
<1>3. CASE Lookups!LoadOrgUnitAddress
  <2>1. Lookups!ReadFilteredAddresses = Lookups!Candidates
    BY <1>3 DEF Lookups!LoadOrgUnitAddress, Lookups!ReadFilteredAddresses, Lookups!Candidates
  <2> QED
    BY <1>3, <2>1, FindKeeps DEF Lookups!LoadOrgUnitAddress
<1> QED
  BY <1>1, <1>2, <1>3

LEMMA LoadEngagementKeeps ==
  ASSUME LookupInv, Lookups!LoadEngagement
  PROVE  LookupInv' /\ LookupGood'
<1>1. PICK e \in Engagements : chosen' = {e}
  BY DEF Lookups!LoadEngagement
<1>2. /\ kind = "engagement" /\ lookup' = "load"
      /\ UNCHANGED <<today, mo, kind, keep, seen, outcome, found, disturbed>>
  BY DEF Lookups!LoadEngagement
<1>3. Lookups!TypeOK'
  BY <1>1, <1>2 DEF LookupInv, Lookups!TypeOK, Lookups!Uuids
<1>4. Lookups!IsTimeline(mo)' = Lookups!IsTimeline(mo)
  BY <1>2, SameLookup
<1>5. LookupInv'
  BY <1>1, <1>2, <1>3, <1>4 DEF LookupInv, Ordered
<1> QED
  BY <1>2, <1>5, NoAnswerYet DEF LookupInv

-----------------------------------------------------------------------------
(* The second request.                                                       *)

LEMMA LoadServes ==
  ASSUME LookupInv, ~disturbed, lookup = "load"
  PROVE  /\ Lookups!Cardinality(Lookups!Current(Lookups!Candidates)) <= 1
         /\ \A x : Lookups!Current(Lookups!Candidates) = {x} =>
              /\ Lookups!Of(mo, chosen) # {}
              /\ today < x.to
              /\ \A v \in Lookups!Extract(Lookups!Of(mo, chosen)) : v = x
<1> DEFINE C == Lookups!Candidates
           own == Lookups!Of(mo, chosen)
<1>1. /\ C \in SUBSET Lookups!Validities /\ C \subseteq mo
      /\ own \in SUBSET Lookups!Validities /\ own \subseteq mo
      /\ today \in Lookups!Days
  BY CandidatesTyped DEF LookupInv, Lookups!TypeOK, Lookups!Of
<1>2. Lookups!IsTimeline(own)
  BY <1>1 DEF LookupInv, Lookups!IsTimeline
<1>3. \A v, w \in own : v.uuid = w.uuid
  BY DEF LookupInv, ChosenFrom, Lookups!Of
<1>4. \A v, w \in Lookups!Current(own) : v = w
  BY <1>1, <1>2, <1>3, OneIsCurrent DEF Lookups!Current
<1>5. ~Lookups!Ambiguous(C)
  <2>1. CASE kind = "engagement"
    <3>1. C = own
      BY <2>1 DEF Lookups!Candidates
    <3> QED
      BY <1>1, <1>4, <3>1, Ambiguity
  <2>2. CASE kind # "engagement"
    BY <2>2 DEF LookupInv, ChosenFrom
  <2> QED
    BY <2>1, <2>2
<1>6. ASSUME NEW x, Lookups!Current(C) = {x}
      PROVE  x \in Lookups!Current(own)
  <2>1. x \in C /\ Lookups!Covers(x, today)
    BY <1>6 DEF Lookups!Current, Lookups!IsCurrent
  <2>2. CASE kind = "engagement"
    BY <1>6, <2>2 DEF Lookups!Candidates
  <2>3. CASE kind # "engagement"
    <3>1. PICK y \in Lookups!Extract(C) : chosen = {y.uuid}
      BY <2>3 DEF LookupInv, ChosenFrom
    <3>2. y = x
      BY <1>1, <1>6, <3>1, Extracts
    <3> QED
      BY <1>1, <2>1, <3>1, <3>2 DEF Lookups!Of, Lookups!Current, Lookups!IsCurrent
  <2> QED
    BY <2>2, <2>3
<1>7. ASSUME NEW x, Lookups!Current(C) = {x}
      PROVE  own # {} /\ today < x.to /\ \A v \in Lookups!Extract(own) : v = x
  <2>1. x \in Lookups!Current(own)
    BY <1>6, <1>7
  <2>2. own # {} /\ today < x.to
    BY <2>1 DEF Lookups!Current, Lookups!IsCurrent, Lookups!Covers
  <2>3. \A v \in Lookups!Extract(own) : v \in Lookups!Current(own)
    BY <1>1, <2>1, Extracts
  <2> QED
    BY <1>4, <2>1, <2>2, <2>3
<1> QED
  BY <1>1, <1>5, <1>7, CurrentCounted

\* Of a person whose primaries are calculated.
LEMMA LoadsPrimary ==
  ASSUME LookupInv, ~disturbed, lookup = "load", kind = "primary",
         NEW all, all = Lookups!Of(mo, Engagements), Lookups!Calculated(all), all # {},
         NEW v \in Lookups!Extract(Lookups!Of(mo, chosen))
  PROVE  /\ v.to <= today <=> \A w \in all : w.to <= today
         /\ Lookups!Current(all) # {} =>
              today < v.to /\ {w \in Lookups!Current(all) : Lookups!IsPrimary(w)} = {v}
<1> DEFINE C == Lookups!Candidates
           own == Lookups!Of(mo, chosen)
<1>1. /\ C = {w \in all : Lookups!IsPrimary(w)} /\ C \in SUBSET Lookups!Validities
      /\ own \in SUBSET Lookups!Validities
      /\ all \in SUBSET Lookups!Validities /\ all \subseteq mo
      /\ \A w \in all : w.uuid \in Engagements
      /\ today \in Lookups!Days
  BY CandidatesTyped DEF LookupInv, Lookups!TypeOK, Lookups!Of, Lookups!Candidates
<1>2. Lookups!IsTimeline(all)
  BY <1>1 DEF LookupInv, Lookups!IsTimeline
<1>3. PICK y \in Lookups!Extract(C) : chosen = {y.uuid}
  BY DEF LookupInv, ChosenFrom
<1>4. y \in C /\ y \in own /\ own \subseteq all
  <2>1. y \in C
    BY <1>1, <1>3, Extracts
  <2> QED
    BY <1>1, <1>3, <2>1 DEF Lookups!Of
<1>5. v \in own /\ v \in all
  BY <1>1, <1>4, Extracts
<1>6. ASSUME Lookups!Current(all) # {}
      PROVE  today < v.to /\ {w \in Lookups!Current(all) : Lookups!IsPrimary(w)} = {v}
  <2>1. PICK z \in all : Lookups!Covers(z, today)
    BY <1>6 DEF Lookups!Current, Lookups!IsCurrent
  <2>2. PICK x \in all : /\ Lookups!IsPrimary(x) /\ Lookups!Covers(x, today)
                         /\ \A w \in all : Lookups!IsPrimary(w) /\ Lookups!Covers(w, today) => w = x
    BY <1>1, <1>2, <2>1, OnePrimary
  <2>3. Lookups!Current(C) = {x} /\ {w \in Lookups!Current(all) : Lookups!IsPrimary(w)} = {x}
    BY <1>1, <2>2 DEF Lookups!Current, Lookups!IsCurrent
  <2>4. v = x /\ today < x.to
    BY <2>3, LoadServes
  <2> QED
    BY <2>3, <2>4
<1>7. ASSUME NEW w \in all, ~(w.to <= today), v.to <= today
      PROVE  FALSE
  <2>1. /\ v.to \in Nat /\ w.to \in Nat /\ w.from \in Nat /\ today \in Nat /\ y.to \in Nat
        /\ w.from \in Lookups!Days
    BY <1>1, <1>4, <1>5, Numbers
  <2>2. Lookups!Current(all) = {}
    BY <1>6, <1>7, <2>1
  <2>3. Lookups!Covers(w, w.from) /\ today < w.from
    <3>1. w.from < w.to
      BY <1>1 DEF LookupInv, Ordered
    <3>2. ~Lookups!Covers(w, today)
      BY <2>2 DEF Lookups!Current, Lookups!IsCurrent
    <3> QED
      BY <1>7, <2>1, <3>1, <3>2 DEF Lookups!Covers
  <2>4. PICK x \in all : Lookups!IsPrimary(x) /\ Lookups!Covers(x, w.from)
    BY <1>1, <1>2, <2>1, <2>3, OnePrimary
  <2>5. Lookups!Current(C) = {} /\ Lookups!Current(own) = {}
    BY <1>1, <1>4, <2>2 DEF Lookups!Current
  <2>6. x \in C /\ x.to \in Nat /\ w.from < x.to
    BY <1>1, <2>4, Numbers DEF Lookups!Covers
  <2>7. x.to <= y.to /\ y.to <= v.to
    BY <1>1, <1>3, <1>4, <2>5, <2>6, Extracts
  <2> QED
    BY <1>7, <2>1, <2>3, <2>6, <2>7
<1> QED
  BY <1>5, <1>6, <1>7

LEMMA LoadChosenKeeps ==
  ASSUME LookupInv, Lookups!LoadMoEngagement \/ Lookups!LoadMoAddress \/ Lookups!LoadMoItUser
  PROVE  LookupInv' /\ LookupGood'
<1> DEFINE own == Lookups!Of(mo, chosen)
           all == Lookups!Of(mo, Engagements)
<1>1. /\ lookup = "load" /\ kind # "recalculated"
      /\ UNCHANGED <<today, mo, kind, keep, chosen, seen, disturbed>>
      /\ Lookups!Return(own)
  BY DEF Lookups!LoadMoEngagement, Lookups!LoadMoAddress, Lookups!LoadMoItUser, Lookups!LoadChosen,
         LookupInv
<1>2. \/ own = {} /\ lookup' = "answered" /\ outcome' = "requeue" /\ found' = {}
      \/ \E v \in Lookups!Extract(own) :
            \/ v.to <= today /\ ~keep /\ lookup' = "answered" /\ outcome' = "none" /\ found' = {}
            \/ /\ ~(v.to <= today /\ ~keep)
               /\ lookup' = "answered" /\ outcome' = "found" /\ found' = {v}
  BY <1>1 DEF Lookups!Return, Lookups!Answer, Lookups!DeleteFlag
<1>3. /\ own \in SUBSET Lookups!Validities /\ all \in SUBSET Lookups!Validities
      /\ today \in Lookups!Days
  BY DEF LookupInv, Lookups!TypeOK, Lookups!Of
<1>4. lookup' = "answered" /\ outcome' \in {"requeue", "none", "found"}
  BY <1>2
<1>5. LookupInv'
  <2>1. found' \subseteq Lookups!Validities
    BY <1>2, <1>3, Extracts
  <2>2. Lookups!TypeOK'
    BY <1>1, <1>4, <2>1 DEF LookupInv, Lookups!TypeOK
  <2>3. Lookups!IsTimeline(mo)' = Lookups!IsTimeline(mo)
    BY <1>1, SameLookup
  <2> QED
    BY <1>1, <1>4, <2>2, <2>3 DEF LookupInv, Ordered
<1>6. ASSUME ~disturbed
      PROVE  Lookups!CurrentServed'
  <2> DEFINE C == Lookups!Candidates
  <2>1. /\ Lookups!Current(C)' = Lookups!Current(C)
        /\ C' = C
    BY <1>1, SameCandidates, SameLookup
  <2>2. /\ C \in SUBSET Lookups!Validities
        /\ Lookups!Cardinality(Lookups!Current(C)) <= 1
    BY <1>1, <1>6, LoadServes, CandidatesTyped DEF LookupInv
  <2>3. ASSUME NEW x, Lookups!Current(C) = {x}
        PROVE  found' = {x}
    <3>1. /\ own # {} /\ today < x.to
          /\ \A v \in Lookups!Extract(own) : v = x
      BY <1>1, <1>6, <2>3, LoadServes
    <3>2. x \in Lookups!Validities
      BY <2>2, <2>3, FiniteSome
    <3>3. x.to \in Nat /\ today \in Nat
      BY <1>3, <3>2, Numbers
    <3> QED
      BY <1>2, <3>1, <3>3
  <2>4. Lookups!Cardinality(Lookups!Current(C)) = 1 => found' = Lookups!Current(C)
    BY <2>2, <2>3, CurrentCounted
  <2>5. Lookups!Cardinality(Lookups!Current(C))' = Lookups!Cardinality(Lookups!Current(C))
    BY <2>1
  <2> QED
    BY <2>1, <2>2, <2>4, <2>5 DEF Lookups!CurrentServed
<1>7. CASE disturbed
  <2>1. disturbed' /\ outcome' # "empty"
    BY <1>1, <1>4, <1>7
  <2> QED
    BY <1>5, <2>1, Disturbed, Zenon
<1>8. CASE ~disturbed /\ kind # "primary"
  <2>1. kind' \notin {"primary", "recalculated"} /\ outcome' # "empty"
    BY <1>1, <1>4, <1>8
  <2> QED
    BY <1>5, <1>6, <1>8, <2>1, OtherKinds, Zenon
<1>9. CASE ~disturbed /\ kind = "primary"
  <2>1. all' = all /\ Lookups!Calculated(all)' = Lookups!Calculated(all)
    BY <1>1
  <2>2. own # {}
    <3>1. PICK y \in Lookups!Extract(Lookups!Candidates) : chosen = {y.uuid}
      BY <1>1, <1>9 DEF LookupInv, ChosenFrom
    <3>2. y \in Lookups!Candidates /\ Lookups!Candidates \subseteq mo
      BY <3>1, Extracts, CandidatesTyped DEF LookupInv
    <3> QED
      BY <3>1, <3>2 DEF Lookups!Of
  <2>3. PICK v \in Lookups!Extract(own) :
            \/ v.to <= today /\ ~keep /\ outcome' = "none" /\ found' = {}
            \/ ~(v.to <= today /\ ~keep) /\ outcome' = "found" /\ found' = {v}
    BY <1>2, <2>2
  <2>4. v.to \in Nat /\ today \in Nat
    <3>1. v \in Lookups!Validities
      BY <1>3, <2>3, Extracts
    <3> QED
      BY <1>3, <3>1, Numbers
  <2>5. ASSUME Lookups!Calculated(all), all # {}
        PROVE  /\ v.to <= today <=> Lookups!EmploymentInterval(all).to <= today
               /\ Lookups!Current(all) # {} =>
                    found' = {w \in Lookups!Current(all) : Lookups!IsPrimary(w)}
    <3> HIDE DEF all, own
    <3>1. /\ v.to <= today <=> \A w \in all : w.to <= today
          /\ Lookups!Current(all) # {} =>
               today < v.to /\ {w \in Lookups!Current(all) : Lookups!IsPrimary(w)} = {v}
      BY <1>1, <1>9, <2>3, <2>5, LoadsPrimary DEF all, own
    <3>2. Lookups!EmploymentInterval(all).to <= today <=> \A w \in all : w.to <= today
      BY <1>3, <2>5, EmploymentEnds
    <3> QED
      BY <2>3, <2>4, <3>1, <3>2
  <2>6. Lookups!EmploymentInterval(all)' = Lookups!EmploymentInterval(all)
    BY <2>1 DEF Lookups!EmploymentInterval
  <2>7. Lookups!Current(all)' = Lookups!Current(all)
    BY <1>1, <2>1 DEF Lookups!Current, Lookups!IsCurrent
  <2>8. Lookups!NoneWhenLeft'
    <3> SUFFICES ASSUME keep' = FALSE, all' # {}, Lookups!Calculated(all)'
                 PROVE  outcome' = "none" <=> (Lookups!EmploymentInterval(all).to <= today)'
      BY <1>5 DEF Lookups!NoneWhenLeft, LookupInv, Lookups!TypeOK
    <3>1. v.to <= today <=> Lookups!EmploymentInterval(all).to <= today
      BY <2>1, <2>5
    <3> QED
      BY <1>1, <2>3, <2>6, <3>1
  <2>9. Lookups!AgreesWithCalculated'
    <3>1. Lookups!Current(all) # {} => all # {}
      BY DEF Lookups!Current
    <3>2. Lookups!Calculated(all) /\ Lookups!Current(all) # {} =>
            found' = {w \in Lookups!Current(all) : Lookups!IsPrimary(w)}
      BY <2>5, <3>1
    <3>3. {w \in Lookups!Current(all) : Lookups!IsPrimary(w)}'
            = {w \in Lookups!Current(all) : Lookups!IsPrimary(w)}
      BY <2>7
    <3> QED
      BY <1>4, <2>1, <2>7, <3>2, <3>3 DEF Lookups!AgreesWithCalculated
  <2> QED
    BY <1>5, <1>6, <1>9, <2>8, <2>9 DEF LookupGood
<1> QED
  BY <1>5, <1>7, <1>8, <1>9, Zenon

LEMMA LoadRecalculatedKeeps ==
  ASSUME LookupInv, Lookups!LoadRecalculated
  PROVE  LookupInv' /\ LookupGood'
<1> DEFINE read == Lookups!ReadEngagements
           all == Lookups!Of(mo, Engagements)
<1>1. /\ lookup = "ask" /\ kind = "recalculated" /\ seen' = read
      /\ UNCHANGED <<today, mo, kind, keep, chosen, disturbed>>
  BY DEF Lookups!LoadRecalculated
<1>2. \/ read = {} /\ lookup' = "answered" /\ outcome' = "none" /\ found' = {}
      \/ read # {} /\ lookup' = "compute" /\ UNCHANGED <<outcome, found>>
  BY DEF Lookups!LoadRecalculated, Lookups!Answer
<1>3. /\ read = {v \in all : today < v.to}
      /\ all \in SUBSET Lookups!Validities /\ all \subseteq mo /\ today \in Lookups!Days
  BY DEF Lookups!ReadEngagements, Lookups!Of, LookupInv, Lookups!TypeOK
<1>4. read' = read /\ Lookups!IsTimeline(mo)' = Lookups!IsTimeline(mo)
  BY <1>1, SameLookup
<1> HIDE DEF read, all
<1>5. \A v \in read : today <= v.to /\ v.from < v.to /\ v \in Lookups!Validities
  <2> SUFFICES ASSUME NEW v \in read
               PROVE  today <= v.to /\ v.from < v.to /\ v \in Lookups!Validities
    OBVIOUS
  <2>1. v \in mo /\ v \in Lookups!Validities /\ today < v.to
    BY <1>3
  <2>2. v.to \in Nat /\ today \in Nat
    BY <1>3, <2>1, Numbers
  <2>3. v.from < v.to
    BY <2>1 DEF LookupInv, Ordered
  <2> QED
    BY <2>1, <2>2, <2>3
<1>6. outcome' # "empty"
  BY <1>2 DEF LookupInv
<1>7. LookupInv'
  <2>1. Lookups!TypeOK'
    BY <1>1, <1>2, <1>5 DEF LookupInv, Lookups!TypeOK
  <2> QED
    BY <1>1, <1>2, <1>4, <1>5, <2>1 DEF LookupInv, Ordered, read
<1>8. CASE lookup' # "answered"
  BY <1>6, <1>7, <1>8, NoAnswerYet
<1>9. CASE lookup' = "answered"
  <2>1. read = {}
    BY <1>2, <1>9
  <2>2. all' = all
    BY <1>1 DEF all
  <2>3. Lookups!Current(all)' = {}
    <3>1. Lookups!Current(all) = {}
      BY <1>3, <2>1 DEF Lookups!Current, Lookups!IsCurrent, Lookups!Covers
    <3>2. Lookups!Current(all)' = Lookups!Current(all)
      BY <1>1, <2>2 DEF Lookups!Current, Lookups!IsCurrent
    <3> QED
      BY <3>1, <3>2
  <2>4. Lookups!AgreesWithCalculated'
    BY <1>6, <2>3 DEF Lookups!AgreesWithCalculated, all
  <2> QED
    BY <1>1, <1>7, <2>4 DEF LookupGood, Lookups!CurrentServed, Lookups!NoneWhenLeft
<1> QED
  BY <1>8, <1>9

\* The function that reimplements calculate_primary has an engagement to take the
\* max() of: what ends last has not ended when the day is looked up.
LEMMA ConsideredAre ==
  ASSUME NEW S \in SUBSET Lookups!Validities, S # {}, Ordered(S), today \in Lookups!Days,
         \A v \in S : today <= v.to
  PROVE  /\ Lookups!Considered(S, today) # {} /\ Lookups!Considered(S, today) \subseteq S
         /\ (\E v \in S : v.from <= today) =>
              Lookups!Considered(S, today) = {v \in S : v.from <= today}
<1> DEFINE T == {v.from : v \in S}
           m == Lookups!Min(T)
           both == {today, m}
           cut == Lookups!Max(both)
<1>1. T \in SUBSET Nat /\ T # {} /\ today \in Nat
  BY Numbers
<1>2. Lookups!Considered(S, today) = {v \in S : v.from <= cut /\ cut <= v.to}
  BY DEF Lookups!Considered
<1>3. \A v \in S : v.from \in T /\ v.from \in Nat /\ v.to \in Nat /\ v.from < v.to
  BY Numbers DEF Ordered
<1>4. \A t \in T : \E v \in S : v.from = t
  OBVIOUS
<1> HIDE DEF T
<1>5. m \in T /\ \A y \in T : m <= y
  BY <1>1, LeastIs
<1>6. m \in Nat
  BY <1>1, <1>5
<1> HIDE DEF m
<1>7. both \in SUBSET Nat /\ both # {} /\ IsFiniteSet(both)
  <2>1. IsFiniteSet({today} \cup {m})
    BY FS_Singleton, FS_AddElement
  <2>2. both = {today} \cup {m}
    OBVIOUS
  <2> QED
    BY <1>1, <1>6, <2>1, <2>2
<1>8. cut \in both /\ \A y \in both : y <= cut
  <2> HIDE DEF both
  <2> QED
    BY <1>7, GreatestIs
<1>9. cut \in {today, m} /\ today <= cut /\ m <= cut
  BY <1>8
<1> HIDE DEF cut, both
<1>10. PICK v \in S : v.from = m
  BY <1>4, <1>5
<1>11. v.from <= cut /\ cut <= v.to
  <2>1. CASE cut = today
    BY <1>9, <1>10, <2>1
  <2>2. CASE cut = m
    BY <1>3, <1>6, <1>10, <2>2
  <2> QED
    BY <1>9, <2>1, <2>2
<1>12. ASSUME NEW w \in S, w.from <= today
       PROVE  cut = today
  BY <1>1, <1>3, <1>5, <1>6, <1>9, <1>12
<1> QED
  BY <1>2, <1>11, <1>12

LEMMA ComputePrimaryKeeps ==
  ASSUME LookupInv, Lookups!ComputePrimary
  PROVE  LookupInv' /\ LookupGood'
<1> DEFINE left == Lookups!Considered(seen, today)
           all == Lookups!Of(mo, Engagements)
<1>1. /\ lookup = "compute" /\ kind = "recalculated"
      /\ UNCHANGED <<today, mo, kind, keep, chosen, seen, disturbed>>
  BY DEF Lookups!ComputePrimary, LookupInv
<1>2. /\ seen \in SUBSET Lookups!Validities /\ seen # {} /\ Ordered(seen)
      /\ today \in Lookups!Days /\ \A v \in seen : today <= v.to
  BY <1>1 DEF LookupInv, Lookups!TypeOK
<1>3. /\ left # {} /\ left \subseteq seen
      /\ (\E v \in seen : v.from <= today) => left = {v \in seen : v.from <= today}
  BY <1>2, ConsideredAre
<1>4. /\ lookup' = "answered"
      /\ \/ outcome' = "error" /\ found' = {} /\ Lookups!Cardinality(Lookups!Explicit(left)) > 1
         \/ outcome' = "found" /\ found' = Lookups!Recalculated(left)
  BY <1>3 DEF Lookups!ComputePrimary, Lookups!Answer
<1> HIDE DEF left, all
<1>5. found' \subseteq Lookups!Validities
  BY <1>2, <1>3, <1>4 DEF Lookups!Recalculated, Lookups!Explicit, Lookups!Best
<1>6. outcome' \in {"error", "found"}
  BY <1>4
<1>7. LookupInv'
  <2>1. Lookups!TypeOK'
    BY <1>1, <1>4, <1>5, <1>6 DEF LookupInv, Lookups!TypeOK
  <2>2. Lookups!IsTimeline(mo)' = Lookups!IsTimeline(mo)
    BY <1>1, SameLookup
  <2> QED
    BY <1>1, <1>4, <1>6, <2>1, <2>2 DEF LookupInv, Ordered
<1>8. CASE disturbed
  <2>1. disturbed' /\ outcome' # "empty"
    BY <1>1, <1>6, <1>8
  <2> QED
    BY <1>7, <2>1, Disturbed, Zenon
<1>9. CASE ~disturbed
  <2>1. all' = all /\ Lookups!Calculated(all)' = Lookups!Calculated(all)
    BY <1>1 DEF all
  <2>2. Lookups!Current(all)' = Lookups!Current(all)
    BY <1>1, <2>1 DEF Lookups!Current, Lookups!IsCurrent
  <2>3. ASSUME Lookups!Calculated(all), Lookups!Current(all) # {}
        PROVE  found' = {v \in Lookups!Current(all) : Lookups!IsPrimary(v)}
    <3>1. seen = {v \in all : today < v.to} /\ \A v \in all : v \in Lookups!Validities
      BY <1>1, <1>9 DEF LookupInv, Lookups!TypeOK, Lookups!ReadEngagements, Lookups!Of, all
    <3>2. PICK x \in all : x.from <= today /\ today < x.to
      BY <2>3 DEF Lookups!Current, Lookups!IsCurrent, Lookups!Covers
    <3>3. left = {v \in seen : v.from <= today}
      BY <1>3, <3>1, <3>2
    <3>4. left = {v \in all : Lookups!Covers(v, today)}
      BY <3>1, <3>3 DEF Lookups!Covers
    <3>5. left = Lookups!Current(all)
      BY <3>4 DEF Lookups!Current, Lookups!IsCurrent
    <3>6. Lookups!Explicit(left) = {}
      BY <2>3, <3>4 DEF Lookups!Calculated, Lookups!Explicit
    <3>7. ~(Lookups!Cardinality(Lookups!Explicit(left)) > 1)
      BY <3>6, SameCounts, FS_EmptySet
    <3>8. found' = Lookups!Best(left)
      BY <1>4, <3>6, <3>7 DEF Lookups!Recalculated
    <3>9. {v \in left : Lookups!IsPrimary(v)} = Lookups!Best(left)
      BY <1>2, <2>3, <3>4 DEF Lookups!Calculated
    <3> QED
      BY <3>5, <3>8, <3>9
  <2>4. Lookups!AgreesWithCalculated'
    <3>1. {w \in Lookups!Current(all) : Lookups!IsPrimary(w)}'
            = {w \in Lookups!Current(all) : Lookups!IsPrimary(w)}
      BY <2>2
    <3> QED
      BY <1>6, <2>1, <2>2, <2>3, <3>1 DEF Lookups!AgreesWithCalculated, all
  <2> QED
    BY <1>1, <1>7, <2>4 DEF LookupGood, Lookups!CurrentServed, Lookups!NoneWhenLeft
<1> QED
  BY <1>8, <1>9

-----------------------------------------------------------------------------
(* MO is edited, or midnight passes, between the requests.                   *)

LEMMA EditKeeps ==
  ASSUME LookupInv, Lookups!Edit
  PROVE  LookupInv' /\ LookupGood'
<1>1. /\ lookup \notin {"ask", "answered", "compute"} /\ disturbed' = TRUE
      /\ UNCHANGED <<today, kind, keep, lookup, chosen, seen, outcome, found>>
  BY DEF Lookups!Edit, Lookups!UnderWay
<1>2. \A v \in mo : v \in Lookups!Validities /\ v.from < v.to
  BY DEF LookupInv, Lookups!TypeOK, Ordered
<1>3. \A v \in mo' : v \in Lookups!Validities /\ v.from < v.to
  <2>1. PICK v \in mo :
          \/ mo' = mo \ {v}
          \/ v.from < today /\ mo' = (mo \ {v}) \cup {[v EXCEPT !.to = today]}
          \/ mo' = (mo \ {v}) \cup
                     {[v EXCEPT !.primary = IF Lookups!IsPrimary(v) THEN "no" ELSE "calculated"]}
    BY DEF Lookups!Edit
  <2>2. CASE mo' = mo \ {v}
    BY <1>2, <2>2
  <2>3. CASE v.from < today /\ mo' = (mo \ {v}) \cup {[v EXCEPT !.to = today]}
    <3> DEFINE w == [v EXCEPT !.to = today]
    <3>1. w \in Lookups!Validities /\ w.from = v.from /\ w.to = today
      BY <1>2 DEF LookupInv, Lookups!TypeOK, Lookups!Validities
    <3> QED
      BY <1>2, <2>3, <3>1
  <2>4. CASE mo' = (mo \ {v}) \cup
                     {[v EXCEPT !.primary = IF Lookups!IsPrimary(v) THEN "no" ELSE "calculated"]}
    <3> DEFINE w == [v EXCEPT !.primary = IF Lookups!IsPrimary(v) THEN "no" ELSE "calculated"]
    <3>1. w \in Lookups!Validities /\ w.from = v.from /\ w.to = v.to
      BY <1>2 DEF Lookups!Validities, Lookups!Marks
    <3> QED
      BY <1>2, <2>4, <3>1
  <2> QED
    BY <2>1, <2>2, <2>3, <2>4
<1>4. LookupInv'
  <2>1. Lookups!TypeOK'
    BY <1>1, <1>3 DEF LookupInv, Lookups!TypeOK
  <2> QED
    BY <1>1, <1>3, <2>1 DEF LookupInv, Ordered
<1>5. disturbed' /\ outcome' # "empty"
  BY <1>1, <1>4 DEF LookupInv
<1> QED
  BY <1>4, <1>5, Disturbed, Zenon

LEMMA MidnightKeeps ==
  ASSUME LookupInv, Lookups!Midnight
  PROVE  LookupInv' /\ LookupGood'
<1>1. /\ ~disturbed /\ disturbed' = TRUE
      /\ lookup \notin {"ask", "answered"}
      /\ today < LastDay /\ today' = today + 1
      /\ UNCHANGED <<mo, kind, keep, lookup, chosen, seen, outcome, found>>
  BY DEF Lookups!Midnight, Lookups!UnderWay
<1>2. today' \in Lookups!Days /\ today \in Nat
  <2>1. today \in 1 .. LastDay /\ LastDay \in Nat
    BY Assumed DEF LookupInv, Lookups!TypeOK, Lookups!Days
  <2>2. today + 1 \in 1 .. LastDay
    BY <1>1, <2>1
  <2> QED
    BY <1>1, <2>1, <2>2 DEF Lookups!Days
<1>3. ASSUME lookup = "compute", NEW v \in seen
      PROVE  today' <= v.to
  <2>1. v \in Lookups!Validities /\ today < v.to
    BY <1>1, <1>3 DEF LookupInv, Lookups!TypeOK, Lookups!ReadEngagements
  <2>2. v.to \in Nat
    BY <2>1, Numbers
  <2> QED
    BY <1>1, <1>2, <2>1, <2>2
<1>4. LookupInv'
  <2>1. Lookups!TypeOK'
    BY <1>1, <1>2 DEF LookupInv, Lookups!TypeOK
  <2> QED
    BY <1>1, <1>3, <2>1 DEF LookupInv, Ordered
<1>5. disturbed' /\ outcome' # "empty"
  BY <1>1, <1>4 DEF LookupInv
<1> QED
  BY <1>4, <1>5, Disturbed, Zenon

LEMMA LookupSame ==
  ASSUME LookupInv, LookupGood, UNCHANGED lookupVars
  PROVE  LookupInv' /\ LookupGood'
<1>1. UNCHANGED <<today, mo, kind, keep, lookup, chosen, seen, outcome, found, disturbed>>
  BY DEF lookupVars
<1>2. LookupInv'
  <2>1. Lookups!TypeOK'
    BY <1>1 DEF LookupInv, Lookups!TypeOK
  <2>2. /\ Lookups!IsTimeline(mo)' = Lookups!IsTimeline(mo)
        /\ Lookups!ReadEngagements' = Lookups!ReadEngagements
    BY <1>1, SameLookup
  <2>3. kind # "engagement" => ChosenFrom(Lookups!Candidates)' = ChosenFrom(Lookups!Candidates)
    BY <1>1, SameCandidates DEF ChosenFrom
  <2> QED
    BY <1>1, <2>1, <2>2, <2>3 DEF LookupInv, Ordered
<1>3. Lookups!CurrentServed'
  <2>1. Lookups!Current(Lookups!Candidates)' = Lookups!Current(Lookups!Candidates)
    BY <1>1, SameCandidates
  <2>2. Lookups!Cardinality(Lookups!Current(Lookups!Candidates))'
          = Lookups!Cardinality(Lookups!Current(Lookups!Candidates))
    BY <2>1
  <2> QED
    BY <1>1, <2>1, <2>2 DEF LookupGood, Lookups!CurrentServed, Lookups!Undisturbed
<1>4. (Lookups!NoneWhenLeft /\ Lookups!AgreesWithCalculated)'
  <2> DEFINE all == Lookups!Of(mo, Engagements)
  <2>1. all' = all /\ Lookups!Calculated(all)' = Lookups!Calculated(all)
        /\ Lookups!EmploymentInterval(all)' = Lookups!EmploymentInterval(all)
    BY <1>1
  <2>2. Lookups!Current(all)' = Lookups!Current(all)
    BY <1>1, <2>1 DEF Lookups!Current, Lookups!IsCurrent
  <2> QED
    BY <1>1, <2>1, <2>2 DEF LookupGood, Lookups!NoneWhenLeft, Lookups!AgreesWithCalculated,
                            Lookups!Undisturbed
<1> QED
  BY <1>2, <1>3, <1>4 DEF LookupGood

LEMMA LookupNext ==
  ASSUME LookupInv, LookupGood, Lookups!Next \/ UNCHANGED lookupVars
  PROVE  LookupInv' /\ LookupGood'
<1>1. CASE Lookups!GetPrimaryEngagement
  BY <1>1, GetPrimaryKeeps
<1>2. CASE Lookups!LoadAddress \/ Lookups!LoadItUser \/ Lookups!LoadOrgUnitAddress
  BY <1>2, AskKeeps
<1>3. CASE Lookups!LoadEngagement
  BY <1>3, LoadEngagementKeeps
<1>4. CASE Lookups!LoadMoEngagement \/ Lookups!LoadMoAddress \/ Lookups!LoadMoItUser
  BY <1>4, LoadChosenKeeps
<1>5. CASE Lookups!LoadRecalculated
  BY <1>5, LoadRecalculatedKeeps
<1>6. CASE Lookups!ComputePrimary
  BY <1>6, ComputePrimaryKeeps
<1>7. CASE Lookups!Edit
  BY <1>7, EditKeeps
<1>8. CASE Lookups!Midnight
  BY <1>8, MidnightKeeps
<1>9. CASE UNCHANGED lookupVars
  BY <1>9, LookupSame
<1> QED
  BY <1>1, <1>2, <1>3, <1>4, <1>5, <1>6, <1>7, <1>8, <1>9, Zenon DEF Lookups!Next

-----------------------------------------------------------------------------
(* The units above a unit form a chain.                                      *)

LEMMA Organisation ==
  /\ Me \in People /\ Vacant \notin People /\ Start \in Units /\ NoUnit \notin Units
  /\ MaxEdits \in Nat
  BY TemplatesAssumption DEF Managers!ManagersAssumption

UpwardsClosed(S) == \A w \in S : parent[w] = NoUnit \/ parent[w] \in S

LEMMA AncestorsLeast ==
  ASSUME NEW S \in SUBSET Units, NEW u \in S, UpwardsClosed(S)
  PROVE  Managers!Ancestors(u) \subseteq S
  BY DEF Managers!Ancestors, UpwardsClosed

LEMMA AncestorsClosed ==
  ASSUME Managers!TypeOK, NEW u \in Units
  PROVE  /\ u \in Managers!Ancestors(u) /\ Managers!Ancestors(u) \in SUBSET Units
         /\ UpwardsClosed(Managers!Ancestors(u))
<1>1. u \in Managers!Ancestors(u) /\ Managers!Ancestors(u) \in SUBSET Units
  BY DEF Managers!Ancestors
<1>2. ASSUME NEW w \in Managers!Ancestors(u), parent[w] # NoUnit
      PROVE  parent[w] \in Managers!Ancestors(u)
  <2>1. w \in Units /\ parent[w] \in Units
    BY <1>2 DEF Managers!Ancestors, Managers!TypeOK
  <2> QED
    BY <1>2, <2>1 DEF Managers!Ancestors
<1> QED
  BY <1>1, <1>2 DEF UpwardsClosed

LEMMA AncestorsTransitive ==
  ASSUME Managers!TypeOK, NEW u \in Units, NEW v \in Managers!Ancestors(u)
  PROVE  v \in Units /\ Managers!Ancestors(v) \subseteq Managers!Ancestors(u)
  BY AncestorsClosed, AncestorsLeast

LEMMA AncestorsStep ==
  ASSUME Managers!TypeOK, NEW u \in Units, NEW v \in Managers!Ancestors(u), v # u
  PROVE  parent[u] \in Units /\ v \in Managers!Ancestors(parent[u])
<1>1. parent[u] \in Units \cup {NoUnit}
  BY DEF Managers!TypeOK
<1>2. CASE parent[u] = NoUnit
  <2>1. UpwardsClosed({u})
    BY <1>2 DEF UpwardsClosed
  <2> QED
    BY <2>1, AncestorsLeast
<1>3. CASE parent[u] \in Units
  <2> DEFINE A == Managers!Ancestors(parent[u])
             S == {u} \cup A
  <2>1. parent[u] \in A /\ A \in SUBSET Units /\ UpwardsClosed(A)
    BY <1>3, AncestorsClosed
  <2> HIDE DEF A
  <2>2. S \in SUBSET Units /\ u \in S /\ UpwardsClosed(S)
    BY <2>1 DEF UpwardsClosed
  <2> HIDE DEF S
  <2>3. v \in S
    BY <2>2, AncestorsLeast
  <2> QED
    BY <1>3, <2>3 DEF S, A
<1> QED
  BY <1>1, <1>2, <1>3

LEMMA AncestorsCompared ==
  ASSUME Managers!TypeOK, NEW s \in Units,
         NEW v \in Managers!Ancestors(s), NEW w \in Managers!Ancestors(s)
  PROVE  w \in Managers!Ancestors(v) \/ v \in Managers!Ancestors(w)
<1> DEFINE S == {x \in Managers!Ancestors(s) :
                    w \in Managers!Ancestors(x) \/ x \in Managers!Ancestors(w)}
<1>1. w \in Units
  BY AncestorsTransitive
<1>2. S \in SUBSET Units /\ s \in S
  BY AncestorsClosed
<1>3. ASSUME NEW x \in S, parent[x] # NoUnit
      PROVE  parent[x] \in S
  <2>1. x \in Units /\ parent[x] \in Units /\ parent[x] \in Managers!Ancestors(s)
    BY <1>2, <1>3, AncestorsClosed DEF UpwardsClosed, Managers!TypeOK
  <2>2. CASE x \in Managers!Ancestors(w)
    <3>1. parent[x] \in Managers!Ancestors(w)
      BY <1>1, <1>3, <2>2, AncestorsClosed DEF UpwardsClosed
    <3> QED
      BY <2>1, <3>1
  <2>3. CASE w \in Managers!Ancestors(x) /\ w # x
    BY <2>1, <2>3, AncestorsStep
  <2>4. CASE w = x
    BY <1>1, <2>2, <2>4, AncestorsClosed
  <2> QED
    BY <1>3, <2>2, <2>3, <2>4
<1>4. UpwardsClosed(S)
  BY <1>3 DEF UpwardsClosed
<1> HIDE DEF S
<1>5. v \in S
  BY <1>2, <1>4, AncestorsLeast
<1> QED
  BY <1>5 DEF S

LEMMA AncestorsApart ==
  ASSUME Managers!TypeOK, Managers!IsForest, NEW u \in Units,
         NEW v \in Managers!Ancestors(u), u \in Managers!Ancestors(v)
  PROVE  u = v
<1> SUFFICES ASSUME u # v
             PROVE  FALSE
  OBVIOUS
<1>1. parent[u] \in Units /\ v \in Managers!Ancestors(parent[u])
  BY AncestorsStep
<1>2. u \in Managers!Ancestors(parent[u])
  BY <1>1, AncestorsTransitive
<1>3. parent[u] # NoUnit
  BY <1>1, Organisation
<1> QED
  BY <1>2, <1>3 DEF Managers!IsForest

-----------------------------------------------------------------------------
(* The climb: in every unit between the first and where it is, she manages    *)
(* herself.                                                                  *)

BelowIsHers ==
  /\ at \in Managers!Ancestors(Start)
  /\ \A u \in Managers!Ancestors(Start) :
        at \in Managers!Ancestors(u) /\ u # at => Me \in Managers!Inherited(u)

ClimbInv ==
  /\ Managers!TypeOK
  /\ edits = 0 =>
       /\ Managers!IsForest
       /\ climb # "answered" => BelowIsHers
       /\ climb = "parent" => Me \in Managers!Inherited(at)

LEMMA ClimbStarts ==
  ASSUME Managers!TypeOK, Managers!IsForest, at = Start, climb = "managers", edits = 0
  PROVE  ClimbInv /\ RightManager
<1>1. BelowIsHers
  BY AncestorsClosed, AncestorsTransitive, AncestorsApart, Organisation DEF BelowIsHers
<1> QED
  BY <1>1 DEF ClimbInv, RightManager, Managers!RightManager, Managers!OwnManagerOnlyAtTop,
              Managers!NearestOther, Managers!Undisturbed

LEMMA ClimbInit ==
  ASSUME Managers!Init \/ NoManager
  PROVE  ClimbInv /\ RightManager
<1>1. CASE Managers!Init
  <2>1. Managers!TypeOK
    BY <1>1, Organisation DEF Managers!Init, Managers!TypeOK
  <2> QED
    BY <1>1, <2>1, ClimbStarts DEF Managers!Init
<1>2. CASE NoManager
  <2>1. Managers!TypeOK
    BY <1>2, Organisation DEF NoManager, Managers!TypeOK
  <2>2. Managers!IsForest
    BY <1>2 DEF NoManager, Managers!IsForest
  <2> QED
    BY <1>2, <2>1, <2>2, ClimbStarts DEF NoManager
<1> QED
  BY <1>1, <1>2

LEMMA SameUnits ==
  ASSUME parent' = parent, managers' = managers
  PROVE  /\ \A u : Managers!Ancestors(u)' = Managers!Ancestors(u)
         /\ \A u : Managers!Inherited(u)' = Managers!Inherited(u)
         /\ Managers!IsForest' = Managers!IsForest
<1>1. \A u : Managers!Ancestors(u)' = Managers!Ancestors(u)
  BY DEF Managers!Ancestors
<1>2. \A u : Managers!Nearest(u)' = Managers!Nearest(u)
  BY <1>1 DEF Managers!Nearest
<1>3. \A u : Managers!Inherited(u)' = Managers!Inherited(u)
  BY <1>2 DEF Managers!Inherited
<1>4. Managers!IsForest' = Managers!IsForest
  BY <1>1 DEF Managers!IsForest
<1> QED
  BY <1>1, <1>3, <1>4

LEMMA InheritedTyped ==
  ASSUME Managers!TypeOK, NEW u \in Units
  PROVE  Managers!Inherited(u) \subseteq People \cup {Vacant}
<1>1. \A v \in Managers!Nearest(u) : managers[v] \subseteq People \cup {Vacant}
  BY DEF Managers!Nearest, Managers!Ancestors, Managers!TypeOK
<1> QED
  BY <1>1 DEF Managers!Inherited

\* Where a unit has managers they are what it inherits.
LEMMA OwnManagersFirst ==
  ASSUME Managers!TypeOK, Managers!IsForest, NEW v \in Units, managers[v] # {}
  PROVE  Managers!Inherited(v) \subseteq managers[v]
<1> SUFFICES ASSUME NEW x \in Managers!Inherited(v)
             PROVE  x \in managers[v]
  OBVIOUS
<1>1. PICK n \in Managers!Nearest(v) : x \in managers[n]
  BY DEF Managers!Inherited
<1>2. n \in Managers!Ancestors(v) /\ v \in Managers!Ancestors(n)
  BY AncestorsClosed DEF Managers!Nearest
<1>3. n = v
  BY <1>2, AncestorsApart
<1> QED
  BY <1>1, <1>3

\* Whoever is inherited where the climb is, is the nearest of the others.
LEMMA NearestOfOthers ==
  ASSUME Managers!TypeOK, Managers!IsForest, BelowIsHers, NEW x \in Managers!Inherited(at)
  PROVE  \E u \in Managers!Ancestors(Start) :
            /\ x \in managers[u]
            /\ \A v \in Managers!Ancestors(Start) \ Managers!Ancestors(u) :
                  managers[v] # {} => Me \in managers[v]
<1>1. PICK u \in Managers!Nearest(at) : x \in managers[u]
  BY DEF Managers!Inherited
<1>2. /\ u \in Managers!Ancestors(at)
      /\ \A w \in Managers!Ancestors(at) : managers[w] # {} => w \in Managers!Ancestors(u)
  BY DEF Managers!Nearest
<1>3. at \in Units /\ u \in Managers!Ancestors(Start)
  BY <1>2, AncestorsTransitive, Organisation DEF BelowIsHers
<1>4. ASSUME NEW v \in Managers!Ancestors(Start), v \notin Managers!Ancestors(u), managers[v] # {}
      PROVE  Me \in managers[v]
  <2>1. v \notin Managers!Ancestors(at)
    BY <1>2, <1>4
  <2>2. v \in Units /\ at \in Managers!Ancestors(v) /\ v # at
    <3>1. v \in Units /\ v # at
      BY <1>3, <2>1, AncestorsTransitive, AncestorsClosed, Organisation
    <3>2. at \in Managers!Ancestors(v)
      BY <2>1, AncestorsCompared, Organisation DEF BelowIsHers
    <3> QED
      BY <3>1, <3>2
  <2>3. Me \in Managers!Inherited(v)
    BY <2>2 DEF BelowIsHers
  <2> QED
    BY <1>4, <2>2, <2>3, OwnManagersFirst
<1> QED
  BY <1>1, <1>3, <1>4

LEMMA AskManagersKeeps ==
  ASSUME ClimbInv, Managers!AskManagers
  PROVE  ClimbInv' /\ RightManager'
<1>1. climb = "managers" /\ UNCHANGED <<parent, managers, closed, at, edits>>
  BY DEF Managers!AskManagers, Managers!Answer
<1>2. \/ /\ Managers!Inherited(at) \subseteq {Vacant}
         /\ climb' = "answered" /\ manager' = Managers!Inherited(at)
      \/ \E p \in Managers!Inherited(at) \ {Me} : climb' = "answered" /\ manager' = {p}
      \/ Me \in Managers!Inherited(at) /\ climb' = "parent" /\ manager' = manager
  BY DEF Managers!AskManagers, Managers!Answer
<1>3. Managers!TypeOK'
  <2>1. Managers!Inherited(at) \subseteq People \cup {Vacant}
    BY InheritedTyped DEF ClimbInv, Managers!TypeOK
  <2>2. manager' \subseteq People \cup {Vacant} /\ climb' \in {"parent", "answered"}
    BY <1>2, <2>1 DEF ClimbInv, Managers!TypeOK
  <2> QED
    BY <1>1, <2>2 DEF ClimbInv, Managers!TypeOK
<1>4. ClimbInv'
  <2>1. BelowIsHers' = BelowIsHers
    BY <1>1, SameUnits DEF BelowIsHers
  <2>2. Managers!Inherited(at)' = Managers!Inherited(at)
    BY <1>1 DEF Managers!Inherited, Managers!Nearest, Managers!Ancestors
  <2>3. climb' = "parent" => Me \in Managers!Inherited(at)
    BY <1>2
  <2> QED
    BY <1>1, <1>3, <2>1, <2>2, <2>3, SameUnits DEF ClimbInv
<1>5. CASE edits # 0 \/ climb' = "parent"
  BY <1>1, <1>4, <1>5 DEF RightManager, Managers!RightManager, Managers!OwnManagerOnlyAtTop,
                          Managers!NearestOther, Managers!Undisturbed
<1>6. CASE edits = 0 /\ climb' # "parent"
  <2>1. Managers!TypeOK /\ Managers!IsForest /\ BelowIsHers
    BY <1>1, <1>6 DEF ClimbInv
  <2>2. manager' = {} \/ \E x \in Managers!Inherited(at) : x # Me /\ manager' = {x}
    BY <1>2, <1>6, Organisation
  <2>3. manager' # {Me}
    BY <2>2
  <2>4. manager' # {} =>
          \E u \in Managers!Ancestors(Start) :
            /\ manager' \subseteq managers[u]
            /\ \A v \in Managers!Ancestors(Start) \ Managers!Ancestors(u) :
                  managers[v] # {} => Me \in managers[v]
    BY <2>1, <2>2, NearestOfOthers
  <2>5. Managers!NearestOther'
    BY <1>1, <2>4, SameUnits DEF Managers!NearestOther
  <2>6. Managers!OwnManagerOnlyAtTop'
    BY <2>3 DEF Managers!OwnManagerOnlyAtTop
  <2> QED
    BY <1>4, <2>5, <2>6 DEF RightManager, Managers!RightManager
<1> QED
  BY <1>5, <1>6

LEMMA AskParentKeeps ==
  ASSUME ClimbInv, Managers!AskParent
  PROVE  ClimbInv' /\ RightManager'
<1>1. climb = "parent" /\ UNCHANGED <<parent, managers, closed, edits>>
  BY DEF Managers!AskParent, Managers!Answer
<1>2. \/ /\ at \in closed \/ parent[at] = NoUnit
         /\ climb' = "answered" /\ manager' = {Me} /\ at' = at
      \/ /\ parent[at] # NoUnit
         /\ climb' = "managers" /\ manager' = manager /\ at' = parent[at]
  BY DEF Managers!AskParent, Managers!Answer, Managers!LoadParent
<1>3. at \in Units /\ parent[at] \in Units \cup {NoUnit}
  BY DEF ClimbInv, Managers!TypeOK
<1>4. Managers!TypeOK'
  <2>1. at' \in Units /\ manager' \subseteq People \cup {Vacant} /\ climb' \in {"managers", "answered"}
    BY <1>2, <1>3, Organisation DEF ClimbInv, Managers!TypeOK
  <2> QED
    BY <1>1, <2>1 DEF ClimbInv, Managers!TypeOK
<1>5. CASE edits # 0
  BY <1>1, <1>4, <1>5 DEF ClimbInv, RightManager, Managers!RightManager,
                          Managers!OwnManagerOnlyAtTop, Managers!NearestOther, Managers!Undisturbed
<1>6. CASE edits = 0 /\ climb' = "answered"
  <2>1. /\ Managers!IsForest /\ BelowIsHers /\ Me \in Managers!Inherited(at)
        /\ at \in closed \/ parent[at] = NoUnit
        /\ manager' = {Me} /\ at' = at
    BY <1>1, <1>2, <1>6 DEF ClimbInv
  <2>2. \A u \in Managers!Ancestors(Start) : at \in Managers!Ancestors(u) => Me \in Managers!Inherited(u)
    BY <2>1 DEF BelowIsHers
  <2>3. Managers!OwnManagerOnlyAtTop'
    BY <1>1, <2>1, <2>2, SameUnits DEF Managers!OwnManagerOnlyAtTop
  <2>4. Managers!NearestOther'
    BY <2>1 DEF Managers!NearestOther
  <2>5. ClimbInv'
    BY <1>1, <1>4, <1>6, <2>1, SameUnits DEF ClimbInv
  <2> QED
    BY <2>3, <2>4, <2>5 DEF RightManager, Managers!RightManager
<1>7. CASE edits = 0 /\ climb' = "managers"
  <2>1. /\ Managers!TypeOK /\ Managers!IsForest /\ BelowIsHers /\ Me \in Managers!Inherited(at)
        /\ parent[at] # NoUnit /\ at' = parent[at]
    BY <1>1, <1>2, <1>7 DEF ClimbInv
  <2>2. parent[at] \in Managers!Ancestors(Start)
    BY <2>1, AncestorsClosed, Organisation DEF BelowIsHers, UpwardsClosed
  <2>3. ASSUME NEW u \in Managers!Ancestors(Start),
               parent[at] \in Managers!Ancestors(u), u # parent[at]
        PROVE  Me \in Managers!Inherited(u)
    <3>1. CASE at \in Managers!Ancestors(u)
      BY <2>1, <3>1 DEF BelowIsHers
    <3>2. CASE at \notin Managers!Ancestors(u)
      <4>1. u \in Units /\ u \in Managers!Ancestors(at) /\ u # at
        <5>1. u \in Units
          BY <2>1, AncestorsTransitive, Organisation
        <5>2. u # at
          BY <2>1, <3>2, <5>1, AncestorsClosed
        <5>3. u \in Managers!Ancestors(at)
          BY <2>1, <3>2, AncestorsCompared, Organisation DEF BelowIsHers
        <5> QED
          BY <5>1, <5>2, <5>3
      <4>2. parent[at] \in Units /\ u \in Managers!Ancestors(parent[at])
        BY <1>3, <2>1, <4>1, AncestorsStep
      <4>3. u = parent[at]
        BY <2>1, <2>3, <4>1, <4>2, AncestorsApart
      <4> QED
        BY <2>3, <4>3
    <3> QED
      BY <3>1, <3>2
  <2>4. BelowIsHers'
    BY <1>1, <2>1, <2>2, <2>3, SameUnits DEF BelowIsHers
  <2> QED
    BY <1>1, <1>4, <1>7, <2>1, <2>4, SameUnits
       DEF ClimbInv, RightManager, Managers!RightManager, Managers!OwnManagerOnlyAtTop,
           Managers!NearestOther, Managers!Undisturbed
<1> QED
  BY <1>2, <1>5, <1>6, <1>7

\* Once the organisation has changed nothing is said of the answer.
LEMMA MoveKeeps ==
  ASSUME ClimbInv, Managers!Edit
  PROVE  ClimbInv' /\ RightManager'
<1>1. edits < MaxEdits /\ edits' = edits + 1 /\ UNCHANGED <<closed, at, climb, manager>>
  BY DEF Managers!Edit
<1>2. edits \in 0 .. MaxEdits /\ MaxEdits \in Nat
  BY Organisation DEF ClimbInv, Managers!TypeOK
<1>3. edits' \in 0 .. MaxEdits /\ edits' # 0
  BY <1>1, <1>2
<1>4. /\ parent' \in [Units -> Units \cup {NoUnit}]
      /\ managers' \in [Units -> SUBSET (People \cup {Vacant})]
  <2>1. CASE \E u \in Units, v \in Units \cup {NoUnit} :
                parent' = [parent EXCEPT ![u] = v] /\ managers' = managers
    BY <2>1 DEF ClimbInv, Managers!TypeOK
  <2>2. CASE \E u \in Units, S \in {{}, {Me}, {Vacant}} :
                managers' = [managers EXCEPT ![u] = S] /\ parent' = parent
    <3>1. \A S \in {{}, {Me}, {Vacant}} : S \in SUBSET (People \cup {Vacant})
      BY Organisation
    <3> QED
      BY <2>2, <3>1 DEF ClimbInv, Managers!TypeOK
  <2> QED
    BY <2>1, <2>2 DEF Managers!Edit
<1>5. Managers!TypeOK'
  BY <1>1, <1>3, <1>4 DEF ClimbInv, Managers!TypeOK
<1> QED
  BY <1>3, <1>5 DEF ClimbInv, RightManager, Managers!RightManager,
                    Managers!OwnManagerOnlyAtTop, Managers!NearestOther, Managers!Undisturbed

LEMMA ClimbSame ==
  ASSUME ClimbInv, RightManager, UNCHANGED managerVars
  PROVE  ClimbInv' /\ RightManager'
<1>1. UNCHANGED <<parent, managers, closed, at, climb, manager, edits>>
  BY DEF managerVars
<1>2. BelowIsHers' = BelowIsHers
  BY <1>1, SameUnits DEF BelowIsHers
<1>3. Managers!Inherited(at)' = Managers!Inherited(at)
  BY <1>1 DEF Managers!Inherited, Managers!Nearest, Managers!Ancestors
<1>4. ClimbInv'
  BY <1>1, <1>2, <1>3, SameUnits DEF ClimbInv, Managers!TypeOK
<1>5. Managers!OwnManagerOnlyAtTop' /\ Managers!NearestOther'
  BY <1>1, SameUnits DEF RightManager, Managers!RightManager, Managers!OwnManagerOnlyAtTop,
                         Managers!NearestOther, Managers!Undisturbed
<1> QED
  BY <1>4, <1>5 DEF RightManager, Managers!RightManager

LEMMA ClimbNext ==
  ASSUME ClimbInv, RightManager, Managers!Next \/ UNCHANGED managerVars
  PROVE  ClimbInv' /\ RightManager'
  BY AskManagersKeeps, AskParentKeeps, MoveKeeps, ClimbSame, Zenon DEF Managers!Next

-----------------------------------------------------------------------------
(* Classes.  The moves from one place in the code to the next.               *)

LEMMA StageTyped ==
  ASSUME Classes!TypeOK, NEW h \in Handlers, NEW from,
         NEW to \in {"find", "facet", "lock", "look", "create", "done", "failed"},
         Classes!Step(h, from, to)
  PROVE  stage' \in [Handlers -> {"find", "facet", "lock", "look", "create", "done", "failed"}]
  BY DEF Classes!TypeOK, Classes!Step

LEMMA ClassesNextTyped ==
  ASSUME Classes!TypeOK, Classes!Next \/ UNCHANGED classVars
  PROVE  Classes!TypeOK'
<1>1. ASSUME NEW h \in Handlers, Classes!Find(h)
      PROVE  Classes!TypeOK'
  <2>1. stage' \in [Handlers -> {"find", "facet", "lock", "look", "create", "done", "failed"}]
    BY <1>1, StageTyped DEF Classes!Find
  <2>2. got' \in [Handlers -> SUBSET (Keys \X Facets)]
    BY <1>1 DEF Classes!TypeOK, Classes!Find, Classes!Give
  <2> QED
    BY <1>1, <2>1, <2>2 DEF Classes!TypeOK, Classes!Find
<1>2. ASSUME NEW h \in Handlers, Classes!LoadFacet(h)
      PROVE  Classes!TypeOK'
  BY <1>2, StageTyped DEF Classes!TypeOK, Classes!LoadFacet
<1>3. ASSUME NEW h \in Handlers, Classes!Lock(h)
      PROVE  Classes!TypeOK'
  BY <1>3, StageTyped DEF Classes!TypeOK, Classes!Lock
<1>4. ASSUME NEW h \in Handlers, Classes!Look(h)
      PROVE  Classes!TypeOK'
  <2>1. stage' \in [Handlers -> {"find", "facet", "lock", "look", "create", "done", "failed"}]
    BY <1>4, StageTyped DEF Classes!Look
  <2>2. got' \in [Handlers -> SUBSET (Keys \X Facets)]
    BY <1>4 DEF Classes!TypeOK, Classes!Look, Classes!Give, Classes!Named
  <2> QED
    BY <1>4, <2>1, <2>2 DEF Classes!TypeOK, Classes!Look
<1>5. ASSUME NEW h \in Handlers, Classes!Create(h)
      PROVE  Classes!TypeOK'
  <2>1. stage' \in [Handlers -> {"find", "facet", "lock", "look", "create", "done", "failed"}]
    BY <1>5, StageTyped DEF Classes!Create
  <2>2. got' \in [Handlers -> SUBSET (Keys \X Facets)]
    BY <1>5 DEF Classes!TypeOK, Classes!Create, Classes!Give
  <2>3. classes' \in [Keys \X Facets -> Nat]
    BY <1>5 DEF Classes!TypeOK, Classes!Create
  <2> QED
    BY <1>5, <2>1, <2>2, <2>3 DEF Classes!TypeOK, Classes!Create
<1>6. CASE UNCHANGED classVars
  BY <1>6 DEF Classes!TypeOK, classVars
<1> QED
  BY <1>1, <1>2, <1>3, <1>4, <1>5, <1>6 DEF Classes!Next, Classes!Handle

-----------------------------------------------------------------------------
(* The lock: whoever takes it finds nobody of his process inside.           *)

LEMMA LockKept ==
  ASSUME Classes!TypeOK, Classes!OneInCriticalSection, Classes!Next \/ UNCHANGED classVars
  PROVE  Classes!OneInCriticalSection'
<1>1. ASSUME NEW h \in Handlers, Classes!Lock(h)
      PROVE  Classes!OneInCriticalSection'
  BY <1>1 DEF Classes!TypeOK, Classes!OneInCriticalSection, Classes!Inside, Classes!Lock, Classes!Step
<1>2. ASSUME NEW h \in Handlers,
             Classes!Find(h) \/ Classes!LoadFacet(h) \/ Classes!Look(h) \/ Classes!Create(h)
      PROVE  Classes!OneInCriticalSection'
  <2>1. /\ process' = process
        /\ \E from, to \in {"find", "facet", "lock", "look", "create", "done", "failed"} :
              /\ Classes!Step(h, from, to)
              /\ to \in {"look", "create"} => from \in {"look", "create"}
    BY <1>2 DEF Classes!Find, Classes!LoadFacet, Classes!Look, Classes!Create
  <2> QED
    BY <2>1 DEF Classes!TypeOK, Classes!OneInCriticalSection, Classes!Inside, Classes!Step
<1>3. CASE UNCHANGED classVars
  BY <1>3 DEF Classes!OneInCriticalSection, Classes!Inside, classVars
<1> QED
  BY <1>1, <1>2, <1>3 DEF Classes!Next, Classes!Handle

-----------------------------------------------------------------------------
(* What one process creates.  A class that MO did not have has a user key   *)
(* of its own, and who is about to create one found none.                   *)

CreatedAlone ==
    \A c \in Keys \X Facets : classes[c] # before[c] =>
        /\ classes[c] = 1 /\ before[c] = 0
        /\ \A d \in Keys \X Facets : d[1] = c[1] /\ d # c => classes[d] = 0 /\ before[d] = 0

StillNone == \A h \in Handlers : stage[h] = "create" => Classes!Named(wants[h][1]) = {}

Sole == Classes!OneProcess => CreatedAlone /\ StillNone /\ Classes!FailsOnlyAsFound

ClassInv == Classes!TypeOK /\ Classes!OneInCriticalSection /\ Sole

\* A handler fails on two classes of its user key, and those MO had before.
LEMMA FailedAsFound ==
  ASSUME Classes!TypeOK, CreatedAlone, NEW h \in Handlers, NEW c \in Keys \X Facets,
         c[1] = wants[h][1], classes[c] > 0,
         \/ classes[c] > 1
         \/ \E d \in Keys \X Facets : d[1] = c[1] /\ d # c /\ classes[d] > 0
  PROVE  \E a, d \in Keys \X Facets :
            /\ a[1] = wants[h][1] /\ d[1] = a[1]
            /\ before[a] > 0 /\ before[d] > 0
            /\ a = d => before[a] > 1
<1>1. CASE classes[c] > 1
  <2>1. before[c] = classes[c]
    BY <1>1 DEF CreatedAlone, Classes!TypeOK
  <2> QED
    BY <1>1, <2>1
<1>2. CASE \E d \in Keys \X Facets : d[1] = c[1] /\ d # c /\ classes[d] > 0
  <2>1. PICK d \in Keys \X Facets : d[1] = c[1] /\ d # c /\ classes[d] > 0
    BY <1>2
  <2>2. classes[d] # 0 /\ classes[c] # 0
    BY <2>1 DEF Classes!TypeOK
  <2>3. classes[c] = before[c] /\ classes[d] = before[d]
    BY <2>1, <2>2 DEF CreatedAlone
  <2> QED
    BY <2>1, <2>3
<1> QED
  BY <1>1, <1>2

LEMMA SoleKept ==
  ASSUME ClassInv, Classes!Next \/ UNCHANGED classVars
  PROVE  Sole'
<1> USE DEF ClassInv
<1> SUFFICES ASSUME Classes!OneProcess'
             PROVE  (CreatedAlone /\ StillNone /\ Classes!FailsOnlyAsFound)'
  BY DEF Sole
<1>0. process' = process /\ before' = before /\ wants' = wants
  BY DEF Classes!Next, Classes!Handle, Classes!Find, Classes!LoadFacet, Classes!Lock, Classes!Look,
         Classes!Create, classVars
<1>1. Classes!OneProcess /\ CreatedAlone /\ StillNone /\ Classes!FailsOnlyAsFound
  BY <1>0 DEF Classes!OneProcess, Sole
<1>2. ASSUME NEW h \in Handlers, Classes!Find(h)
      PROVE  (CreatedAlone /\ StillNone /\ Classes!FailsOnlyAsFound)'
  <2>1. classes' = classes
    BY <1>2 DEF Classes!Find
  <2>2. \A g \in Handlers : stage'[g] = "create" => stage[g] = "create"
    BY <1>2 DEF Classes!Find, Classes!Step, Classes!TypeOK
  <2>3. CreatedAlone' /\ StillNone'
    BY <1>0, <1>1, <2>1, <2>2 DEF CreatedAlone, StillNone, Classes!Named
  <2>4. ASSUME NEW g \in Handlers, stage'[g] = "failed", stage[g] # "failed"
        PROVE  g = h /\ classes[wants[h]] > 1
    BY <1>2, <2>4 DEF Classes!Find, Classes!Step, Classes!TypeOK
  <2>5. wants[h] \in Keys \X Facets
    BY DEF Classes!TypeOK
  <2>6. ASSUME NEW g \in Handlers, stage'[g] = "failed", stage[g] # "failed"
        PROVE  \E a, d \in Keys \X Facets :
                  /\ a[1] = wants[g][1] /\ d[1] = a[1]
                  /\ before[a] > 0 /\ before[d] > 0
                  /\ a = d => before[a] > 1
    <3>1. g = h /\ classes[wants[h]] > 1
      BY <2>4, <2>6
    <3>2. classes[wants[h]] > 0
      BY <2>5, <3>1 DEF Classes!TypeOK
    <3> QED
      BY <1>1, <2>5, <3>1, <3>2, FailedAsFound
  <2>7. Classes!FailsOnlyAsFound'
    BY <1>0, <1>1, <2>6 DEF Classes!FailsOnlyAsFound
  <2> QED
    BY <2>3, <2>7
<1>3. ASSUME NEW h \in Handlers, Classes!LoadFacet(h) \/ Classes!Lock(h)
      PROVE  (CreatedAlone /\ StillNone /\ Classes!FailsOnlyAsFound)'
  <2>1. /\ classes' = classes
        /\ \A g \in Handlers : stage'[g] = stage[g] \/ stage'[g] \in {"lock", "look"}
    BY <1>3 DEF Classes!LoadFacet, Classes!Lock, Classes!Step, Classes!TypeOK
  <2> QED
    BY <1>0, <1>1, <2>1 DEF CreatedAlone, StillNone, Classes!FailsOnlyAsFound, Classes!Named,
                            Classes!OneProcess
<1>4. ASSUME NEW h \in Handlers, Classes!Look(h)
      PROVE  (CreatedAlone /\ StillNone /\ Classes!FailsOnlyAsFound)'
  <2>1. classes' = classes
    BY <1>4 DEF Classes!Look
  <2>2. \A g \in Handlers : stage'[g] = "create" =>
           stage[g] = "create" \/ (g = h /\ Classes!Named(wants[h][1]) = {})
    BY <1>4 DEF Classes!Look, Classes!Step, Classes!TypeOK
  <2>3. CreatedAlone' /\ StillNone'
    BY <1>0, <1>1, <2>1, <2>2 DEF CreatedAlone, StillNone, Classes!Named
  <2>4. ASSUME NEW g \in Handlers, stage'[g] = "failed", stage[g] # "failed"
        PROVE  /\ g = h /\ Classes!Named(wants[h][1]) # {}
               /\ ~\E c \in Classes!Named(wants[h][1]) : Classes!Named(wants[h][1]) = {c} /\ classes[c] = 1
    BY <1>4, <2>4 DEF Classes!Look, Classes!Step, Classes!TypeOK
  <2>5. ASSUME NEW g \in Handlers, stage'[g] = "failed", stage[g] # "failed"
        PROVE  \E a, d \in Keys \X Facets :
                  /\ a[1] = wants[h][1] /\ d[1] = a[1]
                  /\ before[a] > 0 /\ before[d] > 0
                  /\ a = d => before[a] > 1
    <3>1. PICK c \in Keys \X Facets : c[1] = wants[h][1] /\ classes[c] > 0
      BY <2>4, <2>5 DEF Classes!Named
    <3>2. CASE classes[c] > 1
      BY <1>1, <3>1, <3>2, FailedAsFound
    <3>3. CASE classes[c] = 1
      <4>1. PICK d \in Classes!Named(wants[h][1]) : d # c
        BY <2>4, <2>5, <3>1, <3>3 DEF Classes!Named
      <4>2. d \in Keys \X Facets /\ d[1] = c[1] /\ classes[d] > 0
        BY <3>1, <4>1 DEF Classes!Named
      <4> QED
        BY <1>1, <3>1, <4>1, <4>2, FailedAsFound
    <3> QED
      BY <3>1, <3>2, <3>3 DEF Classes!TypeOK
  <2>6. Classes!FailsOnlyAsFound'
    BY <1>0, <1>1, <2>4, <2>5 DEF Classes!FailsOnlyAsFound
  <2> QED
    BY <2>3, <2>6
<1>5. ASSUME NEW h \in Handlers, Classes!Create(h)
      PROVE  (CreatedAlone /\ StillNone /\ Classes!FailsOnlyAsFound)'
  <2>1. stage[h] = "create" /\ wants[h] \in Keys \X Facets
    BY <1>5 DEF Classes!Create, Classes!Step, Classes!TypeOK
  <2>2. \A c \in Keys \X Facets : c[1] = wants[h][1] => classes[c] = 0
    BY <1>1, <2>1 DEF StillNone, Classes!Named, Classes!TypeOK
  <2>3. \A c \in Keys \X Facets : c[1] = wants[h][1] => before[c] = 0
    BY <1>1, <2>2 DEF CreatedAlone
  <2>4. classes' = [classes EXCEPT ![wants[h]] = 1]
    <3>1. classes[wants[h]] + 1 = 1
      BY <2>1, <2>2
    <3> QED
      BY <1>5, <3>1 DEF Classes!Create
  <2>5. CreatedAlone'
    BY <1>0, <1>1, <2>1, <2>2, <2>3, <2>4 DEF CreatedAlone, Classes!TypeOK
  <2>6. \A g \in Handlers : stage[g] = "create" => g = h
    BY <1>1, <2>1 DEF Classes!OneProcess, Classes!OneInCriticalSection, Classes!Inside
  <2>7. \A g \in Handlers : stage'[g] = stage[g] \/ (g = h /\ stage'[g] = "done")
    BY <1>5 DEF Classes!Create, Classes!Step, Classes!TypeOK
  <2>8. stage'[h] = "done"
    BY <1>5 DEF Classes!Create, Classes!Step, Classes!TypeOK
  <2>9. StillNone'
    BY <2>6, <2>7, <2>8 DEF StillNone
  <2>10. Classes!FailsOnlyAsFound'
    BY <1>0, <1>1, <2>7 DEF Classes!FailsOnlyAsFound, Classes!OneProcess
  <2> QED
    BY <2>5, <2>9, <2>10
<1>6. CASE UNCHANGED classVars
  BY <1>1, <1>6 DEF CreatedAlone, StillNone, Classes!FailsOnlyAsFound, Classes!Named,
                    Classes!OneProcess, classVars
<1> QED
  BY <1>2, <1>3, <1>4, <1>5, <1>6 DEF Classes!Next, Classes!Handle

-----------------------------------------------------------------------------
(* How many classes of one user key there are.  Who is about to create one    *)
(* counts as if he had: he found none, and is alone in his process.          *)

LEMMA ClassesAssumed ==
  /\ Processes # {} /\ Keys # {} /\ Facets # {} /\ MaxClasses \in Nat
  /\ IsFiniteSet(Handlers) /\ IsFiniteSet(Keys) /\ IsFiniteSet(Facets)
  /\ \A S : Classes!Cardinality(S) = Cardinality(S)
<1>1. \A S : Classes!IsFiniteSet(S) <=> IsFiniteSet(S)
  BY DEF Classes!IsFiniteSet, IsFiniteSet
<1>2. \A S : Classes!Cardinality(S) = Cardinality(S)
  BY DEF Classes!Cardinality, Cardinality
<1> QED
  BY <1>1, <1>2, TemplatesAssumption DEF Classes!ClassesAssumption

LEMMA CountedMembers ==
  ASSUME NEW n, NEW k, NEW q
  PROVE  q \in Classes!Counted(n, k) <=>
           \E c \in Keys \X Facets : c[1] = k /\ \E i \in 1 .. n[c] : q = <<c, i>>
  BY DEF Classes!Counted

LEMMA CountedFinite ==
  ASSUME NEW n \in [Keys \X Facets -> Nat], NEW k
  PROVE  IsFiniteSet(Classes!Counted(n, k))
<1> DEFINE C == {d \in Keys \X Facets : d[1] = k}
           Some(c) == {<<c, i>> : i \in 1 .. n[c]}
           f == [c \in C |-> Some(c)]
           All == {Some(c) : c \in C}
<1>1. IsFiniteSet(C)
  BY ClassesAssumed, FS_Product, FS_Subset
<1>2. ASSUME NEW c \in C
      PROVE  IsFiniteSet(Some(c))
  <2> DEFINE g == [i \in 1 .. n[c] |-> <<c, i>>]
  <2>1. IsFiniteSet(1 .. n[c])
    BY FS_Interval
  <2>2. g \in Surjection(1 .. n[c], Some(c))
    BY DEF Surjection
  <2> QED
    BY <2>1, <2>2, FS_Surjection
<1>3. f \in Surjection(C, All)
  <2> HIDE DEF C, Some
  <2>1. f \in [C -> All] /\ \A T \in All : \E c \in C : f[c] = T
    OBVIOUS
  <2> QED
    BY <2>1 DEF Surjection
<1>4. IsFiniteSet(All)
  BY <1>1, <1>3, FS_Surjection
<1>5. \A T \in All : IsFiniteSet(T)
  BY <1>2
<1>6. Classes!Counted(n, k) = UNION All
  BY DEF Classes!Counted
<1> HIDE DEF All
<1> QED
  BY <1>4, <1>5, <1>6, FS_UNION

Creators(k) == {process[h] : h \in {g \in Handlers : stage[g] = "create" /\ wants[g][1] = k}}

CountedIs(k) ==
  IF Classes!Counted(before, k) # {}
  THEN Classes!Counted(classes, k) = Classes!Counted(before, k) /\ Creators(k) = {}
  ELSE Cardinality(Classes!Counted(classes, k)) + Cardinality(Creators(k))
          <= Cardinality(Classes!Range(process))

AllCounted == \A k \in Keys : CountedIs(k)

LEMMA CreatorsFinite ==
  ASSUME Classes!TypeOK, NEW k
  PROVE  /\ Creators(k) \in SUBSET Classes!Range(process)
         /\ IsFiniteSet(Classes!Range(process)) /\ IsFiniteSet(Creators(k))
         /\ Cardinality(Creators(k)) \in Nat
         /\ Cardinality(Creators(k)) <= Cardinality(Classes!Range(process))
         /\ Cardinality(Classes!Range(process)) \in Nat
<1>1. process \in Surjection(Handlers, Classes!Range(process))
  BY DEF Surjection, Classes!TypeOK, Classes!Range
<1>2. IsFiniteSet(Classes!Range(process))
  BY <1>1, ClassesAssumed, FS_Surjection
<1>3. Creators(k) \in SUBSET Classes!Range(process)
  BY DEF Creators, Classes!TypeOK, Classes!Range
<1> QED
  BY <1>2, <1>3, FS_Subset, FS_CardinalityType

\* A step that neither creates a class nor leads to "create".
LEMMA CountedSame ==
  ASSUME AllCounted, UNCHANGED <<process, before, classes, wants>>,
         NEW k \in Keys, Creators(k)' = Creators(k)
  PROVE  CountedIs(k)'
  BY DEF AllCounted, CountedIs

LEMMA CountedKept ==
  ASSUME ClassInv, AllCounted, Classes!Next \/ UNCHANGED classVars
  PROVE  AllCounted'
<1> SUFFICES ASSUME NEW k \in Keys
             PROVE  CountedIs(k)'
  BY DEF AllCounted
<1>0. Classes!TypeOK /\ Classes!OneInCriticalSection
  BY DEF ClassInv
<1>1. process' = process /\ before' = before /\ wants' = wants
  BY DEF Classes!Next, Classes!Handle, Classes!Find, Classes!LoadFacet, Classes!Lock, Classes!Look,
         Classes!Create, classVars
<1>2. ASSUME NEW h \in Handlers, Classes!Find(h) \/ Classes!LoadFacet(h) \/ Classes!Lock(h)
      PROVE  CountedIs(k)'
  <2>1. classes' = classes /\ \A g \in Handlers : stage'[g] = "create" <=> stage[g] = "create"
    BY <1>0, <1>2 DEF Classes!Find, Classes!LoadFacet, Classes!Lock, Classes!Step, Classes!TypeOK
  <2>2. Creators(k)' = Creators(k)
    BY <1>1, <2>1 DEF Creators
  <2> QED
    BY <1>1, <2>1, <2>2, CountedSame
<1>3. ASSUME NEW h \in Handlers, Classes!Look(h)
      PROVE  CountedIs(k)'
  <2>1. classes' = classes /\ wants[h] \in Keys \X Facets
    BY <1>0, <1>3 DEF Classes!Look, Classes!TypeOK
  <2>2. CASE Classes!Named(wants[h][1]) = {} /\ wants[h][1] = k
    <3>1. \A c \in Keys \X Facets : c[1] = k => classes[c] = 0
      BY <1>0, <2>2 DEF Classes!Named, Classes!TypeOK
    <3>2. Classes!Counted(classes, k) = {}
      BY <3>1, CountedMembers
    <3>3. Classes!Counted(before, k) = {}
      BY <3>2 DEF AllCounted, CountedIs
    <3>4. Creators(k)' \in SUBSET Classes!Range(process)
      BY <1>0, <1>1 DEF Creators, Classes!TypeOK, Classes!Range
    <3>5. /\ Cardinality(Creators(k)') <= Cardinality(Classes!Range(process))
          /\ Cardinality(Creators(k)') \in Nat
      <4> DEFINE some == Creators(k)'
      <4> HIDE DEF some
      <4>1. some \in SUBSET Classes!Range(process) /\ IsFiniteSet(Classes!Range(process))
        BY <1>0, <3>4, CreatorsFinite DEF some
      <4>2. Cardinality(some) <= Cardinality(Classes!Range(process)) /\ Cardinality(some) \in Nat
        BY <4>1, FS_Subset, FS_CardinalityType
      <4> QED
        BY <4>2 DEF some
    <3>6. Cardinality(Classes!Counted(classes, k))' = 0
      BY <2>1, <3>2, FS_EmptySet
    <3> QED
      BY <1>1, <3>3, <3>5, <3>6 DEF CountedIs
  <2>3. CASE ~(Classes!Named(wants[h][1]) = {} /\ wants[h][1] = k)
    <3>1. \A g \in Handlers : (stage'[g] = "create" /\ wants[g][1] = k)
                                <=> (stage[g] = "create" /\ wants[g][1] = k)
      BY <1>0, <1>3, <2>3 DEF Classes!Look, Classes!Step, Classes!TypeOK
    <3>2. Creators(k)' = Creators(k)
      BY <1>1, <3>1 DEF Creators
    <3> QED
      BY <1>1, <2>1, <3>2, CountedSame
  <2> QED
    BY <2>2, <2>3
<1>4. ASSUME NEW h \in Handlers, Classes!Create(h)
      PROVE  CountedIs(k)'
  <2> DEFINE c == wants[h]
             new == <<c, classes[c] + 1>>
  <2>1. /\ c \in Keys \X Facets /\ stage[h] = "create" /\ stage' = [stage EXCEPT ![h] = "done"]
        /\ classes' = [classes EXCEPT ![c] = @ + 1]
    BY <1>0, <1>4 DEF Classes!Create, Classes!Step, Classes!TypeOK
  <2>2. CASE c[1] # k
    <3>1. \A d \in Keys \X Facets : d[1] = k => classes'[d] = classes[d]
      BY <1>0, <2>1, <2>2 DEF Classes!TypeOK
    <3>2. Classes!Counted(classes, k)' = Classes!Counted(classes, k)
      BY <3>1, CountedMembers DEF Classes!Counted
    <3>3. \A g \in Handlers : (stage'[g] = "create" /\ wants[g][1] = k)
                                <=> (stage[g] = "create" /\ wants[g][1] = k)
      BY <1>0, <2>1, <2>2 DEF Classes!TypeOK
    <3>4. Creators(k)' = Creators(k)
      BY <1>1, <3>3 DEF Creators
    <3> QED
      BY <1>1, <3>2, <3>4 DEF AllCounted, CountedIs
  <2>3. CASE c[1] = k
    <3>1. process[h] \in Creators(k)
      BY <2>1, <2>3 DEF Creators
    <3>2. Classes!Counted(before, k) = {}
      BY <3>1 DEF AllCounted, CountedIs
    <3>3. Classes!Counted(classes, k)' = Classes!Counted(classes, k) \cup {new}
      <4>1. \A d \in Keys \X Facets : classes[d] \in Nat
                 /\ classes'[d] = IF d = c THEN classes[d] + 1 ELSE classes[d]
        BY <1>0, <2>1 DEF Classes!TypeOK
      <4>2. ASSUME NEW d \in Keys \X Facets, NEW i
            PROVE  i \in 1 .. classes'[d] <=> (i \in 1 .. classes[d] \/ (d = c /\ i = classes[c] + 1))
        BY <4>1
      <4>3. ASSUME NEW q
            PROVE  q \in Classes!Counted(classes', k) <=> q \in Classes!Counted(classes, k) \/ q = new
        <5> DEFINE some == classes'
        <5>1. q \in Classes!Counted(classes, k) <=>
                \E d \in Keys \X Facets : d[1] = k /\ \E i \in 1 .. classes[d] : q = <<d, i>>
          BY CountedMembers
        <5>2. q \in Classes!Counted(some, k) <=>
                \E d \in Keys \X Facets : d[1] = k /\ \E i \in 1 .. some[d] : q = <<d, i>>
          <6> HIDE DEF some
          <6> QED
            BY CountedMembers
        <5>3. classes[c] + 1 \in 1 .. some[c]
          BY <2>1, <4>1
        <5> QED
          BY <2>1, <2>3, <4>2, <5>1, <5>2, <5>3
      <4>4. Classes!Counted(classes, k)' = Classes!Counted(classes', k)
        BY DEF Classes!Counted
      <4> QED
        BY <4>3, <4>4
    <3>4. Creators(k)' = Creators(k) \ {process[h]}
      <4>1. \A g \in Handlers : stage'[g] = "create" <=> (stage[g] = "create" /\ g # h)
        BY <1>0, <2>1 DEF Classes!TypeOK
      <4>2. \A g \in Handlers : stage[g] = "create" /\ process[g] = process[h] => g = h
        BY <1>0, <2>1 DEF Classes!OneInCriticalSection, Classes!Inside
      <4> QED
        BY <1>1, <4>1, <4>2 DEF Creators
    <3>5. Cardinality(Creators(k))' = Cardinality(Creators(k)) - 1
      <4>1. IsFiniteSet(Creators(k))
        BY <1>0, CreatorsFinite
      <4>2. Cardinality(Creators(k) \ {process[h]}) = Cardinality(Creators(k)) - 1
        BY <3>1, <4>1, FS_RemoveElement
      <4> QED
        BY <3>4, <4>2
    <3>6. Cardinality(Classes!Counted(classes, k))' <= Cardinality(Classes!Counted(classes, k)) + 1
      <4> DEFINE A == Classes!Counted(classes, k)
      <4>1. IsFiniteSet(A)
        BY <1>0, CountedFinite DEF Classes!TypeOK
      <4>2. Cardinality(A) \in Nat /\ A' = A \cup {new}
        BY <3>3, <4>1, FS_CardinalityType
      <4> HIDE DEF A, new
      <4>3. Cardinality(A \cup {new}) = IF new \in A THEN Cardinality(A) ELSE Cardinality(A) + 1
        BY <4>1, FS_AddElement
      <4>4. Cardinality(A \cup {new}) <= Cardinality(A) + 1
        BY <4>2, <4>3
      <4> QED
        BY <4>2, <4>4 DEF A
    <3>7. /\ Cardinality(Classes!Counted(classes, k)) \in Nat
          /\ Cardinality(Classes!Counted(classes, k))' \in Nat
      <4>1. classes \in [Keys \X Facets -> Nat] /\ classes' \in [Keys \X Facets -> Nat]
        BY <1>0, <2>1 DEF Classes!TypeOK
      <4>2. Classes!Counted(classes, k)' = Classes!Counted(classes', k)
        BY DEF Classes!Counted
      <4> QED
        BY <4>1, <4>2, CountedFinite, FS_CardinalityType
    <3>8. Cardinality(Creators(k)) \in Nat /\ Cardinality(Classes!Range(process)) \in Nat
      BY <1>0, CreatorsFinite
    <3>9. Cardinality(Classes!Counted(classes, k)) + Cardinality(Creators(k))
             <= Cardinality(Classes!Range(process))
      BY <3>2 DEF AllCounted, CountedIs
    <3>10. Cardinality(Classes!Counted(classes, k))' + Cardinality(Creators(k))'
             <= Cardinality(Classes!Range(process))
      BY <3>5, <3>6, <3>7, <3>8, <3>9
    <3> QED
      BY <1>1, <3>2, <3>10 DEF CountedIs
  <2> QED
    BY <2>2, <2>3
<1>5. CASE UNCHANGED classVars
  <2>1. UNCHANGED <<process, before, classes, wants, stage>>
    BY <1>5 DEF classVars
  <2>2. Creators(k)' = Creators(k)
    BY <2>1 DEF Creators
  <2> QED
    BY <2>1, <2>2, CountedSame
<1> QED
  BY <1>2, <1>3, <1>4, <1>5 DEF Classes!Next, Classes!Handle

\* At first nobody creates anything.
LEMMA CountedInit ==
  ASSUME Classes!TypeOK, classes = before, \A h \in Handlers : stage[h] # "create"
  PROVE  AllCounted
<1> SUFFICES ASSUME NEW k \in Keys
             PROVE  CountedIs(k)
  BY DEF AllCounted
<1>1. Creators(k) = {}
  BY DEF Creators
<1>2. Cardinality(Creators(k)) = 0 /\ Cardinality({}) = 0
  BY <1>1, FS_EmptySet
<1>3. Cardinality(Classes!Range(process)) \in Nat
  BY CreatorsFinite
<1> QED
  BY <1>1, <1>2, <1>3 DEF CountedIs

LEMMA CountedWithin ==
  ASSUME Classes!TypeOK, AllCounted
  PROVE  OnePerProcess
<1> SUFFICES ASSUME NEW k \in Keys, Classes!Counted(before, k) = {}
             PROVE  Cardinality(Classes!Counted(classes, k)) <= Cardinality(Classes!Range(process))
  BY ClassesAssumed DEF OnePerProcess, Classes!OnePerProcess, AllCounted, CountedIs
<1>1. Cardinality(Classes!Counted(classes, k)) + Cardinality(Creators(k))
          <= Cardinality(Classes!Range(process))
  BY DEF AllCounted, CountedIs
<1>2. /\ Cardinality(Classes!Counted(classes, k)) \in Nat /\ Cardinality(Creators(k)) \in Nat
      /\ Cardinality(Classes!Range(process)) \in Nat
  BY CountedFinite, CreatorsFinite, FS_CardinalityType DEF Classes!TypeOK
<1> QED
  BY <1>1, <1>2

LEMMA ClassesInit ==
  ASSUME Classes!Init \/ NoClass
  PROVE  ClassInv /\ AllCounted
<1>1. /\ classes = before /\ before \in [Keys \X Facets -> Nat]
      /\ process \in [Handlers -> Processes] /\ wants \in [Handlers -> Keys \X Facets]
      /\ stage = [h \in Handlers |-> "find"] /\ got = [h \in Handlers |-> {}]
  <2>1. Processes # {} /\ Keys \X Facets # {} /\ MaxClasses \in Nat
    <3>1. Processes # {} /\ Keys # {} /\ Facets # {} /\ MaxClasses \in Nat
      BY ClassesAssumed
    <3>2. PICK k \in Keys, f \in Facets : <<k, f>> \in Keys \X Facets
      BY <3>1
    <3> QED
      BY <3>1, <3>2
  <2>2. CASE Classes!Init
    BY <2>1, <2>2 DEF Classes!Init
  <2>3. CASE NoClass
    <3>1. (CHOOSE p \in Processes : TRUE) \in Processes
      BY <2>1
    <3>2. (CHOOSE c \in Keys \X Facets : TRUE) \in Keys \X Facets
      BY <2>1
    <3> QED
      BY <2>3, <3>1, <3>2 DEF NoClass
  <2> QED
    BY <2>2, <2>3
<1>2. ClassInv
  BY <1>1 DEF ClassInv, Classes!TypeOK, Classes!OneInCriticalSection, Classes!Inside, Sole,
              CreatedAlone, StillNone, Classes!FailsOnlyAsFound
<1> QED
  BY <1>1, <1>2, CountedInit DEF ClassInv

LEMMA ClassesNext ==
  ASSUME ClassInv, AllCounted, Classes!Next \/ UNCHANGED classVars
  PROVE  ClassInv' /\ AllCounted'
  BY ClassesNextTyped, LockKept, SoleKept, CountedKept DEF ClassInv

\* What one process creates has a user key that no facet had a class of.
LEMMA CreatesNewKey ==
  ASSUME ClassInv, Classes!Next
  PROVE  Classes!AddsNewKey
<1> SUFFICES ASSUME Classes!OneProcess, NEW c \in Keys \X Facets, classes'[c] # classes[c]
             PROVE  Classes!Named(c[1]) = {} /\ classes'[c] = 1
  BY DEF Classes!AddsNewKey
<1>1. PICK h \in Handlers : Classes!Create(h)
  BY DEF Classes!Next, Classes!Handle, Classes!Find, Classes!LoadFacet, Classes!Lock, Classes!Look
<1>2. stage[h] = "create" /\ wants[h] \in Keys \X Facets
  BY <1>1 DEF ClassInv, Classes!Create, Classes!Step, Classes!TypeOK
<1>3. Classes!Named(wants[h][1]) = {}
  BY <1>2 DEF ClassInv, Sole, StillNone
<1>4. c = wants[h] /\ classes'[c] = classes[c] + 1
  BY <1>1, <1>2 DEF ClassInv, Classes!Create, Classes!TypeOK
<1>5. classes[c] = 0
  BY <1>3, <1>4 DEF ClassInv, Classes!Named, Classes!TypeOK
<1> QED
  BY <1>3, <1>4, <1>5

-----------------------------------------------------------------------------
(* The rendering of a template, which uses one of them or, for a manager, the *)
(* look-up of the primary engagement and then the climb.                     *)

Inv ==
  /\ uses \in {"lookup", "manager", "class"}
  /\ LookupInv /\ LookupGood
  /\ ClimbInv /\ RightManager
  /\ ClassInv /\ AllCounted

LEMMA InvInit ==
  ASSUME Init
  PROVE  Inv
<1>1. LookupInv
  BY LookupInit, EmployedInit DEF Init
<1>2. LookupGood
  <2>1. lookup = "ask"
    BY DEF Init, Lookups!Init, PrimaryOf
  <2> QED
    BY <1>1, <2>1 DEF LookupInv, LookupGood, Lookups!CurrentServed, Lookups!NoneWhenLeft,
                      Lookups!AgreesWithCalculated, Lookups!Undisturbed
<1>3. ClimbInv /\ RightManager
  BY ClimbInit DEF Init
<1>4. ClassInv /\ AllCounted
  BY ClassesInit DEF Init
<1> QED
  BY <1>1, <1>2, <1>3, <1>4 DEF Inv, Init

\* What a step may do to each of the parts.
LEMMA StepOfAPart ==
  ASSUME [Next]_vars
  PROVE  /\ uses' = uses
         /\ Lookups!Next \/ UNCHANGED lookupVars
         /\ Managers!Next \/ UNCHANGED managerVars
         /\ Classes!Next \/ UNCHANGED classVars
<1>1. CASE LookUp
  BY <1>1 DEF LookUp
<1>2. CASE LookUpEngagement
  BY <1>2 DEF LookUpEngagement, Lookups!Next
<1>3. CASE Climb
  BY <1>3 DEF Climb
<1>4. CASE \E h \in Handlers : GetClass(h)
  BY <1>4 DEF GetClass, Classes!Next
<1>5. CASE UNCHANGED vars
  BY <1>5 DEF vars
<1> QED
  BY <1>1, <1>2, <1>3, <1>4, <1>5, Zenon DEF Next

LEMMA InvNext ==
  ASSUME Inv, [Next]_vars
  PROVE  Inv'
<1>1. /\ uses' = uses
      /\ Lookups!Next \/ UNCHANGED lookupVars
      /\ Managers!Next \/ UNCHANGED managerVars
      /\ Classes!Next \/ UNCHANGED classVars
  BY StepOfAPart
<1>2. LookupInv' /\ LookupGood'
  BY <1>1, LookupNext, Zenon DEF Inv
<1>3. ClimbInv' /\ RightManager'
  BY <1>1, ClimbNext, Zenon DEF Inv
<1>4. ClassInv' /\ AllCounted'
  BY <1>1, ClassesNext, Zenon DEF Inv
<1> QED
  BY <1>1, <1>2, <1>3, <1>4, Zenon DEF Inv

LEMMA InvHolds == Spec => []Inv
<1>1. Init => Inv
  BY InvInit
<1>2. Inv /\ [Next]_vars => Inv'
  BY InvNext
<1> QED
  BY <1>1, <1>2, PTL DEF Spec

\* Type correctness of all that templates call.
THEOREM TypeCorrect == Spec => []TypeOK
<1>1. Inv => TypeOK
  BY DEF Inv, LookupInv, ClimbInv, ClassInv, TypeOK
<1> QED
  BY <1>1, InvHolds, PTL

\* While nobody edits MO a look-up in two requests returns the only candidate that
\* is current, whatever MO keeps of each object, and nothing when there are two.
THEOREM TwoRequestsServe == Spec => []CurrentServed
<1>1. Inv => CurrentServed
  BY DEF Inv, LookupGood, CurrentServed
<1> QED
  BY <1>1, InvHolds, PTL

\* Once primaries are calculated a person has no primary engagement only when her
\* employment has ended, both functions for it agree, and the one that calculates
\* always has an engagement to take the max() of, also over midnight.
THEOREM PrimaryIsFound == Spec => []PrimaryFound
<1>1. Inv => PrimaryFound
  BY DEF Inv, LookupGood, PrimaryFound
<1> QED
  BY <1>1, InvHolds, PTL

\* In an organisation of any size and shape a climb ends with the nearest manager
\* other than the person herself, and with herself only at the top.
THEOREM ClimbEndsRight == Spec => []RightManager
<1>1. Inv => RightManager
  BY DEF Inv
<1> QED
  BY <1>1, InvHolds, PTL

\* In every process at most one handler is between the look and the creation
\* (create_mo_class_lock, moapi.py lines 964-998).
THEOREM LockExcludes == Spec => []Classes!OneInCriticalSection
<1>1. Inv => Classes!OneInCriticalSection
  BY DEF Inv, ClassInv
<1> QED
  BY <1>1, InvHolds, PTL

\* One process fails to get a class only where MO had two of the user key before
\* anybody asked: also when renderings want one new class, or classes of two
\* facets by one user key, at a time.
THEOREM FailsOnFound == Spec => []FailsOnlyAsFound
<1>1. Inv => FailsOnlyAsFound
  BY DEF Inv, ClassInv, Sole, Classes!FailsOnlyAsFound, FailsOnlyAsFound
<1> QED
  BY <1>1, InvHolds, PTL

\* Any number of processes create at most one class each of a user key, and none of
\* a user key that MO has (create_mo_class, moapi.py lines 964-998).
THEOREM OneEach == Spec => []OnePerProcess
<1>1. Inv => OnePerProcess
  BY CountedWithin DEF Inv, ClassInv
<1> QED
  BY <1>1, InvHolds, PTL

\* What one process creates has a user key that no facet had a class of.
THEOREM CreatesOnlyNewKeys == Spec => [][Classes!AddsNewKey]_classVars
<1>1. Inv /\ [Next]_vars => [Classes!AddsNewKey]_classVars
  BY StepOfAPart, CreatesNewKey, Zenon DEF Inv
<1> QED
  BY <1>1, InvHolds, PTL DEF Spec
=============================================================================
