---------------------- MODULE AggregateVersionsProofs ----------------------
(***************************************************************************)
(* What optimistic concurrency rests on, for every sequence of events: the *)
(* latest version of an aggregate is the number of its events, and an      *)
(* event that carries the next one keeps the numbering.                    *)
(***************************************************************************)
EXTENDS AggregateVersions, FiniteSetTheorems, SequenceTheorems, TLAPS

\* A set of naturals that is not empty has a least element.
LEMMA LeastExists ==
    ASSUME NEW S \in SUBSET Nat, S # {}
    PROVE  \E x \in S : \A y \in S : x <= y
  <1>1. PICK u \in S : \A v \in S : ~(<<v, u>> \in OpToRel(<, Nat))
    BY WFMin, NatLessThanWellFounded
  <1>2. ASSUME NEW v \in Nat, v < u PROVE <<v, u>> \in OpToRel(<, Nat)
    <2>1. u \in Nat
      OBVIOUS
    <2>2. <<v, u>> \in Nat \X Nat
      BY <2>1
    <2>3. <<v, u>>[1] = v /\ <<v, u>>[2] = u
      OBVIOUS
    <2>4. <<v, u>>[1] < <<v, u>>[2]
      BY <1>2, <2>3
    <2>. QED
      BY <2>2, <2>4, Zenon DEF OpToRel
  <1>3. \A v \in S : v \in Nat /\ ~(v < u)
    BY <1>1, <1>2, Zenon
  <1>4. \A v \in S : u <= v
    BY <1>3
  <1>. QED
    BY <1>4

\* Min is that element.
LEMMA MinIsLeast ==
    ASSUME NEW S \in SUBSET Nat, S # {}
    PROVE  Min(S) \in S /\ \A x \in S : Min(S) <= x
  BY LeastExists DEF Min

\* A set of naturals that is not empty and is bounded has a greatest element, and
\* Max is it.
LEMMA MaxIsGreatest ==
    ASSUME NEW S \in SUBSET Nat, S # {}, \E bound \in Nat : \A x \in S : x <= bound
    PROVE  Max(S) \in S /\ \A x \in S : x <= Max(S)
  <1> DEFINE U == {u \in Nat : \A x \in S : x <= u}
  <1>1. U # {} /\ U \in SUBSET Nat
    OBVIOUS
  <1>2. PICK u \in U : \A v \in U : u <= v
    BY <1>1, LeastExists
  <1>3. u \in S
    <2> SUFFICES ASSUME u \notin S PROVE FALSE
      OBVIOUS
    <2>1. PICK x \in S : TRUE
      OBVIOUS
    <2>2. \A y \in S : y < u
      BY <1>1
    <2>3. u - 1 \in U
      BY <1>1, <2>1, <2>2
    <2>4. QED
      BY <1>1, <1>2, <2>3
  <1>4. \E x \in S : \A y \in S : x >= y
    BY <1>1, <1>3
  <1>5. QED
    BY <1>4 DEF Max

\* Finitely many naturals are bounded.
LEMMA FinitelyManyBounded ==
    ASSUME NEW n \in Nat, NEW f \in [1..n -> Nat]
    PROVE  \E b \in Nat : \A j \in 1..n : f[j] <= b
  <1> DEFINE Bounded(k) == \E b \in Nat : \A j \in 1..k : f[j] <= b
             unbounded == {k \in 0..n : ~Bounded(k)}
  <1>1. Bounded(0)
    <2>1. \A j \in 1..0 : f[j] <= 0
      OBVIOUS
    <2>. QED
      BY <2>1
  <1>2. ASSUME NEW k \in 1..n, Bounded(k - 1) PROVE Bounded(k)
    <2>1. PICK b \in Nat : \A j \in 1..(k - 1) : f[j] <= b
      BY <1>2
    <2> DEFINE c == b + f[k]
    <2>2. c \in Nat /\ f[k] \in Nat
      OBVIOUS
    <2>3. \A j \in 1..k : f[j] <= c
      <3> TAKE j \in 1..k
      <3>1. j = k \/ j \in 1..(k - 1)
        OBVIOUS
      <3>2. f[j] \in Nat
        OBVIOUS
      <3>. QED
        BY <3>1, <3>2, <2>1, <2>2
    <2> HIDE DEF c
    <2>. QED
      BY <2>2, <2>3
  <1> HIDE DEF Bounded
  <1>3. unbounded = {}
    <2> SUFFICES ASSUME unbounded # {} PROVE FALSE
      OBVIOUS
    <2>1. unbounded \in SUBSET Nat
      OBVIOUS
    <2>2. PICK k \in unbounded : \A l \in unbounded : k <= l
      <3> HIDE DEF unbounded
      <3>. QED
        BY <2>1, LeastExists
    <2>3. k \in 0..n /\ ~Bounded(k)
      BY <2>2
    <2>4. k \in 1..n
      BY <2>3, <1>1
    <2>5. k - 1 \in 0..n /\ ~(k <= k - 1)
      BY <2>4
    <2>6. Bounded(k - 1)
      BY <2>2, <2>5
    <2>. QED
      BY <1>2, <2>3, <2>4, <2>6
  <1>4. Bounded(n)
    BY <1>3
  <1>. QED
    BY <1>4 DEF Bounded

\* The latest version of an aggregate is a natural number, however its events are
\* numbered: the versions of finitely many events are bounded.
LEMMA LatestIsNat ==
    ASSUME NEW E, \A e \in E : e.ver \in Nat, NEW events \in Seq(E), NEW aggregate
    PROVE  Latest(events, aggregate) \in Nat
  <1> DEFINE n == Len(events)
             f == [j \in 1..n |-> events[j].ver]
             versions == {e.ver : e \in {x \in ToSet(events) : x.agg = aggregate}} \cup {0}
  <1>1. n \in Nat /\ DOMAIN events = 1..n /\ \A j \in 1..n : events[j] \in E
    BY LenProperties, ElementOfSeq
  <1>2. f \in [1..n -> Nat]
    BY <1>1
  <1>3. PICK b \in Nat : \A j \in 1..n : f[j] <= b
    <2> HIDE DEF f
    <2>. QED
      BY <1>1, <1>2, FinitelyManyBounded
  <1>4. versions \in SUBSET Nat /\ versions # {} /\ \A v \in versions : v <= b
    BY <1>1, <1>3 DEF ToSet
  <1>5. Max(versions) \in Nat
    <2> HIDE DEF versions
    <2>. QED
      BY <1>4, MaxIsGreatest
  <1>. QED
    BY <1>5 DEF Latest

\* The versions of an aggregate are bounded by the number of its events, and its last
\* event attains it: what get_latest_aggregate_version finds is that number.
LEMMA LatestIsCount ==
    ASSUME NEW E, NEW events \in Seq(E), Contiguous(events), NEW aggregate
    PROVE  /\ Latest(events, aggregate) = Cardinality(Earlier(events, aggregate, Len(events) + 1))
           /\ IsFiniteSet(Earlier(events, aggregate, Len(events) + 1))
           /\ Latest(events, aggregate) \in Nat
  <1> DEFINE n == Len(events)
             mine == Earlier(events, aggregate, n + 1)
             versions == {events[j].ver : j \in mine}
  <1>1. n \in Nat /\ DOMAIN events = 1..n /\ mine \subseteq 1..n
    BY DEF Earlier
  <1> HIDE DEF mine
  <1>2. IsFiniteSet(mine) /\ Cardinality(mine) \in Nat
    <2>1. IsFiniteSet(1..n)
      BY <1>1, FS_Interval
    <2>. QED
      BY <1>1, <2>1, FS_Subset, FS_CardinalityType
  <1>3. \A i \in mine :
           /\ Earlier(events, aggregate, i) \subseteq mine \ {i}
           /\ events[i].ver = 1 + Cardinality(Earlier(events, aggregate, i))
    BY <1>1 DEF mine, Earlier, Contiguous
  <1>4. \A i \in mine : events[i].ver \in Nat /\ events[i].ver <= Cardinality(mine)
    <2> TAKE i \in mine
    <2>1. /\ IsFiniteSet(mine \ {i}) /\ Cardinality(mine \ {i}) = Cardinality(mine) - 1
      BY <1>2, FS_RemoveElement
    <2>2. /\ IsFiniteSet(Earlier(events, aggregate, i))
          /\ Cardinality(Earlier(events, aggregate, i)) <= Cardinality(mine \ {i})
      BY <1>3, <2>1, FS_Subset
    <2>3. Cardinality(Earlier(events, aggregate, i)) \in Nat
      BY <2>2, FS_CardinalityType
    <2>. QED
      BY <1>2, <1>3, <2>1, <2>2, <2>3
  <1>5. Latest(events, aggregate) = Max(versions \cup {0})
    <2>1. {e.ver : e \in {x \in ToSet(events) : x.agg = aggregate}} = versions
      BY <1>1 DEF mine, ToSet, Earlier
    <2>. QED
      BY <2>1 DEF Latest
  <1>6. /\ versions \cup {0} \in SUBSET Nat
        /\ \A v \in versions \cup {0} : v <= Cardinality(mine)
    BY <1>2, <1>4
  <1>7. /\ Max(versions \cup {0}) \in versions \cup {0}
        /\ \A v \in versions \cup {0} : v <= Max(versions \cup {0})
    BY <1>2, <1>6, MaxIsGreatest
  <1>8. Cardinality(mine) \in versions \cup {0}
    <2>1. CASE mine = {}
      BY <2>1, FS_EmptySet
    <2>2. CASE mine # {}
      <3> DEFINE last == Max(mine)
      <3>1. last \in mine /\ \A j \in mine : j <= last
        <4>1. mine \in SUBSET Nat /\ \A j \in mine : j <= n
          BY <1>1
        <4>. QED
          BY <1>1, <4>1, <2>2, MaxIsGreatest
      <3> HIDE DEF last
      <3>2. Earlier(events, aggregate, last) = mine \ {last}
        BY <1>1, <3>1 DEF mine, Earlier
      <3>3. Cardinality(mine \ {last}) = Cardinality(mine) - 1
        BY <1>2, <3>1, FS_RemoveElement
      <3>4. events[last].ver = 1 + Cardinality(mine \ {last})
        BY <1>3, <3>1, <3>2
      <3>5. events[last].ver = Cardinality(mine)
        BY <1>2, <3>3, <3>4
      <3>. QED
        BY <3>1, <3>5
    <2>. QED
      BY <2>1, <2>2
  <1>9. Max(versions \cup {0}) = Cardinality(mine)
    <2> DEFINE greatest == Max(versions \cup {0})
    <2>1. greatest \in Nat /\ greatest <= Cardinality(mine) /\ Cardinality(mine) <= greatest
      BY <1>6, <1>7, <1>8
    <2> HIDE DEF greatest
    <2>2. greatest = Cardinality(mine)
      BY <1>2, <2>1
    <2>. QED
      BY <2>2 DEF greatest
  <1>. QED
    BY <1>2, <1>5, <1>9 DEF mine

\* An event at the version after the latest keeps every aggregate numbered 1, 2, 3, ...
LEMMA AppendContiguous ==
    ASSUME NEW E, NEW events \in Seq(E), Contiguous(events),
           NEW e \in E, e.ver = Latest(events, e.agg) + 1
    PROVE  /\ Append(events, e) \in Seq(E)
           /\ Contiguous(Append(events, e))
  <1> DEFINE n == Len(events)
             longer == Append(events, e)
  <1>1. /\ n \in Nat /\ DOMAIN events = 1..n /\ longer \in Seq(E) /\ DOMAIN longer = 1..(n + 1)
        /\ longer[n + 1] = e /\ \A i \in 1..n : longer[i] = events[i]
    BY AppendProperties
  <1>2. \A a : \A i \in 1..(n + 1) : Earlier(longer, a, i) = Earlier(events, a, i)
    BY <1>1 DEF Earlier
  <1>3. e.ver = 1 + Cardinality(Earlier(events, e.agg, n + 1))
    <2>1. Latest(events, e.agg) = Cardinality(Earlier(events, e.agg, n + 1))
          /\ Latest(events, e.agg) \in Nat
      BY LatestIsCount
    <2>. QED
      BY <2>1
  <1>4. \A i \in 1..(n + 1) : longer[i].ver = 1 + Cardinality(Earlier(longer, longer[i].agg, i))
    <2> TAKE i \in 1..(n + 1)
    <2>1. CASE i = n + 1
      BY <2>1, <1>1, <1>2, <1>3
    <2>2. CASE i # n + 1
      <3>1. i \in 1..n
        BY <2>2, <1>1
      <3>. QED
        BY <3>1, <1>1, <1>2 DEF Contiguous
    <2>. QED
      BY <2>1, <2>2
  <1>. QED
    BY <1>1, <1>4 DEF Contiguous

\* An aggregate without events is at version 0.
LEMMA LatestOfNew ==
    ASSUME NEW E, NEW events \in Seq(E), NEW aggregate,
           \A j \in DOMAIN events : events[j].agg # aggregate
    PROVE  Latest(events, aggregate) = 0
  <1>1. {e.ver : e \in {x \in ToSet(events) : x.agg = aggregate}} \cup {0} = {0}
    BY DEF ToSet
  <1>2. Max({0}) = 0
    <2>1. {0} \in SUBSET Nat /\ {0} # {} /\ \A x \in {0} : x <= 0
      OBVIOUS
    <2>. QED
      BY <2>1, MaxIsGreatest
  <1>. QED
    BY <1>1, <1>2 DEF Latest

\* Events of other aggregates do not change the latest version.
LEMMA LatestAfterOther ==
    ASSUME NEW E, NEW events \in Seq(E), NEW e \in E, NEW aggregate, e.agg # aggregate
    PROVE  Latest(Append(events, e), aggregate) = Latest(events, aggregate)
  <1>1. /\ DOMAIN Append(events, e) = DOMAIN events \cup {Len(events) + 1}
        /\ Append(events, e)[Len(events) + 1] = e
        /\ \A i \in DOMAIN events : Append(events, e)[i] = events[i]
    BY AppendProperties
  <1>2. ToSet(Append(events, e)) = ToSet(events) \cup {e}
    BY <1>1 DEF ToSet
  <1>3. {x \in ToSet(Append(events, e)) : x.agg = aggregate} = {x \in ToSet(events) : x.agg = aggregate}
    BY <1>2
  <1>. QED
    BY <1>3 DEF Latest

\* The event that starts an aggregate has version 1.
LEMMA AppendFresh ==
    ASSUME NEW E, NEW events \in Seq(E), Contiguous(events),
           NEW e \in E, e.ver = 1, \A j \in DOMAIN events : events[j].agg # e.agg
    PROVE  /\ Append(events, e) \in Seq(E)
           /\ Contiguous(Append(events, e))
  <1>1. Latest(events, e.agg) = 0
    BY LatestOfNew
  <1>2. e.ver = Latest(events, e.agg) + 1
    BY <1>1
  <1>. QED
    BY <1>2, AppendContiguous

\* The event just appended has the latest version of its aggregate.
LEMMA LatestAfterOwn ==
    ASSUME NEW E, NEW events \in Seq(E), Contiguous(events),
           NEW e \in E, e.ver = Latest(events, e.agg) + 1
    PROVE  Latest(Append(events, e), e.agg) = e.ver
  <1> DEFINE n == Len(events)
             mine == Earlier(events, e.agg, n + 1)
  <1>1. /\ n \in Nat /\ Len(Append(events, e)) = n + 1
        /\ Append(events, e)[n + 1] = e /\ \A i \in 1..n : Append(events, e)[i] = events[i]
    BY AppendProperties
  <1>2. Earlier(Append(events, e), e.agg, n + 2) = mine \cup {n + 1} /\ n + 1 \notin mine
    BY <1>1 DEF Earlier
  <1>3. Latest(events, e.agg) = Cardinality(mine) /\ IsFiniteSet(mine) /\ Cardinality(mine) \in Nat
    BY LatestIsCount, FS_CardinalityType
  <1>4. Cardinality(mine \cup {n + 1}) = Cardinality(mine) + 1
    BY <1>2, <1>3, FS_AddElement
  <1>5. Latest(Append(events, e), e.agg) = Cardinality(Earlier(Append(events, e), e.agg, n + 2))
    <2>1. Append(events, e) \in Seq(E) /\ Contiguous(Append(events, e))
      BY AppendContiguous
    <2>2. Latest(Append(events, e), e.agg) =
          Cardinality(Earlier(Append(events, e), e.agg, Len(Append(events, e)) + 1))
      BY <2>1, LatestIsCount
    <2>3. Len(Append(events, e)) + 1 = n + 2
      BY <1>1
    <2>. QED
      BY <2>2, <2>3
  <1>. QED
    BY <1>2, <1>3, <1>4, <1>5

\* Appending several events is appending one after the other.
LEMMA ConcatIsAppends ==
    ASSUME NEW E, NEW events \in Seq(E), NEW a \in E, NEW b \in E, NEW c \in E, NEW d \in E
    PROVE  /\ events \o <<a>> = Append(events, a)
           /\ events \o <<a, b>> = Append(Append(events, a), b)
           /\ events \o (<<a, b>> \o <<>>) = Append(Append(events, a), b)
           /\ events \o <<a, b, c>> = Append(Append(Append(events, a), b), c)
           /\ events \o (<<a, b>> \o <<c, d>>) = Append(Append(Append(Append(events, a), b), c), d)
  OBVIOUS

=============================================================================
