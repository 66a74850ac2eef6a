------------------------- MODULE MetricDraftProofs -------------------------
(***************************************************************************)
(* Theorems about MetricDraft, for every number of extraction and import   *)
(* requests, every list of tables, all results of the LLM, and behaviours  *)
(* of every length.                                                        *)
(***************************************************************************)
EXTENDS MetricDraft, FiniteSetTheorems, WellFoundedInduction, TLAPS

-----------------------------------------------------------------------------
(* Lists.                                                                  *)

LEMMA LeastNumber ==
    ASSUME NEW S \in SUBSET Nat, S # {}
    PROVE  \E x \in S : \A y \in S : x <= y
<1> DEFINE Less == OpToRel(<, Nat)
<1>1. IsWellFoundedOn(Less, Nat)
  BY NatLessThanWellFounded
<1>2. \A x, y \in Nat : y < x => <<y, x>> \in Less
  BY DEF OpToRel
<1> HIDE DEF Less
<1>3. PICK R : IsWellFoundedOn(R, Nat) /\ \A x, y \in Nat : y < x => <<y, x>> \in R
  BY <1>1, <1>2, Zenon
<1>4. PICK x \in S : \A y \in S : <<y, x>> \notin R
  BY <1>3, WFMin
<1>5. ASSUME NEW y \in S PROVE x <= y
  <2>1. x \in Nat /\ y \in Nat /\ ~ (y < x)
    BY <1>3, <1>4
  <2> QED
    BY <2>1
<1> QED
  BY <1>5

\* The k-th position exists for every k, and every position is one of them.
LEMMA Ranks ==
    ASSUME NEW S, IsFiniteSet(S), S \subseteq Nat \X Nat
    PROVE  /\ Cardinality(S) \in Nat
           /\ \A k \in 1..Cardinality(S) :
                Nth(S, k) \in S /\ Cardinality(Upto(S, Nth(S, k))) = k
           /\ \A p \in S : \E k \in 1..Cardinality(S) : Nth(S, k) = p
<1> DEFINE rank == [p \in S |-> Cardinality(Upto(S, p))]
           n == Cardinality(S)
<1>1. n \in Nat
  BY FS_CardinalityType
<1>2. ASSUME NEW p \in S
      PROVE  /\ IsFiniteSet(Upto(S, p))
             /\ Cardinality(Upto(S, p)) \in 1..n
  <2>1. Upto(S, p) \in SUBSET S /\ p \in Upto(S, p)
    BY DEF Upto
  <2>2. IsFiniteSet(Upto(S, p)) /\ Cardinality(Upto(S, p)) <= n
    BY <2>1, FS_Subset
  <2>3. Cardinality(Upto(S, p)) \in Nat /\ Cardinality(Upto(S, p)) # 0
    BY <2>1, <2>2, FS_CardinalityType, FS_EmptySet
  <2> QED
    BY <1>1, <2>2, <2>3
<1>3. ASSUME NEW p \in S, NEW q \in S, p # q
      PROVE  Cardinality(Upto(S, p)) # Cardinality(Upto(S, q))
  <2>1. \A a, b \in S : \/ Upto(S, a) \subseteq Upto(S, b) /\ (a # b => b \notin Upto(S, a))
                        \/ Upto(S, b) \subseteq Upto(S, a) /\ (a # b => a \notin Upto(S, b))
    <3> SUFFICES ASSUME NEW a \in S, NEW b \in S
                 PROVE  \/ Upto(S, a) \subseteq Upto(S, b) /\ (a # b => b \notin Upto(S, a))
                        \/ Upto(S, b) \subseteq Upto(S, a) /\ (a # b => a \notin Upto(S, b))
      OBVIOUS
    <3>1. \A x \in S : x[1] \in Nat /\ x[2] \in Nat /\ x = <<x[1], x[2]>>
      OBVIOUS
    <3>2. CASE a[1] < b[1] \/ (a[1] = b[1] /\ a[2] <= b[2])
      BY <3>1, <3>2 DEF Upto
    <3>3. CASE ~ (a[1] < b[1] \/ (a[1] = b[1] /\ a[2] <= b[2]))
      BY <3>1, <3>3 DEF Upto
    <3> QED
      BY <3>2, <3>3
  <2>2. p \in Upto(S, p) /\ q \in Upto(S, q)
    BY DEF Upto
  <2>3. \/ Upto(S, p) \in SUBSET Upto(S, q) /\ Upto(S, p) # Upto(S, q)
        \/ Upto(S, q) \in SUBSET Upto(S, p) /\ Upto(S, p) # Upto(S, q)
    BY <1>3, <2>1, <2>2
  <2> QED
    BY <1>2, <2>3, FS_Subset
<1>4. rank \in Injection(S, 1..n)
  BY <1>2, <1>3 DEF Injection, IsInjective
<1>5. IsFiniteSet(1..n) /\ Cardinality(1..n) = n
  BY <1>1, FS_Interval
<1>6. rank \in Surjection(S, 1..n)
  BY <1>4, <1>5, FS_Injection
<1>7. \A k \in 1..n : \E p \in S : Cardinality(Upto(S, p)) = k
  BY <1>6 DEF Surjection
<1>8. \A k \in 1..n : Nth(S, k) \in S /\ Cardinality(Upto(S, Nth(S, k))) = k
  BY <1>7 DEF Nth
<1>9. ASSUME NEW p \in S PROVE \E k \in 1..n : Nth(S, k) = p
  <2>1. Cardinality(Upto(S, p)) \in 1..n
    BY <1>2
  <2>2. Nth(S, Cardinality(Upto(S, p))) = p
    BY <1>3, <1>8, <2>1
  <2> QED
    BY <2>1, <2>2
<1> QED
  BY <1>1, <1>8, <1>9

\* What the items at given positions are.
LEMMA ItemsAre ==
    ASSUME NEW ss, NEW S, IsFiniteSet(S), S \subseteq Nat \X Nat,
           NEW T, \A p \in S : ss[p[1]][p[2]] \in T
    PROVE  /\ Items(ss, S) \in Seq(T)
           /\ \A k \in DOMAIN Items(ss, S) :
                Nth(S, k) \in S /\ Items(ss, S)[k] = ss[Nth(S, k)[1]][Nth(S, k)[2]]
           /\ \A p \in S : \E k \in DOMAIN Items(ss, S) : Items(ss, S)[k] = ss[p[1]][p[2]]
           /\ \A j, k \in DOMAIN Items(ss, S) : Nth(S, j) = Nth(S, k) => j = k
<1>1. /\ Cardinality(S) \in Nat
      /\ \A k \in 1..Cardinality(S) :
           Nth(S, k) \in S /\ Cardinality(Upto(S, Nth(S, k))) = k
      /\ \A p \in S : \E k \in 1..Cardinality(S) : Nth(S, k) = p
  BY Ranks
<1>2. /\ DOMAIN Items(ss, S) = 1..Cardinality(S)
      /\ \A k \in 1..Cardinality(S) :
           Items(ss, S)[k] = ss[Nth(S, k)[1]][Nth(S, k)[2]]
  BY DEF Items
<1>3. Items(ss, S) \in Seq(T)
  <2>1. Items(ss, S) \in [1..Cardinality(S) -> T]
    BY <1>1 DEF Items
  <2> QED
    BY <1>1, <2>1
<1> QED
  BY <1>1, <1>2, <1>3

\* The items of r are items of s, each from an index of its own, in I.
PickedFrom(r, s, I, f) ==
    /\ \A k \in DOMAIN r : f[k] \in I /\ r[k] = s[f[k]]
    /\ \A j, k \in DOMAIN r : f[j] = f[k] => j = k

\* A filtered list.
LEMMA AtIs ==
    ASSUME NEW T, NEW s \in Seq(T), NEW I, I \subseteq DOMAIN s
    PROVE  /\ At(s, I) \in Seq(T)
           /\ \E f : PickedFrom(At(s, I), s, I, f)
           /\ \A i \in I : \E k \in DOMAIN At(s, I) : At(s, I)[k] = s[i]
<1> DEFINE S == {1} \X I
<1>1. I \in SUBSET (1..Len(s)) /\ Len(s) \in Nat
  OBVIOUS
<1>2. IsFiniteSet(I)
  BY <1>1, FS_Interval, FS_Subset
<1>3. IsFiniteSet(S)
  <2> DEFINE g == [i \in I |-> <<1, i>>]
  <2>1. g \in [I -> S] /\ \A p \in S : p[2] \in I /\ g[p[2]] = p
    OBVIOUS
  <2>2. g \in Surjection(I, S)
    BY <2>1 DEF Surjection
  <2> QED
    BY <1>2, <2>2, FS_Surjection
<1>4. S \subseteq Nat \X Nat /\ \A p \in S : p = <<1, p[2]>> /\ p[2] \in I
  BY <1>1
<1>5. \A i \in I : <<s>>[1][i] \in T /\ <<s>>[1] = s
  OBVIOUS
<1> DEFINE ss == <<s>>
<1>6. \A p \in S : ss[p[1]][p[2]] = s[p[2]] /\ ss[p[1]][p[2]] \in T
  BY <1>4, <1>5
<1>7. At(s, I) = Items(ss, S)
  BY DEF At
<1> HIDE DEF ss
<1> DEFINE f == [k \in DOMAIN At(s, I) |-> Nth(S, k)[2]]
<1>8. /\ At(s, I) \in Seq(T)
      /\ \A k \in DOMAIN At(s, I) :
           Nth(S, k) \in S /\ At(s, I)[k] = ss[Nth(S, k)[1]][Nth(S, k)[2]]
      /\ \A p \in S : \E k \in DOMAIN At(s, I) : At(s, I)[k] = ss[p[1]][p[2]]
      /\ \A j, k \in DOMAIN At(s, I) : Nth(S, j) = Nth(S, k) => j = k
  <2> HIDE DEF S
  <2> QED
    BY <1>3, <1>4, <1>6, <1>7, ItemsAre
<1>9. \A k \in DOMAIN At(s, I) : f[k] \in I /\ At(s, I)[k] = s[f[k]]
  BY <1>4, <1>6, <1>8
<1>10. \A j, k \in DOMAIN At(s, I) : f[j] = f[k] => j = k
  <2> SUFFICES ASSUME NEW j \in DOMAIN At(s, I), NEW k \in DOMAIN At(s, I), f[j] = f[k]
               PROVE  j = k
    OBVIOUS
  <2>1. Nth(S, j) = <<1, f[j]>> /\ Nth(S, k) = <<1, f[k]>>
    BY <1>4, <1>8
  <2> QED
    BY <1>8, <2>1
<1>11. ASSUME NEW i \in I PROVE \E k \in DOMAIN At(s, I) : At(s, I)[k] = s[i]
  <2>1. <<1, i>> \in S
    OBVIOUS
  <2>2. ss[<<1, i>>[1]][<<1, i>>[2]] = s[i]
    BY <1>6, <2>1
  <2> HIDE DEF S
  <2> QED
    BY <1>8, <2>1, <2>2
<1>12. PickedFrom(At(s, I), s, I, f)
  BY <1>9, <1>10 DEF PickedFrom
<1> HIDE DEF f
<1> QED
  BY <1>8, <1>11, <1>12

\* Finitely many lists have finitely many positions.
LEMMA FinitePositions ==
    ASSUME NEW ss, NEW n \in Nat, DOMAIN ss = 1..n,
           \A i \in 1..n : IsFiniteSet(DOMAIN ss[i])
    PROVE  IsFiniteSet(UNION {{i} \X DOMAIN ss[i] : i \in 1..n})
<1> DEFINE U(k) == UNION {{i} \X DOMAIN ss[i] : i \in 1..k}
           Bad == {k \in 0..n : ~ IsFiniteSet(U(k))}
<1>1. SUFFICES Bad = {}
  OBVIOUS
<1>2. SUFFICES ASSUME Bad # {} PROVE FALSE
  OBVIOUS
<1>3. PICK k \in Bad : \A j \in Bad : k <= j
  <2>1. Bad \in SUBSET Nat
    OBVIOUS
  <2> HIDE DEF Bad
  <2> QED
    BY <1>2, <2>1, LeastNumber
<1>4. CASE k = 0
  <2>1. U(k) = {}
    BY <1>4
  <2> QED
    BY <1>3, <2>1, FS_EmptySet
<1>5. CASE k # 0
  <2>1. k - 1 \in 0..n /\ k - 1 \notin Bad /\ k \in 1..n
    BY <1>3, <1>5
  <2>2. IsFiniteSet(U(k - 1))
    BY <2>1
  <2> DEFINE g == [j \in DOMAIN ss[k] |-> <<k, j>>]
             V == {k} \X DOMAIN ss[k]
  <2>3. g \in Surjection(DOMAIN ss[k], V)
    <3>1. g \in [DOMAIN ss[k] -> V] /\ \A p \in V : p[2] \in DOMAIN ss[k] /\ g[p[2]] = p
      OBVIOUS
    <3> QED
      BY <3>1 DEF Surjection
  <2>4. IsFiniteSet(V)
    BY <2>1, <2>3, FS_Surjection
  <2>5. U(k) = U(k - 1) \cup V
    <3>1. 1..k = (1..(k - 1)) \cup {k}
      BY <2>1
    <3> QED
      BY <3>1
  <2>6. IsFiniteSet(U(k))
    BY <2>2, <2>4, <2>5, FS_Union
  <2> QED
    BY <1>3, <2>6
<1> QED
  BY <1>4, <1>5

\* The items of r are items of the lists ss, each from a place of its own.
ChainedFrom(r, ss, f) ==
    /\ \A k \in DOMAIN r :
         /\ f[k][1] \in DOMAIN ss /\ f[k][2] \in DOMAIN ss[f[k][1]]
         /\ f[k] = <<f[k][1], f[k][2]>>
         /\ r[k] = ss[f[k][1]][f[k][2]]
    /\ \A j, k \in DOMAIN r : f[j] = f[k] => j = k

\* Lists one after another.
LEMMA ChainIs ==
    ASSUME NEW T, NEW ss \in Seq(Seq(T))
    PROVE  /\ Chain(ss) \in Seq(T)
           /\ \E f : ChainedFrom(Chain(ss), ss, f)
<1> DEFINE S == UNION {{i} \X DOMAIN ss[i] : i \in DOMAIN ss}
<1>1. /\ Len(ss) \in Nat /\ DOMAIN ss = 1..Len(ss)
      /\ \A i \in 1..Len(ss) : ss[i] \in Seq(T) /\ DOMAIN ss[i] = 1..Len(ss[i]) /\ Len(ss[i]) \in Nat
  OBVIOUS
<1>2. \A i \in 1..Len(ss) : IsFiniteSet(DOMAIN ss[i])
  BY <1>1, FS_Interval
<1>3. IsFiniteSet(S)
  BY <1>1, <1>2, FinitePositions
<1>4. \A p \in S : /\ p[1] \in DOMAIN ss /\ p[2] \in DOMAIN ss[p[1]]
                   /\ p = <<p[1], p[2]>>
  OBVIOUS
<1>5. S \subseteq Nat \X Nat
  BY <1>1
<1>6. \A p \in S : ss[p[1]][p[2]] \in T
  BY <1>1, <1>4
<1>7. Chain(ss) = Items(ss, S)
  BY DEF Chain
<1> HIDE DEF S
<1>8. /\ Chain(ss) \in Seq(T)
      /\ \A k \in DOMAIN Chain(ss) :
           Nth(S, k) \in S /\ Chain(ss)[k] = ss[Nth(S, k)[1]][Nth(S, k)[2]]
      /\ \A j, k \in DOMAIN Chain(ss) : Nth(S, j) = Nth(S, k) => j = k
  BY <1>3, <1>5, <1>6, <1>7, ItemsAre
<1> DEFINE f == [k \in DOMAIN Chain(ss) |-> Nth(S, k)]
<1>9. \A k \in DOMAIN Chain(ss) :
         /\ f[k][1] \in DOMAIN ss /\ f[k][2] \in DOMAIN ss[f[k][1]]
         /\ f[k] = <<f[k][1], f[k][2]>>
         /\ Chain(ss)[k] = ss[f[k][1]][f[k][2]]
  BY <1>4, <1>8
<1>10. \A j, k \in DOMAIN Chain(ss) : f[j] = f[k] => j = k
  BY <1>8
<1>11. ChainedFrom(Chain(ss), ss, f)
  BY <1>9, <1>10 DEF ChainedFrom
<1> HIDE DEF f
<1> QED
  BY <1>8, <1>11

-----------------------------------------------------------------------------
(* Drafts.                                                                 *)

\* No table has two metrics of one name.
UniqueIn(ents) ==
    \A i, j \in DOMAIN ents :
        ents[i].name = ents[j].name /\ ents[i].table = ents[j].table => i = j

Pairs(ents) == {<<ents[i].name, ents[i].table>> : i \in DOMAIN ents}

LEMMA AtEntities ==
    ASSUME NEW ents \in Seq(DraftEntity), NEW I, I \subseteq DOMAIN ents
    PROVE  /\ At(ents, I) \in Seq(DraftEntity)
           /\ UniqueIn(ents) => UniqueIn(At(ents, I))
           /\ \A k \in DOMAIN At(ents, I) : \E i \in I : At(ents, I)[k] = ents[i]
           /\ \A i \in I : \E k \in DOMAIN At(ents, I) : At(ents, I)[k] = ents[i]
<1>1. PICK f : PickedFrom(At(ents, I), ents, I, f)
  BY AtIs
<1>2. UniqueIn(ents) => UniqueIn(At(ents, I))
  BY <1>1 DEF UniqueIn, PickedFrom
<1>3. \A k \in DOMAIN At(ents, I) : \E i \in I : At(ents, I)[k] = ents[i]
  BY <1>1 DEF PickedFrom
<1> QED
  BY <1>2, <1>3, AtIs

LEMMA WithoutTablesIs ==
    ASSUME NEW d \in Draft, NEW tables
    PROVE  LET w == WithoutTables(d, tables)
           IN  /\ w \in Draft
               /\ UniqueIn(d.ents) => UniqueIn(w.ents)
               /\ \A k \in DOMAIN w.ents : w.ents[k].table \notin tables
               /\ Pairs(w.ents) \subseteq Pairs(d.ents)
               /\ NamesOf(w.ents) = {d.ents[i].name : i \in OfOtherTables(d.ents, tables)}
<1> DEFINE w == WithoutTables(d, tables)
           I == OfOtherTables(d.ents, tables)
<1>1. d.ents \in Seq(DraftEntity) /\ d.rels \in Seq(DraftRelation)
  BY DEF Draft
<1>2. I \subseteq DOMAIN d.ents /\ \A i \in I : d.ents[i].table \notin tables
  BY DEF OfOtherTables
<1>3. w.ents = At(d.ents, I)
  BY DEF WithoutTables
<1>4. w \in Draft
  <2>1. w.ents \in Seq(DraftEntity)
    BY <1>1, <1>2, <1>3, AtEntities
  <2>2. ASSUME NEW J, J \subseteq DOMAIN d.rels PROVE At(d.rels, J) \in Seq(DraftRelation)
    BY <1>1, <2>2, AtIs
  <2>3. w.rels \in Seq(DraftRelation)
    BY <2>2 DEF WithoutTables
  <2>4. w = [ents |-> w.ents, rels |-> w.rels]
    BY DEF WithoutTables
  <2> HIDE DEF w
  <2> QED
    BY <2>1, <2>3, <2>4 DEF Draft
<1> HIDE DEF w, I
<1>5. /\ UniqueIn(d.ents) => UniqueIn(w.ents)
      /\ \A k \in DOMAIN w.ents : \E i \in I : w.ents[k] = d.ents[i]
      /\ \A i \in I : \E k \in DOMAIN w.ents : w.ents[k] = d.ents[i]
  BY <1>1, <1>2, <1>3, AtEntities
<1>6. \A k \in DOMAIN w.ents : w.ents[k].table \notin tables
  BY <1>2, <1>5
<1>7. Pairs(w.ents) \subseteq Pairs(d.ents)
  BY <1>2, <1>5 DEF Pairs
<1>8. NamesOf(w.ents) = {d.ents[i].name : i \in I}
  BY <1>5 DEF NamesOf
<1> QED
  BY <1>4, <1>5, <1>6, <1>7, <1>8 DEF w, I

LEMMA ConcatIs ==
    ASSUME NEW T, NEW a \in Seq(T), NEW b \in Seq(T)
    PROVE  /\ a \o b \in Seq(T)
           /\ Len(a) \in Nat /\ DOMAIN a = 1..Len(a)
           /\ \A i \in DOMAIN a : i \in DOMAIN (a \o b) /\ (a \o b)[i] = a[i]
           /\ \A i \in DOMAIN b :
                Len(a) + i \in DOMAIN (a \o b) /\ (a \o b)[Len(a) + i] = b[i]
           /\ \A k \in DOMAIN (a \o b) :
                \/ k \in DOMAIN a
                \/ k - Len(a) \in DOMAIN b /\ (a \o b)[k] = b[k - Len(a)] /\ k \in Nat
OBVIOUS

LEMMA ExtendIs ==
    ASSUME NEW d \in Draft, NEW e \in Draft
    PROVE  LET x == Extend(d, e)
           IN  /\ x \in Draft
               /\ NamesOf(x.ents) = NamesOf(d.ents) \cup NamesOf(e.ents)
               /\ Pairs(x.ents) = Pairs(d.ents) \cup Pairs(e.ents)
               /\ UniqueIn(d.ents) /\ UniqueIn(e.ents) /\ Pairs(d.ents) \cap Pairs(e.ents) = {}
                    => UniqueIn(x.ents)
<1> DEFINE x == Extend(d, e)
<1>1. /\ d.ents \in Seq(DraftEntity) /\ d.rels \in Seq(DraftRelation)
      /\ e.ents \in Seq(DraftEntity) /\ e.rels \in Seq(DraftRelation)
  BY DEF Draft
<1>2. x = [ents |-> d.ents \o e.ents, rels |-> d.rels \o e.rels]
  BY DEF Extend
<1>3. d.ents \o e.ents \in Seq(DraftEntity) /\ d.rels \o e.rels \in Seq(DraftRelation)
  BY <1>1
<1>4. x \in Draft /\ x.ents = d.ents \o e.ents
  BY <1>2, <1>3 DEF Draft
<1> HIDE DEF x
<1> DEFINE n == Len(d.ents)
<1>5. /\ n \in Nat /\ DOMAIN d.ents = 1..n
      /\ \A i \in DOMAIN d.ents : i \in DOMAIN x.ents /\ x.ents[i] = d.ents[i]
      /\ \A i \in DOMAIN e.ents : n + i \in DOMAIN x.ents /\ x.ents[n + i] = e.ents[i]
      /\ \A k \in DOMAIN x.ents :
            \/ k \in DOMAIN d.ents
            \/ k - n \in DOMAIN e.ents /\ x.ents[k] = e.ents[k - n] /\ k \in Nat
  <2> DEFINE a == d.ents
             b == e.ents
  <2>1. a \in Seq(DraftEntity) /\ b \in Seq(DraftEntity) /\ x.ents = a \o b
    BY <1>1, <1>4
  <2> HIDE DEF a, b
  <2>2. /\ Len(a) \in Nat /\ DOMAIN a = 1..Len(a)
        /\ \A i \in DOMAIN a : i \in DOMAIN x.ents /\ x.ents[i] = a[i]
        /\ \A i \in DOMAIN b : Len(a) + i \in DOMAIN x.ents /\ x.ents[Len(a) + i] = b[i]
        /\ \A k \in DOMAIN x.ents :
             \/ k \in DOMAIN a
             \/ k - Len(a) \in DOMAIN b /\ x.ents[k] = b[k - Len(a)] /\ k \in Nat
    BY <2>1, ConcatIs
  <2> QED
    BY <2>2 DEF a, b
<1> HIDE DEF n
<1>6. NamesOf(x.ents) = NamesOf(d.ents) \cup NamesOf(e.ents)
  BY <1>5 DEF NamesOf
<1>7. Pairs(x.ents) = Pairs(d.ents) \cup Pairs(e.ents)
  BY <1>5 DEF Pairs
<1>8. ASSUME UniqueIn(d.ents), UniqueIn(e.ents), Pairs(d.ents) \cap Pairs(e.ents) = {},
             NEW i \in DOMAIN x.ents, NEW j \in DOMAIN x.ents,
             x.ents[i].name = x.ents[j].name, x.ents[i].table = x.ents[j].table
      PROVE  i = j
  <2>1. CASE i \in DOMAIN d.ents /\ j \in DOMAIN d.ents
    BY <1>5, <1>8, <2>1 DEF UniqueIn
  <2>2. CASE i \notin DOMAIN d.ents /\ j \notin DOMAIN d.ents
    <3>1. i - n = j - n /\ i \in Nat /\ j \in Nat
      BY <1>5, <1>8, <2>2 DEF UniqueIn
    <3> QED
      BY <1>5, <3>1
  <2>3. ASSUME NEW a \in DOMAIN d.ents, NEW b \in DOMAIN x.ents, b \notin DOMAIN d.ents,
               x.ents[a].name = x.ents[b].name, x.ents[a].table = x.ents[b].table
        PROVE  FALSE
    <3> DEFINE p == <<x.ents[a].name, x.ents[a].table>>
    <3>1. p \in Pairs(d.ents)
      BY <1>5 DEF Pairs
    <3>2. p \in Pairs(e.ents)
      <4>1. b - n \in DOMAIN e.ents /\ x.ents[b] = e.ents[b - n]
        BY <1>5, <2>3
      <4>2. p = <<e.ents[b - n].name, e.ents[b - n].table>>
        BY <2>3, <4>1
      <4> QED
        BY <4>1, <4>2 DEF Pairs
    <3> QED
      BY <1>8, <3>1, <3>2
  <2> QED
    BY <1>8, <2>1, <2>2, <2>3
<1> QED
  BY <1>4, <1>6, <1>7, <1>8 DEF x, UniqueIn

\* An extraction delivers a draft, of the tables of its job only, in which no
\* metric of a table occurs twice.
LEMMA ExtractionIs ==
    ASSUME NEW tables \in SUBSET Table, NEW results \in ResultsOf(tables)
    PROVE  LET x == Extraction(tables, results)
           IN  /\ x \in Draft
               /\ UniqueIn(x.ents)
               /\ \A k \in DOMAIN x.ents : x.ents[k].table \in tables
<1> DEFINE I == {i \in DOMAIN TableSeq : TableSeq[i] \in tables}
           sel == At(TableSeq, I)
           nodes(i) == results[sel[i]].nodes
           edges(i) == results[sel[i]].edges
           ns == [i \in DOMAIN sel |-> [j \in DOMAIN nodes(i) |->
                    Ent(nodes(i)[j].name, sel[i], nodes(i)[j].field)]]
           es == [i \in DOMAIN sel |-> [j \in DOMAIN edges(i) |->
                    Rel(edges(i)[j].src, edges(i)[j].tgt, edges(i)[j].exact)]]
           ents == Chain(ns)
           rels == Chain(es)
           g == Gather(sel, results)
           x == Extraction(tables, results)
<1>1. /\ sel \in Seq(Table)
      /\ \A i \in DOMAIN sel : sel[i] \in tables
      /\ \A i, j \in DOMAIN sel : sel[i] = sel[j] => i = j
  <2>1. TableSeq \in Seq(Table) /\ I \subseteq DOMAIN TableSeq
    BY ResultsAssumption
  <2>2. \A i, j \in DOMAIN TableSeq : TableSeq[i] = TableSeq[j] => i = j
    BY ResultsAssumption DEF IsInjective
  <2>3. sel \in Seq(Table)
    BY <2>1, AtIs
  <2> HIDE DEF I
  <2>4. PICK f : PickedFrom(sel, TableSeq, I, f)
    BY <2>1, AtIs
  <2>5. \A i \in I : TableSeq[i] \in tables /\ i \in DOMAIN TableSeq
    BY DEF I
  <2> QED
    BY <2>2, <2>3, <2>4, <2>5 DEF PickedFrom
<1> HIDE DEF sel, I
<1>2. ASSUME NEW i \in DOMAIN sel
      PROVE  /\ nodes(i) \in Seq(Node) /\ edges(i) \in Seq(Edge)
             /\ \A j, k \in DOMAIN nodes(i) : nodes(i)[j].name = nodes(i)[k].name => j = k
  BY <1>1, ResultsAssumption DEF ResultsOf
<1>3. ns \in Seq(Seq(DraftEntity))
  <2>1. ASSUME NEW i \in DOMAIN sel PROVE ns[i] \in Seq(DraftEntity)
    <3> DEFINE m == nodes(i)
               r == [j \in DOMAIN m |-> Ent(m[j].name, sel[i], m[j].field)]
    <3>1. ns[i] = r
      OBVIOUS
    <3>2. m \in Seq(Node) /\ sel[i] \in Table
      BY <1>1, <1>2
    <3> HIDE DEF ns, m
    <3>3. \A j \in DOMAIN m : Ent(m[j].name, sel[i], m[j].field) \in DraftEntity
      <4> TAKE j \in DOMAIN m
      <4>1. m[j] \in Node
        BY <3>2
      <4>2. m[j].name \in Name /\ m[j].field \in Field
        BY <4>1 DEF Node
      <4> QED
        BY <3>2, <4>2 DEF Ent, DraftEntity
    <3>4. r \in Seq(DraftEntity)
      BY <3>2, <3>3
    <3> QED
      BY <3>1, <3>4
  <2>2. DOMAIN ns = 1..Len(sel) /\ Len(sel) \in Nat
    BY <1>1
  <2> QED
    BY <2>1, <2>2
<1>4. es \in Seq(Seq(DraftRelation))
  <2>1. ASSUME NEW i \in DOMAIN sel PROVE es[i] \in Seq(DraftRelation)
    <3> DEFINE m == edges(i)
               r == [j \in DOMAIN m |-> Rel(m[j].src, m[j].tgt, m[j].exact)]
    <3>1. es[i] = r
      OBVIOUS
    <3>2. m \in Seq(Edge)
      BY <1>2
    <3> HIDE DEF es, m
    <3>3. \A j \in DOMAIN m : Rel(m[j].src, m[j].tgt, m[j].exact) \in DraftRelation
      <4> TAKE j \in DOMAIN m
      <4>1. m[j] \in Edge
        BY <3>2
      <4>2. m[j].src \in Name /\ m[j].tgt \in Name /\ m[j].exact \in BOOLEAN
        BY <4>1 DEF Edge
      <4> QED
        BY <4>2 DEF Rel, DraftRelation
    <3>4. r \in Seq(DraftRelation)
      BY <3>2, <3>3
    <3> QED
      BY <3>1, <3>4
  <2>2. DOMAIN es = 1..Len(sel) /\ Len(sel) \in Nat
    BY <1>1
  <2> QED
    BY <2>1, <2>2
<1>5. /\ \A i \in DOMAIN ns : i \in DOMAIN sel /\ DOMAIN ns[i] = DOMAIN nodes(i)
      /\ \A i \in DOMAIN ns : \A j \in DOMAIN ns[i] :
            ns[i][j].name = nodes(i)[j].name /\ ns[i][j].table = sel[i]
  BY DEF Ent
<1>6. g = [ents |-> ents, rels |-> rels]
  BY DEF Gather
<1> HIDE DEF ns, es, nodes, edges
<1>7. ents \in Seq(DraftEntity) /\ rels \in Seq(DraftRelation)
  BY <1>3, <1>4, ChainIs
<1>8. UniqueIn(ents) /\ \A k \in DOMAIN ents : ents[k].table \in tables
  <2>0. PICK f : ChainedFrom(ents, ns, f)
    BY <1>3, ChainIs
  <2>1. /\ \A k \in DOMAIN ents :
             /\ f[k][1] \in DOMAIN ns /\ f[k][2] \in DOMAIN ns[f[k][1]]
             /\ f[k] = <<f[k][1], f[k][2]>>
             /\ ents[k] = ns[f[k][1]][f[k][2]]
        /\ \A j, k \in DOMAIN ents : f[j] = f[k] => j = k
    BY <2>0 DEF ChainedFrom
  <2> HIDE DEF ents
  <2>2. ASSUME NEW j \in DOMAIN ents, NEW k \in DOMAIN ents,
               ents[j].name = ents[k].name, ents[j].table = ents[k].table
        PROVE  j = k
    <3>1. sel[f[j][1]] = sel[f[k][1]]
      BY <1>5, <2>1, <2>2
    <3>2. f[j][1] = f[k][1]
      BY <1>1, <1>5, <2>1, <3>1
    <3>3. f[j][2] = f[k][2]
      BY <1>2, <1>5, <2>1, <2>2, <3>2
    <3> QED
      BY <2>1, <3>2, <3>3
  <2>3. \A k \in DOMAIN ents : ents[k].table \in tables
    BY <1>1, <1>5, <2>1
  <2> QED
    BY <2>2, <2>3 DEF UniqueIn
<1>9. g.ents = ents /\ g.rels = rels
  BY <1>6
<1> HIDE DEF g, ents, rels
<1> DEFINE U == {i \in DOMAIN ents : ents[i].field = "unknown"}
           K == DOMAIN ents \ U
<1>10. /\ x = [ents |-> x.ents, rels |-> x.rels]
       /\ x.ents = At(ents, K)
       /\ \E J : J \subseteq DOMAIN rels /\ x.rels = At(rels, J)
  <2> DEFINE dropped == {ents[i].name : i \in U}
             J == {i \in DOMAIN rels : {rels[i].src, rels[i].tgt} \cap dropped = {}}
  <2>1. x = Validate(g)
    BY DEF Extraction, g, sel, I
  <2>2. Validate(g) = [ents |-> At(ents, K), rels |-> At(rels, J)]
    BY <1>9 DEF Validate
  <2>3. J \subseteq DOMAIN rels
    OBVIOUS
  <2> HIDE DEF x, J, K
  <2> QED
    BY <2>1, <2>2, <2>3
<1> HIDE DEF x
<1>11. K \subseteq DOMAIN ents
  OBVIOUS
<1> HIDE DEF K
<1>12. /\ x.ents \in Seq(DraftEntity) /\ UniqueIn(x.ents)
       /\ \A k \in DOMAIN x.ents : \E i \in K : x.ents[k] = ents[i]
  BY <1>7, <1>8, <1>10, <1>11, AtEntities
<1>13. x.rels \in Seq(DraftRelation)
  BY <1>7, <1>10, AtIs
<1>14. x \in Draft
  BY <1>10, <1>12, <1>13 DEF Draft
<1>15. \A k \in DOMAIN x.ents : x.ents[k].table \in tables
  BY <1>8, <1>11, <1>12
<1> QED
  BY <1>12, <1>14, <1>15 DEF x

LEMMA EmptyIsDraft ==
    /\ EmptyDraft \in Draft /\ UniqueIn(EmptyDraft.ents)
    /\ NamesOf(EmptyDraft.ents) = {} /\ Pairs(EmptyDraft.ents) = {}
BY DEF EmptyDraft, Draft, UniqueIn, NamesOf, Pairs

-----------------------------------------------------------------------------
(* Imports.                                                                *)

LEMMA NamedIs ==
    ASSUME NEW ents \in Seq(DraftEntity), NEW names
    PROVE  /\ Named(ents, names) \in Seq(DraftEntity)
           /\ NamesOf(Named(ents, names)) \subseteq names \cap NamesOf(ents)
<1> DEFINE I == {i \in DOMAIN ents : ents[i].name \in names}
<1>1. I \subseteq DOMAIN ents /\ \A i \in I : ents[i].name \in names
  OBVIOUS
<1>2. Named(ents, names) = At(ents, I)
  BY DEF Named
<1> HIDE DEF I
<1> QED
  BY <1>1, <1>2, AtEntities DEF NamesOf

LEMMA OrderedIs ==
    ASSUME NEW d \in Draft, NEW names \in SUBSET Name
    PROVE  /\ Ordered(d, names) \in Seq(DraftEntity)
           /\ NamesOf(Ordered(d, names)) \subseteq names \cap NamesOf(d.ents)
<1> DEFINE a == Named(d.ents, names \cap AtomicName)
           b == Named(d.ents, names \cap DerivedName)
           c == Named(d.ents, names \cap CompositeName)
<1>1. d.ents \in Seq(DraftEntity)
  BY DEF Draft
<1>2. /\ a \in Seq(DraftEntity) /\ NamesOf(a) \subseteq names \cap NamesOf(d.ents)
      /\ b \in Seq(DraftEntity) /\ NamesOf(b) \subseteq names \cap NamesOf(d.ents)
      /\ c \in Seq(DraftEntity) /\ NamesOf(c) \subseteq names \cap NamesOf(d.ents)
  BY <1>1, NamedIs
<1>3. Ordered(d, names) = (a \o b) \o c
  BY DEF Ordered
<1> HIDE DEF a, b, c
<1>4. ASSUME NEW u \in Seq(DraftEntity), NEW v \in Seq(DraftEntity)
      PROVE  u \o v \in Seq(DraftEntity) /\ NamesOf(u \o v) \subseteq NamesOf(u) \cup NamesOf(v)
  <2>1. \A k \in DOMAIN (u \o v) :
           \/ k \in DOMAIN u /\ (u \o v)[k] = u[k]
           \/ k - Len(u) \in DOMAIN v /\ (u \o v)[k] = v[k - Len(u)]
    BY ConcatIs
  <2> QED
    BY <2>1, ConcatIs DEF NamesOf
<1>5. a \o b \in Seq(DraftEntity) /\ NamesOf(a \o b) \subseteq NamesOf(a) \cup NamesOf(b)
  BY <1>2, <1>4
<1>6. /\ (a \o b) \o c \in Seq(DraftEntity)
      /\ NamesOf((a \o b) \o c) \subseteq NamesOf(a \o b) \cup NamesOf(c)
  BY <1>2, <1>4, <1>5
<1> QED
  BY <1>2, <1>3, <1>5, <1>6

LEMMA LinksAre ==
    ASSUME NEW d \in Draft, NEW src, NEW targets
    PROVE  Links(d, src, targets) \in Seq(Name)
<1> DEFINE known == NamesOf(d.ents)
           I == {i \in DOMAIN d.rels : LET r == d.rels[i]
                                       IN  /\ r.src = src /\ r.tgt \in targets
                                           /\ r.exact \/ {src, r.tgt} \subseteq known}
           linked == At(d.rels, I)
<1>1. d.rels \in Seq(DraftRelation) /\ I \subseteq DOMAIN d.rels
  BY DEF Draft
<1>2. Links(d, src, targets) = [i \in DOMAIN linked |-> linked[i].tgt]
  BY DEF Links
<1> HIDE DEF I
<1>3. linked \in Seq(DraftRelation)
  BY <1>1, AtIs
<1> HIDE DEF linked
<1>4. \A i \in DOMAIN linked : linked[i].tgt \in Name
  <2> TAKE i \in DOMAIN linked
  <2>1. linked[i] \in DraftRelation
    BY <1>3
  <2> QED
    BY <2>1 DEF DraftRelation
<1> QED
  BY <1>2, <1>3, <1>4

\* A reference is to a metric of this import or, if this import has none of
\* the name, to a configured one.
LinkedRight(r, ids) == rows[r].name \in DOMAIN ids => ids[rows[r].name] = r

LEMMA ResolveIs ==
    ASSUME NEW ids, NEW configured, IsIds(ids), IsIds(configured),
           rows \in Seq([name : Name, refs : Seq(1..Len(rows))]),
           NEW names \in Seq(Name)
    PROVE  LET refs == Resolve(ids, configured, names)
           IN  /\ refs \in Seq(1..Len(rows))
               /\ \A k \in DOMAIN refs : LinkedRight(refs[k], ids)
<1> DEFINE known == DOMAIN ids \cup DOMAIN configured
           I == {k \in DOMAIN names : names[k] \in known}
           found == Known(names, known)
           refs == Resolve(ids, configured, names)
<1>1. found = At(names, I) /\ I \subseteq DOMAIN names
  BY DEF Known
<1>2. \A i \in I : names[i] \in known
  OBVIOUS
<1> HIDE DEF I
<1>3. found \in Seq(Name)
  BY <1>1, AtIs
<1>4. \A k \in DOMAIN found : found[k] \in known
  <2>1. PICK f : PickedFrom(At(names, I), names, I, f)
    BY <1>1, AtIs
  <2> QED
    BY <1>1, <1>2, <2>1 DEF PickedFrom
<1>5. refs = [k \in DOMAIN found |->
                IF found[k] \in DOMAIN ids THEN ids[found[k]] ELSE configured[found[k]]]
  BY DEF Resolve
<1> HIDE DEF found, refs
<1>6. DOMAIN rows = 1..Len(rows)
  OBVIOUS
<1>7. \A k \in DOMAIN found : refs[k] \in 1..Len(rows) /\ LinkedRight(refs[k], ids)
  BY <1>4, <1>5, <1>6 DEF IsIds, LinkedRight
<1>8. Len(found) \in Nat /\ DOMAIN found = 1..Len(found)
  BY <1>3
<1> QED
  BY <1>5, <1>7, <1>8 DEF refs

LEMMA RefsAre ==
    ASSUME NEW m, NEW name, m.draft \in Draft,
           IsIds(m.ids), IsIds(m.atomics), IsIds(m.deriveds),
           rows \in Seq([name : Name, refs : Seq(1..Len(rows))])
    PROVE  /\ RefsFor(m, name) \in Seq(1..Len(rows))
           /\ \A k \in DOMAIN RefsFor(m, name) : LinkedRight(RefsFor(m, name)[k], m.ids)
<1>1. CASE name \in AtomicName
  BY <1>1 DEF RefsFor
<1>2. CASE name \notin AtomicName /\ name \in DerivedName
  <2> DEFINE links == Links(m.draft, name, AtomicName)
             first == SubSeq(links, 1, IF links = <<>> THEN 0 ELSE 1)
  <2>1. links \in Seq(Name)
    BY LinksAre
  <2> HIDE DEF links
  <2>2. first \in Seq(Name)
    BY <2>1
  <2>3. RefsFor(m, name) = Resolve(m.ids, m.atomics, first)
    BY <1>2 DEF RefsFor, links
  <2> HIDE DEF first
  <2> DEFINE refs == Resolve(m.ids, m.atomics, first)
  <2>4. refs \in Seq(1..Len(rows)) /\ \A k \in DOMAIN refs : LinkedRight(refs[k], m.ids)
    BY <2>2, ResolveIs
  <2> QED
    BY <2>3, <2>4
<1>3. CASE name \notin AtomicName /\ name \notin DerivedName
  <2> DEFINE links == Links(m.draft, name, DerivedName)
             found == Resolve(m.ids, m.deriveds, links)
  <2>1. links \in Seq(Name)
    BY LinksAre
  <2>2. RefsFor(m, name) = IF Len(found) < 2 THEN found ELSE SubSeq(found, 1, 2)
    BY <1>3 DEF RefsFor
  <2> HIDE DEF links
  <2>3. found \in Seq(1..Len(rows)) /\ \A k \in DOMAIN found : LinkedRight(found[k], m.ids)
    BY <2>1, ResolveIs
  <2> HIDE DEF found
  <2>4. ASSUME Len(found) >= 2
        PROVE  /\ SubSeq(found, 1, 2) \in Seq(1..Len(rows))
               /\ \A k \in DOMAIN SubSeq(found, 1, 2) :
                    k \in DOMAIN found /\ SubSeq(found, 1, 2)[k] = found[k]
    BY <2>3, <2>4
  <2>5. Len(found) < 2 \/ Len(found) >= 2
    BY <2>3
  <2> QED
    BY <2>2, <2>3, <2>4, <2>5
<1> QED
  BY <1>1, <1>2, <1>3

-----------------------------------------------------------------------------
(* The invariants.                                                         *)

Dict == UNION {[names -> Nat] : names \in SUBSET Name}

Import == [pc : {"new", "atomics", "deriveds", "create"}, draft : Draft,
           todo : Seq(DraftEntity), ids : Dict, atomics : Dict, deriveds : Dict]

History == [fresh : SUBSET Name, stale : SUBSET Name, made : SUBSET Name,
            loose : SUBSET Name, twice : SUBSET Name,
            cleared : SUBSET (Name \X Table), undone : SUBSET (Name \X Table),
            mixed : BOOLEAN, doubled : BOOLEAN]

DraftsOK ==
    /\ draft \in Draft \cup {None} /\ diskDraft \in Draft \cup {None}
    /\ imported \in SUBSET Name /\ diskImported \in SUBSET Name

WorkerType == [pc : {"idle", "extract", "merge", "names", "saveNames", "assign", "saveDraft"},
               job : Job \cup {None}, result : Draft, base : Draft, removed : SUBSET Name]

ControlOK ==
    /\ status \in {"idle", "running", "done", "error"}
    /\ queue \in Seq(Job)
    /\ worker \in WorkerType /\ (worker.pc # "idle" => worker.job \in Job)
    /\ ask \in [Extractor -> [pc : {"new", "listing"}, job : Job \cup {None}]]
    /\ \A e \in Extractor : ask[e].pc = "listing" => ask[e].job \in Job

RowsOK == rows \in Seq([name : Name, refs : Seq(1..Len(rows))])

ImportsOK ==
    /\ imp \in [Importer -> Import]
    /\ \A i \in Importer : IsIds(imp[i].ids) /\ IsIds(imp[i].atomics) /\ IsIds(imp[i].deriveds)

TypeInv == DraftsOK /\ ControlOK /\ RowsOK /\ ImportsOK /\ seen \in History

\* Where the requests and the worker do not overlap, a job that is queued or
\* under way is the only one, and no request is past the check.
ControlInv ==
    /\ status = "running" => Pending
    /\ Pending /\ ~ seen.doubled =>
        /\ status = "running"
        /\ \A e \in Extractor : ask[e].pc # "listing"
        /\ Len(queue) <= 1
        /\ queue = <<>> \/ worker.pc = "idle"

\* The names of an import: what it has made and what it has yet to make.
NamesAt(i) == NamesOf(imp[i].todo) \cup DOMAIN imp[i].ids

\* The worker has forgotten the names of the old draft and still shows it.
Overtaking == worker.pc \in {"saveNames", "assign"}

\* A name made from the draft is hidden, or about to be by its import, or about
\* to be new; so no two imports that nothing disturbs have a name in common.
ImportInv ==
    /\ \A n \in seen.made : \/ n \in imported \cup seen.loose
                            \/ \E i \in Busy : n \in DOMAIN imp[i].ids
                            \/ Overtaking /\ n \in worker.removed
    /\ \A i, j \in Busy : i # j => NamesAt(i) \cap NamesAt(j) \subseteq seen.loose
    /\ \A i \in Busy : (NamesOf(imp[i].todo) \cap seen.made) \ DOMAIN imp[i].ids \subseteq seen.loose
    /\ NotImportedTwice

\* What the draft that is being built keeps of the one it replaces.
Kept == NamesOf(WithoutTables(worker.base, worker.job.tables).ents)

\* Names that no extraction overtook are names of the draft, and stay names of
\* the draft that the worker builds; the files follow, one step later.
NamesInv ==
    /\ imported \ seen.stale \subseteq NamesOf(Existing.ents)
    /\ worker.pc = "names" => NamesOf(Existing.ents) \subseteq worker.removed \cup Kept
    /\ Overtaking => imported \ seen.stale \subseteq Kept
    /\ worker.pc # "saveNames" => diskImported = imported
    /\ IF worker.pc = "saveDraft" THEN NamesOf(Existing.ents) \subseteq NamesOf(worker.base.ents)
       ELSE draft # None => diskDraft # None /\ NamesOf(draft.ents) \subseteq NamesOf(diskDraft.ents)
    /\ \A i \in Busy : NamesAt(i) \subseteq NamesOf(imp[i].draft.ents)
    /\ FreshIsVisible

\* What was cleared is in neither draft nor file, nor in what the worker will
\* write, unless the worker has extracted it anew or a clear came too late.
ClearInv ==
    /\ ClearedStaysCleared
    /\ seen.cleared \cap EntSet(diskDraft) \subseteq seen.undone
    /\ worker.pc \in {"names", "saveNames", "assign"} =>
        seen.cleared \cap EntSet(worker.base) \subseteq seen.undone \cup EntSet(worker.result)
    /\ worker.pc = "saveDraft" => seen.cleared \cap EntSet(worker.base) \subseteq seen.undone

\* No draft, file or result has a metric of a table twice.
OnceInv ==
    /\ UniqueIn(Existing.ents)
    /\ diskDraft # None => UniqueIn(diskDraft.ents)
    /\ UniqueIn(worker.result.ents) /\ UniqueIn(worker.base.ents)
    /\ worker.pc = "merge" =>
        \A k \in DOMAIN worker.result.ents : worker.result.ents[k].table \in worker.job.tables

-----------------------------------------------------------------------------
(* Types.                                                                  *)

Shown(d) == IF d = None THEN EmptyDraft ELSE d

LEMMA ShownIs ==
    ASSUME NEW d \in Draft \cup {None}
    PROVE  /\ Shown(d) \in Draft /\ Shown(d).ents \in Seq(DraftEntity)
           /\ EntSet(d) = Pairs(Shown(d).ents)
           /\ NamesOf(Shown(d).ents) \subseteq Name
           /\ EntSet(d) \subseteq Name \X Table
           /\ d = None => NamesOf(Shown(d).ents) = {} /\ UniqueIn(Shown(d).ents)
           /\ d \in Draft => Shown(d) = d /\ d # None
<1>1. d = None \/ (d \in Draft /\ d # None)
  BY DraftAssumption
<1>2. Shown(d) \in Draft
  BY <1>1, EmptyIsDraft DEF Shown
<1>3. Shown(d).ents \in Seq(DraftEntity)
  BY <1>2 DEF Draft
<1>4. EntSet(d) = Pairs(Shown(d).ents)
  BY <1>1, EmptyIsDraft DEF EntSet, Shown, Pairs
<1>5. \A i \in DOMAIN Shown(d).ents : Shown(d).ents[i].name \in Name /\ Shown(d).ents[i].table \in Table
  <2> TAKE i \in DOMAIN Shown(d).ents
  <2>1. Shown(d).ents[i] \in DraftEntity
    BY <1>3
  <2> QED
    BY <2>1 DEF DraftEntity
<1>6. NamesOf(Shown(d).ents) \subseteq Name /\ EntSet(d) \subseteq Name \X Table
  BY <1>4, <1>5 DEF NamesOf, Pairs
<1> QED
  BY <1>1, <1>2, <1>3, <1>4, <1>6, EmptyIsDraft, DraftAssumption DEF Shown

\* What a clear leaves: part of the draft, without the names it removes.
Leaves(remaining, names, gone) ==
    /\ draft \in Draft
    /\ remaining \in Draft \cup {None} /\ names \in SUBSET Name
    /\ NamesOf(Shown(remaining).ents) \subseteq NamesOf(draft.ents)
    /\ NamesOf(draft.ents) \ names \subseteq NamesOf(Shown(remaining).ents)
    /\ EntSet(remaining) \subseteq EntSet(draft)
    /\ gone \subseteq EntSet(draft) /\ gone \cap EntSet(remaining) = {}
    /\ UniqueIn(draft.ents) => UniqueIn(Shown(remaining).ents)

LEMMA ClearLeaves ==
    ASSUME draft \in Draft \cup {None}, ClearAll \/ ClearTables
    PROVE  \E remaining, names, gone :
              Clear(remaining, names, gone) /\ Leaves(remaining, names, gone)
<1>1. draft \in Draft /\ draft # None
  BY DEF ClearAll, ClearTables, Clear
<1>2. /\ NamesOf(draft.ents) \subseteq Name /\ Existing = draft
      /\ EntSet(draft) = Pairs(draft.ents)
  <2>1. Shown(draft) = draft
    BY <1>1 DEF Shown
  <2> QED
    BY <1>1, <2>1, ShownIs DEF Existing
<1>3. CASE ClearAll
  <2>1. Leaves(None, Name, EntSet(draft))
    <3>1. /\ NamesOf(Shown(None).ents) = {} /\ UniqueIn(Shown(None).ents)
          /\ EntSet(None) = {}
      BY EmptyIsDraft DEF Shown, EntSet
    <3> QED
      BY <1>1, <1>2, <3>1 DEF Leaves
  <2>2. Clear(None, Name, EntSet(draft))
    BY <1>3 DEF ClearAll
  <2> QED
    BY <2>1, <2>2
<1>4. CASE ClearTables
  <2>1. PICK tables \in (SUBSET Table) \ {{}} :
           LET w == WithoutTables(draft, tables)
           IN  Clear(IF w = EmptyDraft THEN None ELSE w, RemovedNames(draft, tables),
                     EntSet(draft) \ EntSet(w))
    BY <1>2, <1>4 DEF ClearTables
  <2> DEFINE w == WithoutTables(draft, tables)
             r == IF w = EmptyDraft THEN None ELSE w
             names == RemovedNames(draft, tables)
             gone == EntSet(draft) \ EntSet(w)
  <2>2. Clear(r, names, gone)
    BY <2>1
  <2>3. /\ w \in Draft
        /\ UniqueIn(draft.ents) => UniqueIn(w.ents)
        /\ Pairs(w.ents) \subseteq Pairs(draft.ents)
        /\ NamesOf(w.ents) = {draft.ents[i].name : i \in OfOtherTables(draft.ents, tables)}
    BY <1>1, WithoutTablesIs
  <2>4. /\ names \subseteq NamesOf(draft.ents)
        /\ NamesOf(draft.ents) \ names \subseteq NamesOf(w.ents)
        /\ NamesOf(w.ents) \subseteq NamesOf(draft.ents)
    BY <2>3 DEF RemovedNames, NamesOf, OfTables, OfOtherTables
  <2> HIDE DEF w
  <2>5. Shown(r) = w /\ r \in Draft \cup {None}
    BY <2>3, DraftAssumption DEF Shown
  <2>6. EntSet(w) = Pairs(w.ents) /\ EntSet(r) = Pairs(w.ents)
    <3>1. Shown(w) = w
      BY <2>3, DraftAssumption DEF Shown
    <3> QED
      BY <2>3, <2>5, <3>1, ShownIs
  <2> HIDE DEF r, names
  <2>7. Leaves(r, names, gone)
    BY <1>1, <1>2, <2>3, <2>4, <2>5, <2>6 DEF Leaves
  <2> HIDE DEF gone
  <2> QED
    BY <2>2, <2>7
<1> QED
  BY <1>3, <1>4

LEMMA WorkSets ==
    /\ NoWork \in WorkerType /\ NoWork.pc = "idle"
    /\ NoAsk.pc = "new" /\ NoAsk.job = None
    /\ NoImport \in Import /\ NoImport.pc = "new"
    /\ IsIds(NoImport.ids) /\ IsIds(NoImport.atomics) /\ IsIds(NoImport.deriveds)
    /\ NoHistory \in History
<1>1. <<>> \in Dict /\ IsIds(<<>>)
  <2>1. <<>> \in [{} -> Nat] /\ DOMAIN <<>> = {}
    OBVIOUS
  <2> QED
    BY <2>1 DEF Dict, IsIds
<1>2. NoImport \in Import
  BY <1>1, EmptyIsDraft DEF NoImport, Import
<1> QED
  BY <1>1, <1>2, EmptyIsDraft DEF NoWork, WorkerType, NoAsk, NoImport, NoHistory, History

LEMMA TypesAre == TypeInv => DraftTypeOK
<1> SUFFICES ASSUME TypeInv PROVE DraftTypeOK
  OBVIOUS
<1>1. \A i \in Importer : imp[i] \in Import
  BY DEF TypeInv, ImportsOK
<1>2. \A i \in Importer :
        /\ imp[i].pc \in {"new", "atomics", "deriveds", "create"}
        /\ imp[i].draft \in Draft /\ imp[i].todo \in Seq(DraftEntity)
  BY <1>1 DEF Import
<1> QED
  BY <1>2 DEF TypeInv, DraftsOK, ControlOK, RowsOK, ImportsOK, WorkerType, DraftTypeOK

LEMMA TypeInit == DraftInit => TypeInv
<1> SUFFICES ASSUME DraftInit PROVE TypeInv
  OBVIOUS
<1>1. DraftsOK
  <2>1. \A results \in ResultsOf(Table) : Extraction(Table, results) \in Draft
    BY ExtractionIs
  <2> QED
    BY <2>1 DEF DraftInit, DraftsOK
<1>2. ControlOK
  BY WorkSets DEF DraftInit, ControlOK, NoAsk
<1>3. RowsOK
  BY DEF DraftInit, RowsOK
<1>4. ImportsOK
  BY WorkSets DEF DraftInit, ImportsOK
<1> QED
  BY <1>1, <1>2, <1>3, <1>4, WorkSets DEF DraftInit, TypeInv

\* Requests and the worker: the four parts but what they change.
LEMMA TypeAsk ==
    ASSUME TypeInv, NEW e \in Extractor, Check(e) \/ Refuse(e) \/ Start(e)
    PROVE  TypeInv'
<1> USE DEF TypeInv
<1>1. CASE Check(e)
  <2>1. ControlOK'
    BY <1>1 DEF Check, ControlOK
  <2> QED
    BY <1>1, <2>1 DEF Check, DraftsOK, RowsOK, ImportsOK, IsIds
<1>2. CASE Refuse(e)
  <2>1. ControlOK'
    BY <1>2 DEF Refuse, ControlOK, NoAsk
  <2> QED
    BY <1>2, <2>1 DEF Refuse, DraftsOK, RowsOK, ImportsOK, IsIds
<1>3. CASE Start(e)
  <2>1. ControlOK'
    <3>1. ask[e].job \in Job
      BY <1>3 DEF Start, ControlOK
    <3>2. queue' \in Seq(Job)
      BY <1>3, <3>1 DEF Start, ControlOK
    <3> QED
      BY <1>3, <3>2 DEF Start, ControlOK, NoAsk
  <2>2. (seen \in History)'
    BY <1>3 DEF Start, History
  <2> QED
    BY <1>3, <2>1, <2>2 DEF Start, DraftsOK, RowsOK, ImportsOK, IsIds
<1> QED
  BY <1>1, <1>2, <1>3

LEMMA TypeWork ==
    ASSUME TypeInv, WorkerStep
    PROVE  TypeInv'
<1>1. /\ worker \in WorkerType /\ worker.result \in Draft /\ worker.base \in Draft
      /\ worker.removed \in SUBSET Name /\ queue \in Seq(Job)
      /\ worker.pc # "idle" => worker.job \in Job
      /\ worker.pc # "idle" => worker.job.tables \in SUBSET Table
  <2>1. \A job \in Job : job.tables \in SUBSET Table
    BY DEF Job
  <2> QED
    BY <2>1 DEF TypeInv, ControlOK, WorkerType
<1>2. Existing \in Draft /\ draft \in Draft \cup {None} /\ diskDraft \in Draft \cup {None}
  BY EmptyIsDraft DEF TypeInv, DraftsOK, Existing
<1>3. ASSUME UNCHANGED <<imp, rows>> PROVE RowsOK' /\ ImportsOK'
  BY <1>3 DEF TypeInv, RowsOK, ImportsOK, IsIds
<1> USE DEF TypeInv
<1>4. CASE Take
  <2>1. Head(queue) \in Job /\ Tail(queue) \in Seq(Job)
    BY <1>1, <1>4 DEF Take
  <2>2. ControlOK'
    BY <1>4, <2>1 DEF Take, ControlOK, WorkerType
  <2> QED
    BY <1>3, <1>4, <2>2 DEF Take, DraftsOK
<1>5. CASE Extract
  <2>1. \A results \in ResultsOf(worker.job.tables) :
           Extraction(worker.job.tables, results) \in Draft
    BY <1>1, <1>5, ExtractionIs DEF Extract
  <2>2. ControlOK'
    BY <1>1, <1>5, <2>1 DEF Extract, ControlOK, WorkerType
  <2> QED
    BY <1>3, <1>5, <2>2 DEF Extract, DraftsOK
<1>6. CASE ExtractFails
  BY <1>3, <1>6, WorkSets DEF ExtractFails, ControlOK, DraftsOK
<1>7. CASE Merge
  <2>1. Extend(WithoutTables(Existing, worker.job.tables), worker.result) \in Draft
    BY <1>1, <1>2, ExtendIs, WithoutTablesIs
  <2>2. RemovedNames(Existing, worker.job.tables) \in SUBSET Name
    <3>1. NamesOf(Existing.ents) \subseteq Name
      BY <1>2, ShownIs DEF Existing, Shown
    <3> QED
      BY <3>1 DEF RemovedNames, OfTables, NamesOf
  <2>3. ControlOK'
    BY <1>1, <1>7, <2>1, <2>2 DEF Merge, ControlOK, WorkerType
  <2> QED
    BY <1>3, <1>7, <2>3 DEF Merge, DraftsOK
<1>8. CASE ForgetNames
  <2>1. ControlOK'
    BY <1>1, <1>8 DEF ForgetNames, ControlOK, WorkerType
  <2>2. (seen \in History)'
    BY <1>8 DEF ForgetNames, History
  <2> QED
    BY <1>3, <1>8, <2>1, <2>2 DEF ForgetNames, DraftsOK
<1>9. CASE SaveNames
  <2>1. ControlOK'
    BY <1>1, <1>9 DEF SaveNames, ControlOK, WorkerType
  <2> QED
    BY <1>3, <1>9, <2>1 DEF SaveNames, DraftsOK
<1>10. CASE Assign
  <2>1. ControlOK'
    BY <1>1, <1>10 DEF Assign, ControlOK, WorkerType
  <2>2. NamesOf(worker.result.ents) \subseteq Name
    BY <1>1, ShownIs DEF Shown
  <2>3. (seen \in History)'
    <3> DEFINE new == NamesOf(worker.result.ents) \ NamesOf(WithoutTables(worker.base, worker.job.tables).ents)
    <3>1. new \subseteq Name
      BY <2>2
    <3>2. seen' = [seen EXCEPT !.fresh = (@ \ worker.removed) \cup new,
                               !.cleared = @ \ EntSet(worker.result),
                               !.made = @ \ worker.removed]
      BY <1>10 DEF Assign
    <3> HIDE DEF new
    <3> QED
      BY <3>1, <3>2 DEF History
  <2> QED
    BY <1>1, <1>3, <1>10, <2>1, <2>3 DEF Assign, DraftsOK
<1>11. CASE SaveDraft
  BY <1>1, <1>3, <1>11, WorkSets DEF SaveDraft, ControlOK, DraftsOK
<1> QED
  BY <1>4, <1>5, <1>6, <1>7, <1>8, <1>9, <1>10, <1>11 DEF WorkerStep

LEMMA TypeClear ==
    ASSUME TypeInv, ClearAll \/ ClearTables
    PROVE  TypeInv'
<1>1. draft \in Draft \cup {None}
  BY DEF TypeInv, DraftsOK
<1>2. PICK remaining, names, gone : Clear(remaining, names, gone) /\ Leaves(remaining, names, gone)
  BY <1>1, ClearLeaves
<1>3. DraftsOK'
  BY <1>2 DEF TypeInv, DraftsOK, Clear, Leaves
<1>4. ControlOK' /\ RowsOK' /\ ImportsOK'
  BY <1>2 DEF TypeInv, ControlOK, RowsOK, ImportsOK, IsIds, Clear
<1>5. (seen \in History)'
  <2>1. gone \subseteq Name \X Table
    BY <1>1, <1>2, ShownIs DEF Leaves
  <2>2. Remembered(gone) \subseteq Name \X Table
    BY <2>1 DEF Remembered
  <2> QED
    BY <1>2, <2>1, <2>2 DEF TypeInv, History, Clear
<1> QED
  BY <1>3, <1>4, <1>5 DEF TypeInv

\* A row that is added leaves the dicts of the imports as they are.
LEMMA RowsGrow ==
    ASSUME RowsOK, NEW n \in Name, NEW refs \in Seq(1..Len(rows)),
           rows' = Append(rows, [name |-> n, refs |-> refs])
    PROVE  /\ RowsOK'
           /\ Len(rows) + 1 \in DOMAIN rows' /\ rows'[Len(rows) + 1].name = n
           /\ \A k \in DOMAIN rows : k \in DOMAIN rows' /\ rows'[k] = rows[k]
<1> DEFINE N == Len(rows)
           row == [name |-> n, refs |-> refs]
           Row(m) == [name : Name, refs : Seq(1..m)]
<1>1. rows \in Seq(Row(N)) /\ N \in Nat
  BY DEF RowsOK
<1>2. \A s \in Seq(1..N) : s \in Seq(1..(N + 1))
  BY <1>1
<1>3. \A r \in Row(N) : r \in Row(N + 1)
  BY <1>2
<1>4. rows \in Seq(Row(N + 1)) /\ row \in Row(N + 1)
  <2>1. row \in Row(N)
    OBVIOUS
  <2> HIDE DEF Row, row
  <2>2. \A k \in DOMAIN rows : rows[k] \in Row(N + 1)
    BY <1>1, <1>3
  <2> QED
    BY <1>1, <1>3, <2>1, <2>2
<1>5. rows' = Append(rows, row)
  OBVIOUS
<1>6. row.name = n
  OBVIOUS
<1> HIDE DEF Row, row
<1>7. rows' \in Seq(Row(N + 1)) /\ Len(rows') = N + 1
  BY <1>4, <1>5
<1>8. RowsOK'
  BY <1>7 DEF RowsOK, Row
<1>9. rows'[N + 1] = row /\ \A k \in DOMAIN rows : k \in DOMAIN rows' /\ rows'[k] = rows[k]
  BY <1>4, <1>5
<1> QED
  BY <1>1, <1>6, <1>7, <1>8, <1>9

LEMMA ImportIs ==
    ASSUME TypeInv, NEW i \in Importer
    PROVE  /\ imp[i] \in Import /\ imp[i].draft \in Draft /\ imp[i].todo \in Seq(DraftEntity)
           /\ imp[i].todo # <<>> =>
                /\ Head(imp[i].todo) \in DraftEntity /\ Head(imp[i].todo).name \in Name
                /\ Tail(imp[i].todo) \in Seq(DraftEntity)
                /\ NamesOf(imp[i].todo) = {Head(imp[i].todo).name} \cup NamesOf(Tail(imp[i].todo))
           /\ NamesOf(<<>>) = {}
<1>1. imp[i] \in Import
  BY DEF TypeInv, ImportsOK
<1>2. imp[i].draft \in Draft /\ imp[i].todo \in Seq(DraftEntity)
  BY <1>1 DEF Import
<1> DEFINE todo == imp[i].todo
<1>3. ASSUME todo # <<>>
      PROVE  /\ Head(todo) \in DraftEntity /\ Head(todo).name \in Name
             /\ Tail(todo) \in Seq(DraftEntity)
             /\ NamesOf(todo) = {Head(todo).name} \cup NamesOf(Tail(todo))
  <2>1. todo \in Seq(DraftEntity)
    BY <1>2
  <2> HIDE DEF todo
  <2>2. /\ Head(todo) \in DraftEntity /\ Head(todo) = todo[1] /\ 1 \in DOMAIN todo
        /\ Tail(todo) \in Seq(DraftEntity)
    BY <1>3, <2>1
  <2>3. Head(todo).name \in Name
    BY <2>2 DEF DraftEntity
  <2>4. /\ \A k \in DOMAIN todo : k = 1 \/ (k - 1 \in DOMAIN Tail(todo) /\ Tail(todo)[k - 1] = todo[k])
        /\ \A k \in DOMAIN Tail(todo) : k + 1 \in DOMAIN todo /\ Tail(todo)[k] = todo[k + 1]
    BY <1>3, <2>1
  <2>5. NamesOf(todo) = {Head(todo).name} \cup NamesOf(Tail(todo))
    <3>1. NamesOf(todo) \subseteq {Head(todo).name} \cup NamesOf(Tail(todo))
      <4> SUFFICES ASSUME NEW k \in DOMAIN todo
                   PROVE  todo[k].name \in {Head(todo).name} \cup NamesOf(Tail(todo))
        BY DEF NamesOf
      <4>1. CASE k = 1
        BY <2>2, <4>1
      <4>2. CASE k # 1
        BY <2>4, <4>2 DEF NamesOf
      <4> QED
        BY <4>1, <4>2
    <3>2. {Head(todo).name} \cup NamesOf(Tail(todo)) \subseteq NamesOf(todo)
      BY <2>2, <2>4 DEF NamesOf
    <3> QED
      BY <3>1, <3>2
  <2> QED
    BY <2>2, <2>3, <2>5
<1>4. NamesOf(<<>>) = {}
  BY DEF NamesOf
<1> QED
  BY <1>1, <1>2, <1>3, <1>4

LEMMA OldestIs ==
    ASSUME RowsOK, NEW names \in SUBSET Name
    PROVE  /\ Oldest(names) \in Dict /\ IsIds(Oldest(names))
           /\ \A ids \in AnyRow(names) : ids \in Dict /\ IsIds(ids)
<1>1. DOMAIN rows \subseteq Nat
  BY DEF RowsOK
<1>2. ASSUME NEW n \in Configured(names) PROVE Min(RowsNamed(n)) \in RowsNamed(n)
  <2>1. RowsNamed(n) \in SUBSET Nat /\ RowsNamed(n) # {}
    BY <1>1, <1>2 DEF Configured, RowsNamed
  <2>2. \E x \in RowsNamed(n) : \A y \in RowsNamed(n) : x <= y
    BY <2>1, LeastNumber
  <2> QED
    BY <2>2 DEF Min
<1>3. Configured(names) \in SUBSET Name
  BY DEF Configured
<1>4. \A n : \A k \in RowsNamed(n) : k \in DOMAIN rows /\ k \in Nat /\ rows[k].name = n
  BY <1>1 DEF RowsNamed
<1>5. Oldest(names) \in [Configured(names) -> Nat] /\ IsIds(Oldest(names))
  BY <1>2, <1>3, <1>4 DEF Oldest, IsIds
<1>6. ASSUME NEW ids \in AnyRow(names)
      PROVE  ids \in [Configured(names) -> Nat] /\ IsIds(ids)
  BY <1>1, <1>3, <1>4 DEF AnyRow, IsIds
<1> QED
  BY <1>3, <1>5, <1>6 DEF Dict

LEMMA TypeImport ==
    ASSUME TypeInv, NEW i \in Importer,
           Begin(i) \/ ListExisting(i) \/ Skip(i) \/ Create(i) \/ CreateFails(i) \/ Record(i)
    PROVE  TypeInv'
<1>1. /\ imp[i] \in Import /\ imp[i].draft \in Draft /\ imp[i].todo \in Seq(DraftEntity)
      /\ imp[i].todo # <<>> => Head(imp[i].todo).name \in Name /\ Tail(imp[i].todo) \in Seq(DraftEntity)
  BY ImportIs
<1>2. \A x \in Importer : /\ DOMAIN imp[x].ids \in SUBSET Name
                          /\ NamesOf(imp[x].todo) \in SUBSET Name
  <2> TAKE x \in Importer
  <2>1. imp[x].todo \in Seq(DraftEntity)
    BY ImportIs
  <2>2. \A k \in DOMAIN imp[x].todo : imp[x].todo[k].name \in Name
    <3> TAKE k \in DOMAIN imp[x].todo
    <3>1. imp[x].todo[k] \in DraftEntity
      BY <2>1
    <3> QED
      BY <3>1 DEF DraftEntity
  <2> QED
    BY <2>2 DEF TypeInv, ImportsOK, IsIds, NamesOf
<1>3. ASSUME UNCHANGED <<status, queue, worker, ask>> PROVE ControlOK'
  BY <1>3 DEF TypeInv, ControlOK
<1>4. ASSUME UNCHANGED <<draft, imported, diskDraft, diskImported>> PROVE DraftsOK'
  BY <1>4 DEF TypeInv, DraftsOK
<1>5. ASSUME NEW m \in Import, IsIds(m.ids), IsIds(m.atomics), IsIds(m.deriveds),
             imp' = [imp EXCEPT ![i] = m], UNCHANGED rows
      PROVE  ImportsOK' /\ RowsOK'
  BY <1>5 DEF TypeInv, ImportsOK, RowsOK, IsIds
<1>6. CASE Begin(i)
  <2>1. PICK selected \in (SUBSET Visible) \ {{}} :
           /\ imp' = [imp EXCEPT ![i] = [NoImport EXCEPT
                        !.pc = "atomics", !.draft = draft, !.todo = Ordered(draft, selected)]]
           /\ seen' = [seen EXCEPT !.loose = @ \cup
                (selected \cap ((IF worker.pc \in {"saveNames", "assign"} THEN seen.made ELSE {})
                                \cup UNION {NamesOf(imp[x].todo) \cup DOMAIN imp[x].ids : x \in Busy}))]
    BY <1>6 DEF Begin
  <2>2. draft \in Draft
    BY <1>6 DEF Begin, TypeInv, DraftsOK
  <2>3. selected \subseteq Name
    <3>1. Existing = draft /\ draft.ents \in Seq(DraftEntity) /\ NamesOf(draft.ents) \subseteq Name
      BY <2>2, ShownIs DEF Existing, Shown
    <3> DEFINE I == {k \in DOMAIN draft.ents : draft.ents[k].name \notin imported}
    <3>2. WithoutEntities(Existing, imported).ents = At(draft.ents, I) /\ I \subseteq DOMAIN draft.ents
      BY <3>1 DEF WithoutEntities
    <3> HIDE DEF I
    <3>3. NamesOf(At(draft.ents, I)) \subseteq NamesOf(draft.ents)
      BY <3>1, <3>2, AtEntities DEF NamesOf
    <3> QED
      BY <3>1, <3>2, <3>3 DEF Visible
  <2> DEFINE m == [NoImport EXCEPT
                !.pc = "atomics", !.draft = draft, !.todo = Ordered(draft, selected)]
  <2>4. m \in Import /\ IsIds(m.ids) /\ IsIds(m.atomics) /\ IsIds(m.deriveds)
    BY <2>2, <2>3, OrderedIs, WorkSets DEF Import
  <2>5. ImportsOK' /\ RowsOK'
    <3>1. imp' = [imp EXCEPT ![i] = m] /\ UNCHANGED rows
      BY <1>6, <2>1 DEF Begin
    <3> HIDE DEF m
    <3> QED
      BY <1>5, <2>4, <3>1
  <2>6. (seen \in History)'
    BY <2>1, <2>3 DEF TypeInv, History
  <2> QED
    BY <1>3, <1>4, <1>6, <2>5, <2>6 DEF Begin, TypeInv
<1>7. CASE ListExisting(i)
  <2>1. \E m \in Import : /\ IsIds(m.ids) /\ IsIds(m.atomics) /\ IsIds(m.deriveds)
                          /\ imp' = [imp EXCEPT ![i] = m]
    <3>1. IsIds(imp[i].ids) /\ IsIds(imp[i].atomics) /\ IsIds(imp[i].deriveds)
      BY DEF TypeInv, ImportsOK
    <3>2. \A d \in Dict : IsIds(d) =>
            /\ [imp[i] EXCEPT !.pc = "deriveds", !.atomics = d] \in Import
            /\ [imp[i] EXCEPT !.pc = "create", !.deriveds = d] \in Import
      BY <1>1 DEF Import
    <3>3. [imp[i] EXCEPT !.pc = "create"] \in Import
      BY <1>1 DEF Import
    <3>4. /\ Oldest(AtomicName) \in Dict /\ IsIds(Oldest(AtomicName))
          /\ \A ids \in AnyRow(DerivedName) : ids \in Dict /\ IsIds(ids)
      BY OldestIs DEF TypeInv, Name
    <3>5. CASE imp' = [imp EXCEPT ![i].pc = "deriveds", ![i].atomics = Oldest(AtomicName)]
      <4> DEFINE m == [imp[i] EXCEPT !.pc = "deriveds", !.atomics = Oldest(AtomicName)]
      <4>1. m \in Import /\ m.ids = imp[i].ids /\ m.atomics = Oldest(AtomicName)
            /\ m.deriveds = imp[i].deriveds
        BY <1>1, <3>2, <3>4 DEF Import
      <4>2. imp' = [imp EXCEPT ![i] = m]
        BY <3>5 DEF TypeInv, ImportsOK
      <4> HIDE DEF m
      <4> QED
        BY <3>1, <3>4, <4>1, <4>2
    <3>6. CASE imp' = [imp EXCEPT ![i].pc = "create"]
      <4> DEFINE m == [imp[i] EXCEPT !.pc = "create"]
      <4>1. m \in Import /\ m.ids = imp[i].ids /\ m.atomics = imp[i].atomics
            /\ m.deriveds = imp[i].deriveds
        BY <1>1, <3>3 DEF Import
      <4>2. imp' = [imp EXCEPT ![i] = m]
        BY <3>6 DEF TypeInv, ImportsOK
      <4> HIDE DEF m
      <4> QED
        BY <3>1, <4>1, <4>2
    <3>7. ASSUME NEW ids \in AnyRow(DerivedName),
                 imp' = [imp EXCEPT ![i].pc = "create", ![i].deriveds = ids]
          PROVE  \E m \in Import : /\ IsIds(m.ids) /\ IsIds(m.atomics) /\ IsIds(m.deriveds)
                                   /\ imp' = [imp EXCEPT ![i] = m]
      <4> DEFINE m == [imp[i] EXCEPT !.pc = "create", !.deriveds = ids]
      <4>1. m \in Import /\ m.ids = imp[i].ids /\ m.atomics = imp[i].atomics
            /\ m.deriveds = ids
        BY <1>1, <3>2, <3>4 DEF Import
      <4>2. imp' = [imp EXCEPT ![i] = m]
        BY <3>7 DEF TypeInv, ImportsOK
      <4> HIDE DEF m
      <4> QED
        BY <3>1, <3>4, <4>1, <4>2
    <3> QED
      BY <1>7, <3>5, <3>6, <3>7 DEF ListExisting
  <2>2. ImportsOK' /\ RowsOK'
    BY <1>5, <1>7, <2>1 DEF ListExisting
  <2> QED
    BY <1>3, <1>4, <1>7, <2>2 DEF ListExisting, TypeInv
<1>8. CASE Skip(i)
  <2> DEFINE m == [imp[i] EXCEPT !.todo = Tail(@)]
  <2>1. m \in Import /\ m.ids = imp[i].ids /\ m.atomics = imp[i].atomics
        /\ m.deriveds = imp[i].deriveds
    BY <1>1, <1>8 DEF Import, Skip
  <2>2. imp' = [imp EXCEPT ![i] = m] /\ UNCHANGED rows
    BY <1>8 DEF Skip, TypeInv, ImportsOK
  <2> HIDE DEF m
  <2>3. ImportsOK' /\ RowsOK'
    BY <1>5, <2>1, <2>2 DEF TypeInv, ImportsOK
  <2> QED
    BY <1>3, <1>4, <1>8, <2>3 DEF Skip, TypeInv
<1>9. CASE Create(i)
  <2> DEFINE n == Head(imp[i].todo).name
             refs == RefsFor(imp[i], n)
             ids == [x \in DOMAIN imp[i].ids \cup {n} |->
                       IF x = n THEN Len(rows) + 1 ELSE imp[i].ids[x]]
             m == [imp[i] EXCEPT !.todo = Tail(@), !.ids = ids]
  <2>1. n \in Name /\ refs \in Seq(1..Len(rows)) /\ Len(rows) \in Nat
    <3>0. n \in Name
      BY <1>1, <1>9 DEF Create
    <3>1. Len(rows) \in Nat
      BY DEF TypeInv, RowsOK
    <3>2. IsIds(imp[i].ids) /\ IsIds(imp[i].atomics) /\ IsIds(imp[i].deriveds)
      BY DEF TypeInv, ImportsOK
    <3>3. rows \in Seq([name : Name, refs : Seq(1..Len(rows))])
      BY DEF TypeInv, RowsOK
    <3> HIDE DEF n
    <3>4. refs \in Seq(1..Len(rows))
      BY <1>1, <3>2, <3>3, RefsAre
    <3> QED
      BY <3>0, <3>1, <3>4
  <2>2. /\ RowsOK'
        /\ Len(rows) + 1 \in DOMAIN rows' /\ rows'[Len(rows) + 1].name = n
        /\ \A k \in DOMAIN rows : k \in DOMAIN rows' /\ rows'[k] = rows[k]
    <3>1. rows' = Append(rows, [name |-> n, refs |-> refs])
      BY <1>9 DEF Create
    <3> HIDE DEF n, refs
    <3> QED
      BY <2>1, <3>1, RowsGrow DEF TypeInv
  <2>3. imp' = [imp EXCEPT ![i] = m]
    BY <1>9 DEF Create, TypeInv, ImportsOK
  <2> HIDE DEF n, refs
  <2>4. \A f : IsIds(f) => /\ DOMAIN f \subseteq Name
                           /\ \A y \in DOMAIN f : f[y] \in DOMAIN rows' /\ rows'[f[y]].name = y
    BY <2>2 DEF IsIds
  <2>5. /\ DOMAIN ids \subseteq Name
        /\ \A y \in DOMAIN ids : ids[y] \in DOMAIN rows' /\ rows'[ids[y]].name = y
    BY <2>1, <2>2, <2>4 DEF TypeInv, ImportsOK
  <2>6. ids \in Dict
    <3>1. DOMAIN rows' \subseteq Nat
      BY <2>2 DEF RowsOK
    <3>2. ids \in [DOMAIN ids -> Nat]
      BY <2>5, <3>1
    <3> QED
      BY <2>5, <3>2 DEF Dict
  <2> HIDE DEF ids
  <2>7. m \in Import /\ m.ids = ids /\ m.atomics = imp[i].atomics /\ m.deriveds = imp[i].deriveds
    BY <1>1, <1>9, <2>6 DEF Import, Create
  <2> HIDE DEF m
  <2>8. ImportsOK'
    BY <2>3, <2>4, <2>5, <2>7 DEF TypeInv, ImportsOK, IsIds
  <2>9. (seen \in History)'
    <3> DEFINE mixed == seen.mixed \/ \E k \in DOMAIN refs :
                                 /\ rows[refs[k]].name \in DOMAIN imp[i].ids
                                 /\ imp[i].ids[rows[refs[k]].name] # refs[k]
    <3>1. seen' = [seen EXCEPT
                !.made = IF imp[i].draft = draft THEN @ \cup {n} ELSE @,
                !.twice = IF imp[i].draft = draft /\ n \in seen.made \ DOMAIN imp[i].ids
                          THEN @ \cup {n} ELSE @,
                !.mixed = mixed]
      BY <1>9 DEF Create, n, refs
    <3>2. mixed \in BOOLEAN
      BY DEF TypeInv, History
    <3> HIDE DEF mixed
    <3> QED
      BY <2>1, <3>1, <3>2 DEF TypeInv, History
  <2> QED
    BY <1>3, <1>4, <1>9, <2>2, <2>8, <2>9 DEF Create, TypeInv
<1>10. CASE CreateFails(i)
  <2>1. ImportsOK' /\ RowsOK'
    BY <1>5, <1>10, WorkSets DEF CreateFails
  <2>2. (seen \in History)'
    BY <1>2, <1>10 DEF CreateFails, TypeInv, History
  <2> QED
    BY <1>3, <1>4, <1>10, <2>1, <2>2 DEF CreateFails, TypeInv
<1>11. CASE Record(i)
  <2>1. ImportsOK' /\ RowsOK'
    BY <1>5, <1>11, WorkSets DEF Record
  <2>2. (seen \in History)'
    BY <1>2, <1>11 DEF Record, TypeInv, History
  <2>3. DraftsOK'
    BY <1>2, <1>11 DEF Record, TypeInv, DraftsOK
  <2> QED
    BY <1>3, <1>11, <2>1, <2>2, <2>3 DEF Record, TypeInv
<1> QED
  BY <1>6, <1>7, <1>8, <1>9, <1>10, <1>11

LEMMA TypeCrash == TypeInv /\ Crash => TypeInv'
<1> SUFFICES ASSUME TypeInv, Crash PROVE TypeInv'
  OBVIOUS
<1>1. DraftsOK' /\ ControlOK'
  BY WorkSets DEF Crash, TypeInv, DraftsOK, ControlOK, NoAsk
<1>2. RowsOK'
  BY DEF Crash, TypeInv, RowsOK
<1>3. ImportsOK'
  BY WorkSets DEF Crash, ImportsOK, IsIds
<1>4. \A x \in Importer : DOMAIN imp[x].ids \in SUBSET Name
  BY DEF TypeInv, ImportsOK, IsIds
<1>5. (seen \in History)'
  <2> DEFINE gone == UNION {DOMAIN imp[i].ids : i \in Busy}
  <2>1. gone \subseteq Name
    BY <1>4 DEF Busy
  <2>2. PICK loaded \in {diskDraft, None}, names \in {diskImported, {}} :
          seen' = [seen EXCEPT
             !.fresh = {},
             !.stale = IF loaded = None \/ worker.pc # "idle" THEN @ \cup names ELSE @,
             !.loose = @ \cup (seen.made \ names) \cup gone,
             !.doubled = FALSE]
    BY DEF Crash
  <2>3. names \subseteq Name /\ seen \in History
    BY DEF TypeInv, DraftsOK
  <2> HIDE DEF gone
  <2> QED
    BY <2>1, <2>2, <2>3 DEF History
<1> QED
  BY <1>1, <1>2, <1>3, <1>5 DEF TypeInv

LEMMA TypeStep == TypeInv /\ [DraftNext]_draftVars => TypeInv'
<1> SUFFICES ASSUME TypeInv, [DraftNext]_draftVars PROVE TypeInv'
  OBVIOUS
<1>1. CASE UNCHANGED draftVars
  BY <1>1 DEF draftVars, TypeInv, DraftsOK, ControlOK, RowsOK, ImportsOK, IsIds
<1>2. CASE DraftNext
  BY <1>2, TypeAsk, TypeWork, TypeClear, TypeImport, TypeCrash DEF DraftNext
<1> QED
  BY <1>1, <1>2

LEMMA TypeAlways == DraftSpec => []TypeInv
BY TypeInit, TypeStep, PTL DEF DraftSpec

\* The draft, the files, the executor, the requests and the imports always have
\* their types; an import's names lead to rows of those names, and a row refers
\* to rows that exist (metric_graph_routes.py:60-101, 218-262; draft.py:303-391).
THEOREM DraftTypesHold == DraftSpec => []DraftTypeOK
BY TypeAlways, TypesAre, PTL

-----------------------------------------------------------------------------
(* The status.                                                             *)

LEMMA ControlStep ==
    ASSUME TypeInv, ControlInv, [DraftNext]_draftVars
    PROVE  ControlInv'
<1>1. /\ queue \in Seq(Job) /\ ask \in [Extractor -> [pc : {"new", "listing"}, job : Job \cup {None}]]
      /\ worker \in WorkerType /\ seen \in History
      /\ status \in {"idle", "running", "done", "error"}
  BY DEF TypeInv, ControlOK
<1> USE DEF ControlInv, Pending
<1>2. ASSUME UNCHANGED <<status, queue, worker, ask>>, seen'.doubled = seen.doubled
      PROVE  ControlInv'
  BY <1>2
<1>3. CASE UNCHANGED draftVars
  BY <1>2, <1>3 DEF draftVars
<1>4. ASSUME NEW e \in Extractor, Check(e) \/ Refuse(e) PROVE ControlInv'
  <2>1. CASE Check(e)
    BY <1>1, <2>1 DEF Check
  <2>2. CASE Refuse(e)
    <3>1. \A x \in Extractor : ask'[x].pc = "listing" => ask[x].pc = "listing"
      BY <1>1, <2>2 DEF Refuse, NoAsk
    <3> QED
      BY <2>2, <3>1 DEF Refuse
  <2> QED
    BY <1>4, <2>1, <2>2
<1>5. ASSUME NEW e \in Extractor, Start(e) PROVE ControlInv'
  <2>1. ask[e].job \in Job
    BY <1>5 DEF Start, TypeInv, ControlOK
  <2>2. queue' # <<>> /\ Len(queue') = Len(queue) + 1 /\ status' = "running" /\ worker' = worker
    BY <1>1, <1>5, <2>1 DEF Start
  <2>3. seen'.doubled = ((seen.doubled /\ Pending)
                            \/ \E x \in Extractor \ {e} : ask[x].pc = "listing")
    BY <1>1, <1>5 DEF Start, History
  <2>4. ASSUME ~ seen'.doubled
        PROVE  /\ ~ Pending
               /\ \A x \in Extractor : ask'[x].pc # "listing"
    <3>1. ~ Pending
      BY <1>5, <2>3, <2>4 DEF Start
    <3>2. \A x \in Extractor \ {e} : ask'[x].pc # "listing"
      BY <1>1, <1>5, <2>3, <2>4 DEF Start
    <3>3. ask'[e].pc # "listing"
      BY <1>1, <1>5 DEF Start, NoAsk
    <3> QED
      BY <3>1, <3>2, <3>3
  <2>5. ~ Pending => Len(queue') = 1
    BY <2>2
  <2> QED
    BY <2>2, <2>4, <2>5
<1>6. CASE WorkerStep
  <2>1. CASE Take
    <3>1. /\ Tail(queue) \in Seq(Job) /\ Len(queue) \in Nat /\ queue # <<>>
          /\ Len(Tail(queue)) = Len(queue) - 1
          /\ Len(queue) <= 1 => Tail(queue) = <<>>
      BY <1>1, <2>1 DEF Take
    <3>2. worker'.pc = "extract" /\ worker.pc = "idle" /\ queue' = Tail(queue)
      BY <1>1, <2>1 DEF Take, WorkerType
    <3>3. Len(queue) <= 1 => Len(queue') <= 1
      BY <3>1, <3>2
    <3> QED
      BY <2>1, <3>1, <3>2, <3>3 DEF Take
  <2>2. CASE ExtractFails \/ SaveDraft
    <3>1. /\ worker.pc # "idle" /\ worker'.pc = "idle" /\ status' # "running"
          /\ UNCHANGED <<queue, ask, seen>>
      BY <2>2, WorkSets DEF ExtractFails, SaveDraft
    <3> QED
      BY <3>1
  <2>3. CASE Extract \/ Merge \/ ForgetNames \/ SaveNames \/ Assign
    <3>1. worker.pc # "idle" /\ worker'.pc # "idle"
      BY <1>1, <2>3 DEF Extract, Merge, ForgetNames, SaveNames, Assign, WorkerType
    <3>2. seen'.doubled = seen.doubled /\ UNCHANGED <<status, queue, ask>>
      BY <1>1, <2>3 DEF Extract, Merge, ForgetNames, SaveNames, Assign, History
    <3> QED
      BY <3>1, <3>2
  <2> QED
    BY <1>6, <2>1, <2>2, <2>3 DEF WorkerStep
<1>7. CASE ClearAll \/ ClearTables
  <2>1. PICK remaining, names, gone : Clear(remaining, names, gone)
    BY <1>7, ClearLeaves DEF TypeInv, DraftsOK
  <2>2. UNCHANGED <<status, queue, worker, ask>> /\ seen'.doubled = seen.doubled
    BY <1>1, <2>1 DEF Clear, History
  <2> QED
    BY <1>2, <2>2
<1>8. ASSUME NEW i \in Importer,
             Begin(i) \/ ListExisting(i) \/ Skip(i) \/ Create(i) \/ CreateFails(i) \/ Record(i)
      PROVE  ControlInv'
  <2>1. UNCHANGED <<status, queue, worker, ask>>
    BY <1>8 DEF Begin, ListExisting, Skip, Create, CreateFails, Record
  <2>2. seen'.doubled = seen.doubled
    BY <1>1, <1>8 DEF Begin, ListExisting, Skip, Create, CreateFails, Record, History
  <2> QED
    BY <1>2, <2>1, <2>2
<1>9. CASE Crash
  BY <1>9, WorkSets DEF Crash
<1> QED
  BY <1>3, <1>4, <1>5, <1>6, <1>7, <1>8, <1>9 DEF DraftNext

LEMMA ControlAlways == DraftSpec => []ControlInv
<1>1. DraftInit => ControlInv
  BY WorkSets DEF DraftInit, ControlInv, Pending
<1> QED
  BY <1>1, ControlStep, TypeAlways, PTL DEF DraftSpec

\* A status of "running" is never left behind, on any path of the worker or of
\* a request, and an extraction under way is reported as running, unless two
\* requests passed the check together (metric_graph_routes.py:249-252, 266-312).
THEOREM StatusIsAlwaysTrue == DraftSpec => []StatusIsTrue
<1>1. ControlInv => StatusIsTrue
  BY DEF ControlInv, StatusIsTrue
<1> QED
  BY <1>1, ControlAlways, PTL

-----------------------------------------------------------------------------
(* References.                                                             *)

LEMMA LinkedStep ==
    ASSUME TypeInv, SiblingsLinked, [DraftNext]_draftVars
    PROVE  SiblingsLinked'
<1>0. seen \in History
  BY DEF TypeInv
<1> USE DEF SiblingsLinked
<1>1. ASSUME NEW i \in Importer, Create(i) PROVE SiblingsLinked'
  <2> DEFINE n == Head(imp[i].todo).name
             refs == RefsFor(imp[i], n)
             mixed == \E k \in DOMAIN refs : /\ rows[refs[k]].name \in DOMAIN imp[i].ids
                                             /\ imp[i].ids[rows[refs[k]].name] # refs[k]
  <2>1. IsIds(imp[i].ids) /\ IsIds(imp[i].atomics) /\ IsIds(imp[i].deriveds)
    BY DEF TypeInv, ImportsOK
  <2>2. rows \in Seq([name : Name, refs : Seq(1..Len(rows))])
    BY DEF TypeInv, RowsOK
  <2>3. imp[i].draft \in Draft
    BY ImportIs
  <2>4. seen'.mixed = (seen.mixed \/ mixed)
    BY <1>0, <1>1 DEF Create, History
  <2> HIDE DEF n
  <2>5. \A k \in DOMAIN refs : LinkedRight(refs[k], imp[i].ids)
    BY <2>1, <2>2, <2>3, RefsAre
  <2>6. ~ mixed
    BY <2>5 DEF LinkedRight
  <2> QED
    BY <2>4, <2>6
<1>2. CASE UNCHANGED draftVars
  BY <1>2 DEF draftVars
<1>3. CASE ClearAll \/ ClearTables
  BY <1>0, <1>3, ClearLeaves DEF TypeInv, DraftsOK, Clear, History
<1>4. CASE \E e \in Extractor : Check(e) \/ Refuse(e) \/ Start(e)
  BY <1>0, <1>4 DEF Check, Refuse, Start, History
<1>5. CASE WorkerStep
  BY <1>0, <1>5 DEF WorkerStep, Take, Extract, ExtractFails, Merge, ForgetNames, SaveNames,
                    Assign, SaveDraft, History
<1>6. CASE \E i \in Importer : Begin(i) \/ ListExisting(i) \/ Skip(i) \/ CreateFails(i) \/ Record(i)
  BY <1>0, <1>6 DEF Begin, ListExisting, Skip, CreateFails, Record, History
<1>7. CASE Crash
  BY <1>0, <1>7 DEF Crash, History
<1> QED
  BY <1>1, <1>2, <1>3, <1>4, <1>5, <1>6, <1>7 DEF DraftNext

\* A metric refers to the one it was imported with, whatever older metrics of
\* that name there are, and whatever the other imports create meanwhile
\* (draft.py:338-341, 369-373, 382-391).
THEOREM SiblingsAlwaysLinked == DraftSpec => []SiblingsLinked
<1>1. DraftInit => SiblingsLinked
  BY DEF DraftInit, NoHistory, SiblingsLinked
<1> QED
  BY <1>1, LinkedStep, TypeAlways, PTL DEF DraftSpec

-----------------------------------------------------------------------------
(* What the worker builds.                                                 *)

LEMMA WorkIs ==
    ASSUME TypeInv
    PROVE  /\ worker \in WorkerType /\ worker.result \in Draft /\ worker.base \in Draft
           /\ worker.removed \in SUBSET Name
           /\ Existing = Shown(draft) /\ Existing \in Draft
           /\ draft \in Draft \cup {None} /\ diskDraft \in Draft \cup {None}
           /\ worker.pc # "idle" => worker.job \in Job /\ worker.job.tables \in SUBSET Table
<1>1. \A job \in Job : job.tables \in SUBSET Table
  BY DEF Job
<1>2. draft \in Draft \cup {None} /\ diskDraft \in Draft \cup {None}
  BY DEF TypeInv, DraftsOK
<1>3. Existing = Shown(draft) /\ Existing \in Draft
  BY <1>2, ShownIs DEF Existing, Shown
<1> QED
  BY <1>1, <1>2, <1>3 DEF TypeInv, ControlOK, WorkerType

LEMMA OnceStep ==
    ASSUME TypeInv, OnceInv, [DraftNext]_draftVars
    PROVE  OnceInv'
<1>1. /\ worker \in WorkerType /\ worker.result \in Draft /\ worker.base \in Draft
      /\ Existing = Shown(draft) /\ Existing \in Draft
      /\ draft \in Draft \cup {None} /\ diskDraft \in Draft \cup {None}
      /\ worker.pc # "idle" => worker.job \in Job /\ worker.job.tables \in SUBSET Table
  BY WorkIs
<1>2. ASSUME UNCHANGED <<draft, diskDraft, worker>> PROVE OnceInv'
  BY <1>2 DEF OnceInv, Existing
<1>3. CASE UNCHANGED draftVars
  BY <1>2, <1>3 DEF draftVars
<1>4. CASE \E e \in Extractor : Check(e) \/ Refuse(e) \/ Start(e)
  BY <1>2, <1>4 DEF Check, Refuse, Start
<1>5. CASE \E i \in Importer :
             Begin(i) \/ ListExisting(i) \/ Skip(i) \/ Create(i) \/ CreateFails(i) \/ Record(i)
  BY <1>2, <1>5 DEF Begin, ListExisting, Skip, Create, CreateFails, Record
<1>6. CASE ClearAll \/ ClearTables
  <2>1. PICK remaining, names, gone : Clear(remaining, names, gone) /\ Leaves(remaining, names, gone)
    BY <1>1, <1>6, ClearLeaves
  <2>2. /\ draft' = remaining /\ diskDraft' = remaining /\ worker' = worker
        /\ Existing = draft /\ Existing' = Shown(remaining)
    BY <1>1, <2>1, ShownIs DEF Clear, Leaves, Existing, Shown
  <2>3. UniqueIn(Shown(remaining).ents)
    BY <2>1, <2>2 DEF OnceInv, Leaves
  <2>4. remaining # None => Shown(remaining) = remaining
    BY DEF Shown
  <2> QED
    BY <2>2, <2>3, <2>4 DEF OnceInv
<1>7. CASE WorkerStep
  <2>1. CASE Extract
    <3>1. PICK results \in ResultsOf(worker.job.tables) :
             worker'.result = Extraction(worker.job.tables, results)
      BY <2>1 DEF Extract, WorkerType, OnceInv, TypeInv, ControlOK
    <3>2. worker.job.tables \in SUBSET Table
      BY <1>1, <2>1 DEF Extract
    <3>3. /\ UniqueIn(worker'.result.ents)
          /\ \A k \in DOMAIN worker'.result.ents :
                worker'.result.ents[k].table \in worker.job.tables
      BY <3>1, <3>2, ExtractionIs
    <3>4. worker'.base = worker.base /\ worker'.job = worker.job /\ UNCHANGED <<draft, diskDraft>>
      BY <1>1, <2>1 DEF Extract, WorkerType
    <3> QED
      BY <3>3, <3>4 DEF OnceInv, Existing
  <2>2. CASE Merge
    <3>1. UniqueIn(worker'.base.ents)
      <4>1. CASE worker.job.full
        BY <1>1, <2>2, <4>1 DEF Merge, WorkerType, OnceInv
      <4>2. CASE ~ worker.job.full
        <5> DEFINE w == WithoutTables(Existing, worker.job.tables)
        <5>1. /\ w \in Draft /\ UniqueIn(w.ents)
              /\ \A k \in DOMAIN w.ents : w.ents[k].table \notin worker.job.tables
          BY <1>1, WithoutTablesIs DEF OnceInv
        <5>2. Pairs(w.ents) \cap Pairs(worker.result.ents) = {}
          BY <2>2, <5>1 DEF Pairs, OnceInv, Merge
        <5> HIDE DEF w
        <5>3. UniqueIn(Extend(w, worker.result).ents)
          BY <1>1, <5>1, <5>2, ExtendIs DEF OnceInv
        <5>4. worker'.base = Extend(w, worker.result)
          BY <1>1, <2>2, <4>2 DEF Merge, WorkerType, w
        <5> QED
          BY <5>3, <5>4
      <4> QED
        BY <4>1, <4>2
    <3>2. worker'.result = worker.result /\ worker'.pc = "names" /\ UNCHANGED <<draft, diskDraft>>
      BY <1>1, <2>2 DEF Merge, WorkerType
    <3> QED
      BY <3>1, <3>2 DEF OnceInv, Existing
  <2>3. CASE Take \/ ForgetNames \/ SaveNames
    <3>1. /\ worker'.result = worker.result /\ worker'.base = worker.base
          /\ worker'.pc # "merge" /\ UNCHANGED <<draft, diskDraft>>
      BY <1>1, <2>3 DEF Take, ForgetNames, SaveNames, WorkerType
    <3> QED
      BY <3>1 DEF OnceInv, Existing
  <2>4. CASE Assign
    <3>1. /\ worker'.result = worker.result /\ worker'.base = worker.base
          /\ worker'.pc # "merge" /\ draft' = worker.base /\ diskDraft' = diskDraft
      BY <1>1, <2>4 DEF Assign, WorkerType
    <3>2. Existing' = worker.base
      BY <1>1, <3>1, DraftAssumption DEF Existing
    <3> QED
      BY <3>1, <3>2 DEF OnceInv
  <2>5. CASE SaveDraft \/ ExtractFails
    <3>1. /\ draft' = draft /\ diskDraft' \in {diskDraft, worker.base} /\ worker' = NoWork
      BY <2>5 DEF SaveDraft, ExtractFails
    <3>2. UniqueIn(NoWork.result.ents) /\ UniqueIn(NoWork.base.ents) /\ NoWork.pc # "merge"
      BY EmptyIsDraft DEF NoWork
    <3>3. diskDraft' # None => UniqueIn(diskDraft'.ents)
      BY <3>1 DEF OnceInv
    <3>4. Existing' = Existing
      BY <3>1 DEF Existing
    <3> QED
      BY <3>1, <3>2, <3>3, <3>4 DEF OnceInv
  <2> QED
    BY <1>7, <2>1, <2>2, <2>3, <2>4, <2>5 DEF WorkerStep
<1>8. CASE Crash
  <2>1. /\ draft' = diskDraft' /\ draft' \in {diskDraft, None} /\ worker' = NoWork
    BY <1>8 DEF Crash
  <2>2. UniqueIn(NoWork.result.ents) /\ UniqueIn(NoWork.base.ents) /\ NoWork.pc # "merge"
    BY EmptyIsDraft DEF NoWork
  <2>3. draft' # None => UniqueIn(draft'.ents)
    BY <2>1 DEF OnceInv
  <2>4. UniqueIn(Existing'.ents)
    BY <2>3, EmptyIsDraft DEF Existing
  <2> QED
    BY <2>1, <2>2, <2>3, <2>4 DEF OnceInv
<1> QED
  BY <1>3, <1>4, <1>5, <1>6, <1>7, <1>8 DEF DraftNext

\* However extractions of all and of some tables, clears, imports and crashes
\* follow one another, no table has a metric twice (metric_graph_routes.py:236-239,
\* 334-385; draft.py:156-178).
THEOREM EntitiesAlwaysOnce == DraftSpec => []EntitiesOnce
<1>1. DraftInit => OnceInv
  <2> SUFFICES ASSUME DraftInit PROVE OnceInv
    OBVIOUS
  <2>1. \A results \in ResultsOf(Table) :
           Extraction(Table, results) \in Draft /\ UniqueIn(Extraction(Table, results).ents)
    BY ExtractionIs
  <2>2. diskDraft # None => UniqueIn(diskDraft.ents)
    BY <2>1 DEF DraftInit
  <2>3. UniqueIn(Existing.ents)
    BY <2>2, EmptyIsDraft DEF DraftInit, Existing
  <2> QED
    BY <2>2, <2>3, EmptyIsDraft DEF DraftInit, OnceInv, NoWork
<1>2. OnceInv => EntitiesOnce
  BY DEF OnceInv, EntitiesOnce, UniqueIn
<1> QED
  BY <1>1, <1>2, OnceStep, TypeAlways, PTL DEF DraftSpec

-----------------------------------------------------------------------------
(* Clears.                                                                 *)

LEMMA ClearStep ==
    ASSUME TypeInv, ClearInv, [DraftNext]_draftVars
    PROVE  ClearInv'
<1>1. /\ worker \in WorkerType /\ worker.result \in Draft /\ worker.base \in Draft
      /\ Existing = Shown(draft) /\ Existing \in Draft
      /\ draft \in Draft \cup {None} /\ diskDraft \in Draft \cup {None}
      /\ worker.pc # "idle" => worker.job \in Job /\ worker.job.tables \in SUBSET Table
  BY WorkIs
<1>2. seen \in History
  BY DEF TypeInv
<1>3. ASSUME UNCHANGED <<draft, diskDraft, worker>>, seen'.cleared = seen.cleared,
             seen'.undone = seen.undone
      PROVE  ClearInv'
  BY <1>3 DEF ClearInv, ClearedStaysCleared, EntSet
<1>4. CASE UNCHANGED draftVars
  BY <1>3, <1>4 DEF draftVars
<1>5. CASE \E e \in Extractor : Check(e) \/ Refuse(e) \/ Start(e)
  BY <1>2, <1>3, <1>5 DEF Check, Refuse, Start, History
<1>6. ASSUME NEW i \in Importer,
             Begin(i) \/ ListExisting(i) \/ Skip(i) \/ Create(i) \/ CreateFails(i) \/ Record(i)
      PROVE  ClearInv'
  <2>1. UNCHANGED <<draft, diskDraft, worker>>
    BY <1>6 DEF Begin, ListExisting, Skip, Create, CreateFails, Record
  <2>2. seen'.cleared = seen.cleared /\ seen'.undone = seen.undone
    BY <1>2, <1>6 DEF Begin, ListExisting, Skip, Create, CreateFails, Record, History
  <2> QED
    BY <1>3, <2>1, <2>2
<1>7. CASE ClearAll \/ ClearTables
  <2>1. PICK remaining, names, gone : Clear(remaining, names, gone) /\ Leaves(remaining, names, gone)
    BY <1>1, <1>7, ClearLeaves
  <2>2. /\ draft' = remaining /\ diskDraft' = remaining /\ worker' = worker
        /\ seen'.cleared = seen.cleared \cup gone
        /\ seen'.undone = seen.undone \cup Remembered(gone)
    BY <1>2, <2>1 DEF Clear, History
  <2>3. EntSet(draft)' = EntSet(remaining) /\ EntSet(diskDraft)' = EntSet(remaining)
    BY <2>2 DEF EntSet
  <2>4. EntSet(remaining) \subseteq EntSet(draft) /\ gone \cap EntSet(remaining) = {}
    BY <2>1 DEF Leaves
  <2>5. EntSet(worker.base)' = EntSet(worker.base) /\ EntSet(worker.result)' = EntSet(worker.result)
    BY <2>2 DEF EntSet
  <2>6. worker.pc \in {"names", "saveNames", "assign", "saveDraft"} =>
           gone \cap EntSet(worker.base) \subseteq Remembered(gone)
    BY DEF Remembered
  <2>7. seen'.cleared \cap EntSet(remaining) \subseteq seen'.undone
    BY <2>2, <2>4 DEF ClearInv, ClearedStaysCleared
  <2>8. worker.pc \in {"names", "saveNames", "assign"} =>
           seen'.cleared \cap EntSet(worker.base) \subseteq seen'.undone \cup EntSet(worker.result)
    BY <2>2, <2>6 DEF ClearInv
  <2>9. worker.pc = "saveDraft" =>
           seen'.cleared \cap EntSet(worker.base) \subseteq seen'.undone
    BY <2>2, <2>6 DEF ClearInv
  <2> QED
    BY <2>2, <2>3, <2>5, <2>7, <2>8, <2>9 DEF ClearInv, ClearedStaysCleared
<1>8. CASE WorkerStep
  <2>1. CASE Take \/ Extract \/ ExtractFails
    <3>1. /\ worker'.pc \notin {"names", "saveNames", "assign", "saveDraft"}
          /\ UNCHANGED <<draft, diskDraft, seen>>
      BY <1>1, <2>1, WorkSets DEF Take, Extract, ExtractFails, WorkerType
    <3>2. EntSet(draft)' = EntSet(draft) /\ EntSet(diskDraft)' = EntSet(diskDraft)
      BY <3>1 DEF EntSet
    <3> QED
      BY <3>1, <3>2 DEF ClearInv, ClearedStaysCleared
  <2>2. CASE Merge
    <3>1. EntSet(worker'.base) \subseteq EntSet(draft) \cup EntSet(worker'.result)
      <4>1. CASE worker.job.full
        <5>1. worker'.base = worker'.result
          BY <1>1, <2>2, <4>1 DEF Merge, WorkerType
        <5> QED
          BY <5>1
      <4>2. CASE ~ worker.job.full
        <5> DEFINE w == WithoutTables(Existing, worker.job.tables)
                   x == Extend(w, worker.result)
        <5>1. w \in Draft /\ Pairs(w.ents) \subseteq EntSet(draft)
          BY <1>1, ShownIs, WithoutTablesIs
        <5> HIDE DEF w
        <5>2. x \in Draft /\ Pairs(x.ents) = Pairs(w.ents) \cup Pairs(worker.result.ents)
          BY <1>1, <5>1, ExtendIs
        <5>3. worker'.base = x /\ worker'.result = worker.result
          BY <1>1, <2>2, <4>2 DEF Merge, WorkerType, w
        <5> HIDE DEF x
        <5>4. EntSet(x) = Pairs(x.ents) /\ EntSet(worker.result) = Pairs(worker.result.ents)
          BY <1>1, <5>2, ShownIs
        <5> QED
          BY <5>1, <5>2, <5>3, <5>4
      <4> QED
        BY <4>1, <4>2
    <3>2. worker'.pc = "names" /\ UNCHANGED <<draft, diskDraft, seen>>
      BY <1>1, <2>2 DEF Merge, WorkerType
    <3>3. EntSet(draft)' = EntSet(draft) /\ EntSet(diskDraft)' = EntSet(diskDraft)
      BY <3>2 DEF EntSet
    <3>4. EntSet(worker.base)' = EntSet(worker'.base) /\ EntSet(worker.result)' = EntSet(worker'.result)
      BY DEF EntSet
    <3> QED
      BY <3>1, <3>2, <3>3, <3>4 DEF ClearInv, ClearedStaysCleared
  <2>3. CASE ForgetNames \/ SaveNames
    <3>1. /\ worker.pc \in {"names", "saveNames"} /\ worker'.pc \in {"saveNames", "assign"}
          /\ worker'.base = worker.base /\ worker'.result = worker.result
          /\ UNCHANGED <<draft, diskDraft>>
          /\ seen'.cleared = seen.cleared /\ seen'.undone = seen.undone
      BY <1>1, <1>2, <2>3 DEF ForgetNames, SaveNames, WorkerType, History
    <3>2. /\ EntSet(draft)' = EntSet(draft) /\ EntSet(diskDraft)' = EntSet(diskDraft)
          /\ EntSet(worker.base)' = EntSet(worker.base) /\ EntSet(worker.result)' = EntSet(worker.result)
      BY <3>1 DEF EntSet
    <3> QED
      BY <3>1, <3>2 DEF ClearInv, ClearedStaysCleared
  <2>4. CASE Assign
    <3>1. /\ worker.pc = "assign" /\ worker'.pc = "saveDraft"
          /\ worker'.base = worker.base /\ draft' = worker.base /\ diskDraft' = diskDraft
          /\ seen'.cleared = seen.cleared \ EntSet(worker.result) /\ seen'.undone = seen.undone
      BY <1>1, <1>2, <2>4 DEF Assign, WorkerType, History
    <3>2. /\ EntSet(draft)' = EntSet(worker.base) /\ EntSet(diskDraft)' = EntSet(diskDraft)
          /\ EntSet(worker.base)' = EntSet(worker.base)
      BY <3>1 DEF EntSet
    <3> QED
      BY <3>1, <3>2 DEF ClearInv, ClearedStaysCleared
  <2>5. CASE SaveDraft
    <3>1. /\ worker.pc = "saveDraft" /\ worker'.pc = "idle"
          /\ draft' = draft /\ diskDraft' = worker.base /\ UNCHANGED seen
      BY <2>5, WorkSets DEF SaveDraft
    <3>2. EntSet(draft)' = EntSet(draft) /\ EntSet(diskDraft)' = EntSet(worker.base)
      BY <3>1 DEF EntSet
    <3> QED
      BY <3>1, <3>2 DEF ClearInv, ClearedStaysCleared
  <2> QED
    BY <1>8, <2>1, <2>2, <2>3, <2>4, <2>5 DEF WorkerStep
<1>9. CASE Crash
  <2>1. /\ draft' \in {diskDraft, None} /\ diskDraft' = draft' /\ worker' = NoWork
        /\ seen'.cleared = seen.cleared /\ seen'.undone = seen.undone
    BY <1>2, <1>9 DEF Crash, History
  <2>2. EntSet(draft)' = EntSet(draft') /\ EntSet(diskDraft)' = EntSet(draft')
    BY <2>1 DEF EntSet
  <2>3. EntSet(draft') \subseteq EntSet(diskDraft)
    BY <2>1 DEF EntSet
  <2> QED
    BY <2>1, <2>2, <2>3, WorkSets DEF ClearInv, ClearedStaysCleared
<1> QED
  BY <1>4, <1>5, <1>6, <1>7, <1>8, <1>9 DEF DraftNext

\* A cleared metric comes back, after a restart too, only if it is extracted
\* again or its clear fell between the worker's read of the draft and its save
\* (metric_graph_routes.py:236-247, 334-385).
THEOREM ClearedAlwaysStaysCleared == DraftSpec => []ClearedStaysCleared
<1>1. DraftInit => ClearInv
  BY WorkSets DEF DraftInit, ClearInv, ClearedStaysCleared, NoHistory
<1>2. ClearInv => ClearedStaysCleared
  BY DEF ClearInv
<1> QED
  BY <1>1, <1>2, ClearStep, TypeAlways, PTL DEF DraftSpec

-----------------------------------------------------------------------------
(* Imports of one name.                                                    *)

LEMMA SelectionIs ==
    ASSUME TypeInv, draft # None, NEW selected \in SUBSET Visible
    PROVE  /\ draft \in Draft /\ Existing = draft /\ selected \subseteq Name
           /\ selected \cap imported = {} /\ selected \subseteq NamesOf(draft.ents)
           /\ Ordered(draft, selected) \in Seq(DraftEntity)
           /\ NamesOf(Ordered(draft, selected)) \subseteq selected \cap NamesOf(draft.ents)
<1>1. draft \in Draft /\ Existing = draft /\ draft.ents \in Seq(DraftEntity)
      /\ NamesOf(draft.ents) \subseteq Name
  <2>1. draft \in Draft
    BY DEF TypeInv, DraftsOK
  <2> QED
    BY <2>1, ShownIs DEF Existing, Shown
<1> DEFINE I == {k \in DOMAIN draft.ents : draft.ents[k].name \notin imported}
<1>2. /\ WithoutEntities(Existing, imported).ents = At(draft.ents, I)
      /\ I \subseteq DOMAIN draft.ents
      /\ \A k \in I : draft.ents[k].name \notin imported
  BY <1>1 DEF WithoutEntities
<1> HIDE DEF I
<1>3. /\ NamesOf(At(draft.ents, I)) \subseteq NamesOf(draft.ents)
      /\ NamesOf(At(draft.ents, I)) \cap imported = {}
  BY <1>1, <1>2, AtEntities DEF NamesOf
<1>4. Visible = NamesOf(At(draft.ents, I))
  BY <1>2 DEF Visible
<1>5. selected \subseteq Name /\ selected \cap imported = {} /\ selected \subseteq NamesOf(draft.ents)
  BY <1>1, <1>3, <1>4
<1> QED
  BY <1>1, <1>5, OrderedIs

\* What the steps of an import do to its names.
Begun(i) ==
    /\ i \notin Busy /\ imp'[i].pc # "new" /\ imported' = imported
    /\ imp'[i].draft = draft /\ DOMAIN imp'[i].ids = {}
    /\ \E selected \in SUBSET Visible :
        /\ imp'[i].todo = Ordered(draft, selected)
        /\ seen' = [seen EXCEPT !.loose = @ \cup (selected \cap
             ((IF Overtaking THEN seen.made ELSE {}) \cup UNION {NamesAt(x) : x \in Busy}))]

Continued(i) ==
    /\ i \in Busy /\ imp'[i].pc # "new" /\ imp'[i].draft = imp[i].draft
    /\ imp'[i].ids = imp[i].ids /\ NamesOf(imp'[i].todo) \subseteq NamesOf(imp[i].todo)
    /\ seen' = seen /\ imported' = imported

Created(i) ==
    /\ i \in Busy /\ imp'[i].pc # "new" /\ imp'[i].draft = imp[i].draft
    /\ imported' = imported
    /\ \E n \in NamesOf(imp[i].todo) :
        /\ DOMAIN imp'[i].ids = DOMAIN imp[i].ids \cup {n}
        /\ NamesOf(imp'[i].todo) \subseteq NamesOf(imp[i].todo)
        /\ seen'.made = IF imp[i].draft = draft THEN seen.made \cup {n} ELSE seen.made
        /\ seen'.twice = IF imp[i].draft = draft /\ n \in seen.made \ DOMAIN imp[i].ids
                         THEN seen.twice \cup {n} ELSE seen.twice
        /\ seen'.loose = seen.loose
        /\ seen'.fresh = seen.fresh /\ seen'.stale = seen.stale

Failed(i) ==
    /\ i \in Busy /\ imp'[i].pc = "new" /\ imported' = imported
    /\ seen' = [seen EXCEPT !.loose = @ \cup DOMAIN imp[i].ids]

Recorded(i) ==
    LET overtaken == imp[i].draft # draft \/ Overtaking
    IN  /\ i \in Busy /\ imp'[i].pc = "new"
        /\ imported' = imported \cup DOMAIN imp[i].ids
        /\ seen'.fresh = IF overtaken THEN seen.fresh ELSE seen.fresh \ DOMAIN imp[i].ids
        /\ seen'.stale = IF overtaken THEN seen.stale \cup DOMAIN imp[i].ids ELSE seen.stale
        /\ seen'.made = seen.made /\ seen'.loose = seen.loose /\ seen'.twice = seen.twice

LEMMA ImportMoves ==
    ASSUME TypeInv, NEW i \in Importer,
           Begin(i) \/ ListExisting(i) \/ Skip(i) \/ Create(i) \/ CreateFails(i) \/ Record(i)
    PROVE  /\ worker' = worker /\ draft' = draft /\ diskDraft' = diskDraft
           /\ \A j \in Importer \ {i} : imp'[j] = imp[j]
           /\ imp' \in [Importer -> Import]
           /\ Begin(i) => Begun(i)
           /\ ListExisting(i) \/ Skip(i) => Continued(i)
           /\ Create(i) => Created(i)
           /\ CreateFails(i) => Failed(i)
           /\ Record(i) => Recorded(i)
<1>1. imp \in [Importer -> Import] /\ seen \in History /\ imp[i] \in Import
  BY DEF TypeInv, ImportsOK
<1>2. imp' \in [Importer -> Import]
  BY TypeImport DEF TypeInv, ImportsOK
<1>3. worker' = worker /\ draft' = draft /\ diskDraft' = diskDraft
  BY DEF Begin, ListExisting, Skip, Create, CreateFails, Record
<1>4. \A j \in Importer \ {i} : imp'[j] = imp[j]
  BY <1>1 DEF Begin, ListExisting, Skip, Create, CreateFails, Record
<1>5. imp[i].todo # <<>> => /\ Head(imp[i].todo).name \in NamesOf(imp[i].todo)
                            /\ NamesOf(Tail(imp[i].todo)) \subseteq NamesOf(imp[i].todo)
  BY ImportIs
<1>6. ASSUME Begin(i) PROVE Begun(i)
  <2>1. i \notin Busy /\ imported' = imported
    BY <1>6 DEF Begin, Busy
  <2>2. PICK selected \in SUBSET Visible :
           /\ imp' = [imp EXCEPT ![i] = [NoImport EXCEPT
                        !.pc = "atomics", !.draft = draft, !.todo = Ordered(draft, selected)]]
           /\ seen' = [seen EXCEPT !.loose = @ \cup
                (selected \cap ((IF worker.pc \in {"saveNames", "assign"} THEN seen.made ELSE {})
                                \cup UNION {NamesOf(imp[x].todo) \cup DOMAIN imp[x].ids : x \in Busy}))]
    BY <1>6 DEF Begin
  <2>3. /\ imp'[i].pc # "new" /\ imp'[i].draft = draft /\ DOMAIN imp'[i].ids = {}
        /\ imp'[i].todo = Ordered(draft, selected)
    BY <1>1, <2>2 DEF NoImport
  <2>4. seen' = [seen EXCEPT !.loose = @ \cup (selected \cap
                   ((IF Overtaking THEN seen.made ELSE {}) \cup UNION {NamesAt(x) : x \in Busy}))]
    BY <2>2 DEF NamesAt, Overtaking
  <2> QED
    BY <2>1, <2>2, <2>3, <2>4 DEF Begun
<1>7. ASSUME ListExisting(i) PROVE Continued(i)
  BY <1>1, <1>7 DEF ListExisting, Import, Busy, Continued
<1>8. ASSUME Skip(i) PROVE Continued(i)
  <2>1. /\ i \in Busy /\ imp'[i].pc # "new" /\ imp'[i].draft = imp[i].draft
        /\ imp'[i].todo = Tail(imp[i].todo) /\ imp'[i].ids = imp[i].ids
        /\ seen' = seen /\ imported' = imported /\ imp[i].todo # <<>>
    BY <1>1, <1>8 DEF Skip, Import, Busy
  <2> QED
    BY <1>5, <2>1 DEF Continued
<1>9. ASSUME Create(i) PROVE Created(i)
  <2> DEFINE n == Head(imp[i].todo).name
  <2>1. /\ i \in Busy /\ imp'[i].pc # "new" /\ imp'[i].draft = imp[i].draft
        /\ imp'[i].todo = Tail(imp[i].todo) /\ DOMAIN imp'[i].ids = DOMAIN imp[i].ids \cup {n}
        /\ imported' = imported /\ imp[i].todo # <<>>
    BY <1>1, <1>9 DEF Create, Import, Busy
  <2>2. /\ seen'.made = IF imp[i].draft = draft THEN seen.made \cup {n} ELSE seen.made
        /\ seen'.twice = IF imp[i].draft = draft /\ n \in seen.made \ DOMAIN imp[i].ids
                         THEN seen.twice \cup {n} ELSE seen.twice
        /\ seen'.loose = seen.loose /\ seen'.fresh = seen.fresh /\ seen'.stale = seen.stale
    BY <1>1, <1>9 DEF Create, History
  <2>3. n \in NamesOf(imp[i].todo) /\ NamesOf(imp'[i].todo) \subseteq NamesOf(imp[i].todo)
    BY <1>5, <2>1
  <2> HIDE DEF n
  <2> QED
    BY <2>1, <2>2, <2>3 DEF Created
<1>10. ASSUME CreateFails(i) PROVE Failed(i)
  BY <1>1, <1>10, WorkSets DEF CreateFails, Busy, Failed
<1>11. ASSUME Record(i) PROVE Recorded(i)
  <2>1. i \in Busy /\ imp'[i].pc = "new" /\ imported' = imported \cup DOMAIN imp[i].ids
    BY <1>1, <1>11, WorkSets DEF Record, Busy
  <2> DEFINE overtaken == imp[i].draft # draft \/ Overtaking
  <2>2. /\ seen'.fresh = IF overtaken THEN seen.fresh ELSE seen.fresh \ DOMAIN imp[i].ids
        /\ seen'.stale = IF overtaken THEN seen.stale \cup DOMAIN imp[i].ids ELSE seen.stale
        /\ seen'.made = seen.made /\ seen'.loose = seen.loose /\ seen'.twice = seen.twice
    BY <1>1, <1>11 DEF Record, History, Overtaking
  <2> QED
    BY <2>1, <2>2 DEF Recorded
<1> QED
  BY <1>2, <1>3, <1>4, <1>6, <1>7, <1>8, <1>9, <1>10, <1>11

LEMMA ImportInvStep ==
    ASSUME TypeInv, ImportInv, [DraftNext]_draftVars
    PROVE  ImportInv'
<1>1. imp \in [Importer -> Import] /\ seen \in History /\ worker \in WorkerType
  BY DEF TypeInv, ImportsOK, ControlOK
<1>2. ASSUME UNCHANGED <<imp, imported>>, seen'.made = seen.made, seen'.loose = seen.loose,
             seen'.twice = seen.twice, Overtaking => Overtaking' /\ worker'.removed = worker.removed
      PROVE  ImportInv'
  BY <1>2 DEF ImportInv, Busy, NamesAt, NotImportedTwice
<1>3. CASE UNCHANGED draftVars
  BY <1>2, <1>3 DEF draftVars, Overtaking
<1>4. CASE \E e \in Extractor : Check(e) \/ Refuse(e) \/ Start(e)
  BY <1>1, <1>2, <1>4 DEF Check, Refuse, Start, History, Overtaking
<1>5. CASE WorkerStep
  <2>1. CASE Take \/ Extract \/ ExtractFails \/ Merge \/ SaveNames \/ SaveDraft
    <3>1. Overtaking => Overtaking' /\ worker'.removed = worker.removed
      BY <1>1, <2>1 DEF Take, Extract, ExtractFails, Merge, SaveNames, SaveDraft, WorkerType, Overtaking
    <3>2. UNCHANGED <<imp, imported, seen>>
      BY <2>1 DEF Take, Extract, ExtractFails, Merge, SaveNames, SaveDraft
    <3> QED
      BY <1>2, <3>1, <3>2
  <2>2. CASE ForgetNames
    <3>1. /\ imported' = imported \ worker.removed /\ imp' = imp
          /\ Overtaking' /\ worker'.removed = worker.removed
          /\ seen'.made = seen.made /\ seen'.loose = seen.loose /\ seen'.twice = seen.twice
      BY <1>1, <2>2 DEF ForgetNames, WorkerType, Overtaking, History
    <3>2. ~ Overtaking
      BY <2>2 DEF ForgetNames, Overtaking
    <3> QED
      BY <3>1, <3>2 DEF ImportInv, Busy, NamesAt, NotImportedTwice
  <2>3. CASE Assign
    <3>1. /\ imported' = imported /\ imp' = imp
          /\ seen'.made = seen.made \ worker.removed
          /\ seen'.loose = seen.loose /\ seen'.twice = seen.twice
      BY <1>1, <2>3 DEF Assign, History
    <3> QED
      BY <3>1 DEF ImportInv, Busy, NamesAt, NotImportedTwice
  <2> QED
    BY <1>5, <2>1, <2>2, <2>3 DEF WorkerStep
<1>6. CASE ClearAll \/ ClearTables
  <2>1. PICK remaining, names, gone : Clear(remaining, names, gone)
    BY <1>6, ClearLeaves DEF TypeInv, DraftsOK
  <2>2. /\ imported' = imported \ names /\ imp' = imp /\ worker' = worker
        /\ seen'.made = seen.made \ names
        /\ seen'.loose = seen.loose /\ seen'.twice = seen.twice
    BY <1>1, <2>1 DEF Clear, History
  <2>3. Overtaking' = Overtaking
    BY <2>2 DEF Overtaking
  <2> QED
    BY <2>2, <2>3 DEF ImportInv, Busy, NamesAt, NotImportedTwice
<1>7. ASSUME NEW i \in Importer,
             Begin(i) \/ ListExisting(i) \/ Skip(i) \/ Create(i) \/ CreateFails(i) \/ Record(i)
      PROVE  ImportInv'
  <2>1. /\ worker' = worker /\ \A j \in Importer \ {i} : imp'[j] = imp[j]
        /\ imp' \in [Importer -> Import]
    BY <1>7, ImportMoves
  <2>2. Overtaking' = Overtaking
    BY <2>1 DEF Overtaking
  <2>3. \A j \in Importer \ {i} : (j \in Busy' <=> j \in Busy) /\ NamesAt(j)' = NamesAt(j)
    BY <2>1 DEF Busy, NamesAt
  <2>4. CASE Begin(i)
    <3>1. PICK selected \in SUBSET Visible :
            /\ imp'[i].todo = Ordered(draft, selected)
            /\ seen' = [seen EXCEPT !.loose = @ \cup (selected \cap
                 ((IF Overtaking THEN seen.made ELSE {}) \cup UNION {NamesAt(x) : x \in Busy}))]
      BY <1>7, <2>4, ImportMoves DEF Begun
    <3>2. i \notin Busy /\ imported' = imported /\ DOMAIN imp'[i].ids = {}
      BY <1>7, <2>4, ImportMoves DEF Begun
    <3>3. selected \cap imported = {} /\ NamesOf(imp'[i].todo) \subseteq selected
      BY <2>4, <3>1, SelectionIs DEF Begin
    <3>4. /\ seen'.made = seen.made /\ seen'.twice = seen.twice
          /\ seen'.loose = seen.loose \cup (selected \cap
                 ((IF Overtaking THEN seen.made ELSE {}) \cup UNION {NamesAt(x) : x \in Busy}))
      BY <1>1, <3>1 DEF History
    <3>5. NamesAt(i)' \subseteq selected
      BY <3>2, <3>3 DEF NamesAt
    <3>6. \A j \in Busy : selected \cap NamesAt(j) \subseteq seen'.loose
      BY <3>4
    <3>7. \A n \in seen.made : n \in selected => n \in seen'.loose
      <4> SUFFICES ASSUME NEW n \in seen.made, n \in selected PROVE n \in seen'.loose
        OBVIOUS
      <4>1. CASE n \in seen.loose
        BY <3>4, <4>1
      <4>2. CASE \E x \in Busy : n \in DOMAIN imp[x].ids
        BY <3>6, <4>2 DEF NamesAt
      <4>3. CASE Overtaking
        BY <3>4, <4>3
      <4> QED
        BY <3>3, <4>1, <4>2, <4>3 DEF ImportInv
    <3>8. \A x \in Busy : x \in Busy' /\ imp'[x] = imp[x] /\ x # i
      BY <2>1, <2>3, <3>2 DEF Busy
    <3>9. \A n \in seen'.made : \/ n \in imported' \cup seen'.loose
                                \/ \E x \in Busy' : n \in DOMAIN imp'[x].ids
                                \/ Overtaking' /\ n \in worker'.removed
      BY <2>1, <2>2, <3>2, <3>4, <3>8 DEF ImportInv
    <3>10. \A x \in Busy' : x = i \/ (x \in Busy /\ x # i)
      BY <2>3 DEF Busy
    <3>11. \A x, y \in Busy' : x # y => NamesAt(x)' \cap NamesAt(y)' \subseteq seen'.loose
      BY <2>3, <3>4, <3>5, <3>6, <3>10 DEF ImportInv, Busy
    <3>12. \A x \in Busy' : (NamesOf(imp'[x].todo) \cap seen'.made) \ DOMAIN imp'[x].ids \subseteq seen'.loose
      BY <3>3, <3>4, <3>7, <3>8, <3>10 DEF ImportInv
    <3> QED
      BY <3>4, <3>9, <3>11, <3>12 DEF ImportInv, NotImportedTwice
  <2>5. CASE ListExisting(i) \/ Skip(i)
    <3>1. /\ i \in Busy /\ imp'[i].pc # "new" /\ imp'[i].ids = imp[i].ids
          /\ NamesOf(imp'[i].todo) \subseteq NamesOf(imp[i].todo)
          /\ seen' = seen /\ imported' = imported
      BY <1>7, <2>5, ImportMoves DEF Continued
    <3>2. /\ Busy' = Busy
          /\ \A x \in Importer : /\ imp'[x].ids = imp[x].ids
                                 /\ NamesOf(imp'[x].todo) \subseteq NamesOf(imp[x].todo)
      BY <2>1, <3>1 DEF Busy
    <3> QED
      BY <2>1, <2>2, <3>1, <3>2 DEF ImportInv, NamesAt, NotImportedTwice, Busy
  <2>6. CASE Create(i)
    <3>1. PICK n \in NamesOf(imp[i].todo) :
            /\ DOMAIN imp'[i].ids = DOMAIN imp[i].ids \cup {n}
            /\ NamesOf(imp'[i].todo) \subseteq NamesOf(imp[i].todo)
            /\ seen'.made = IF imp[i].draft = draft THEN seen.made \cup {n} ELSE seen.made
            /\ seen'.twice = IF imp[i].draft = draft /\ n \in seen.made \ DOMAIN imp[i].ids
                             THEN seen.twice \cup {n} ELSE seen.twice
            /\ seen'.loose = seen.loose
      BY <1>7, <2>6, ImportMoves DEF Created
    <3>2. i \in Busy /\ imp'[i].pc # "new" /\ imported' = imported
      BY <1>7, <2>6, ImportMoves DEF Created
    <3>3. Busy' = Busy
      BY <2>1, <3>2 DEF Busy
    <3>4. \A x \in Busy : x \in Importer /\ NamesAt(x)' \subseteq NamesAt(x)
      BY <2>3, <3>1 DEF NamesAt, Busy
    <3>5. n \in seen.made \ DOMAIN imp[i].ids => n \in seen.loose
      BY <3>1, <3>2 DEF ImportInv
    <3>6. \A x \in Busy : x # i => n \notin NamesOf(imp[x].todo) \/ n \in seen.loose
      BY <3>1, <3>2 DEF ImportInv, NamesAt
    <3>7. \A m \in seen'.made : \/ m \in imported' \cup seen'.loose
                                \/ \E x \in Busy' : m \in DOMAIN imp'[x].ids
                                \/ Overtaking' /\ m \in worker'.removed
      <4> SUFFICES ASSUME NEW m \in seen'.made
                   PROVE  \/ m \in imported' \cup seen'.loose
                          \/ \E x \in Busy' : m \in DOMAIN imp'[x].ids
                          \/ Overtaking' /\ m \in worker'.removed
        OBVIOUS
      <4>1. \A x \in Busy : DOMAIN imp[x].ids \subseteq DOMAIN imp'[x].ids
        BY <2>1, <3>1 DEF Busy
      <4>2. m = n \/ m \in seen.made
        BY <3>1
      <4>3. n \in DOMAIN imp'[i].ids
        BY <3>1
      <4> QED
        BY <2>1, <2>2, <3>1, <3>2, <3>3, <4>1, <4>2, <4>3 DEF ImportInv
    <3>8. \A x, y \in Busy' : x # y => NamesAt(x)' \cap NamesAt(y)' \subseteq seen'.loose
      BY <3>1, <3>3, <3>4 DEF ImportInv
    <3>9. \A x \in Busy' : (NamesOf(imp'[x].todo) \cap seen'.made) \ DOMAIN imp'[x].ids \subseteq seen'.loose
      <4> SUFFICES ASSUME NEW x \in Busy
                   PROVE  (NamesOf(imp'[x].todo) \cap seen'.made) \ DOMAIN imp'[x].ids \subseteq seen'.loose
        BY <3>3
      <4>1. (NamesOf(imp[x].todo) \cap seen.made) \ DOMAIN imp[x].ids \subseteq seen.loose
        BY DEF ImportInv
      <4>2. seen'.made \subseteq seen.made \cup {n}
        BY <3>1
      <4>3. CASE x = i
        BY <3>1, <4>1, <4>2, <4>3
      <4>4. CASE x # i
        <5>1. imp'[x] = imp[x]
          BY <2>1, <4>4 DEF Busy
        <5> QED
          BY <3>1, <3>6, <4>1, <4>2, <4>4, <5>1
      <4> QED
        BY <4>3, <4>4
    <3>10. seen'.twice \subseteq seen'.loose
      BY <3>1, <3>5 DEF ImportInv, NotImportedTwice
    <3> QED
      BY <3>7, <3>8, <3>9, <3>10 DEF ImportInv, NotImportedTwice
  <2>7. CASE CreateFails(i) \/ Record(i)
    <3>1. i \in Busy /\ imp'[i].pc = "new"
      BY <1>7, <2>7, ImportMoves DEF Failed, Recorded
    <3>2. /\ seen'.made = seen.made /\ seen'.twice = seen.twice /\ seen.loose \subseteq seen'.loose
          /\ imported \subseteq imported'
          /\ DOMAIN imp[i].ids \subseteq imported' \cup seen'.loose
      BY <1>1, <2>7 DEF CreateFails, Record, History
    <3>3. \A x \in Busy' : x \in Busy /\ x # i /\ imp'[x] = imp[x] /\ NamesAt(x)' = NamesAt(x)
      BY <2>1, <2>3, <3>1 DEF Busy
    <3>4. \A n \in seen'.made : \/ n \in imported' \cup seen'.loose
                                \/ \E x \in Busy' : n \in DOMAIN imp'[x].ids
                                \/ Overtaking' /\ n \in worker'.removed
      <4> SUFFICES ASSUME NEW n \in seen.made
                   PROVE  \/ n \in imported' \cup seen'.loose
                          \/ \E x \in Busy' : n \in DOMAIN imp'[x].ids
                          \/ Overtaking' /\ n \in worker'.removed
        BY <3>2
      <4>1. \A x \in Busy : x = i \/ (x \in Busy' /\ imp'[x] = imp[x])
        BY <2>1, <2>3 DEF Busy
      <4> QED
        BY <2>1, <2>2, <3>2, <4>1 DEF ImportInv
    <3>5. \A x, y \in Busy' : x # y => NamesAt(x)' \cap NamesAt(y)' \subseteq seen'.loose
      BY <3>2, <3>3 DEF ImportInv
    <3>6. \A x \in Busy' : (NamesOf(imp'[x].todo) \cap seen'.made) \ DOMAIN imp'[x].ids \subseteq seen'.loose
      BY <3>2, <3>3 DEF ImportInv
    <3> QED
      BY <3>2, <3>4, <3>5, <3>6 DEF ImportInv, NotImportedTwice
  <2> QED
    BY <1>7, <2>4, <2>5, <2>6, <2>7
<1>8. CASE Crash
  <2> DEFINE gone == UNION {DOMAIN imp[i].ids : i \in Busy}
  <2>1. /\ seen'.made = seen.made /\ seen'.twice = seen.twice
        /\ seen.loose \subseteq seen'.loose /\ seen.made \ imported' \subseteq seen'.loose
    BY <1>1, <1>8 DEF Crash, History
  <2>2. Busy' = {}
    BY <1>8, WorkSets DEF Crash, Busy
  <2> QED
    BY <2>1, <2>2 DEF ImportInv, NotImportedTwice
<1> QED
  BY <1>3, <1>4, <1>5, <1>6, <1>7, <1>8 DEF DraftNext

\* A name is imported from one draft twice only if an import of it failed, if two
\* overlapped, if the extraction was writing, or if a crash forgot it, however
\* many imports, extractions and clears there are (metric_graph_routes.py:232,
\* 421; draft.py:303-387).
THEOREM NeverImportedTwice == DraftSpec => []NotImportedTwice
<1>1. DraftInit => ImportInv
  BY WorkSets DEF DraftInit, ImportInv, NotImportedTwice, NoHistory, Busy
<1>2. ImportInv => NotImportedTwice
  BY DEF ImportInv
<1> QED
  BY <1>1, <1>2, ImportInvStep, TypeAlways, PTL DEF DraftSpec

-----------------------------------------------------------------------------
(* Names that are hidden.                                                  *)

LEMMA NamesStep ==
    ASSUME TypeInv, NamesInv, [DraftNext]_draftVars
    PROVE  NamesInv'
<1>1. /\ worker \in WorkerType /\ worker.result \in Draft /\ worker.base \in Draft
      /\ worker.removed \in SUBSET Name
      /\ Existing = Shown(draft) /\ Existing \in Draft
      /\ draft \in Draft \cup {None} /\ diskDraft \in Draft \cup {None}
      /\ worker.pc # "idle" => worker.job \in Job /\ worker.job.tables \in SUBSET Table
  BY WorkIs
<1>2. /\ seen \in History /\ imp \in [Importer -> Import]
      /\ imported \in SUBSET Name /\ diskImported \in SUBSET Name
      /\ NamesOf(Existing.ents) \subseteq Name
  BY <1>1, ShownIs DEF TypeInv, ImportsOK, DraftsOK
<1>3. ASSUME UNCHANGED <<draft, imported, diskDraft, diskImported, imp>>,
             seen'.fresh = seen.fresh, seen'.stale = seen.stale,
             worker' = worker \/ worker'.pc \notin {"names", "saveNames", "assign", "saveDraft"},
             worker' = worker \/ worker.pc \notin {"saveNames", "saveDraft"}
      PROVE  NamesInv'
  BY <1>3 DEF NamesInv, Existing, Overtaking, Kept, NamesAt, Busy, FreshIsVisible
<1>4. CASE UNCHANGED draftVars
  BY <1>3, <1>4 DEF draftVars
<1>5. CASE \E e \in Extractor : Check(e) \/ Refuse(e) \/ Start(e)
  BY <1>2, <1>3, <1>5 DEF Check, Refuse, Start, History
<1>6. CASE WorkerStep
  <2>1. CASE Take \/ Extract \/ ExtractFails
    <3>1. /\ worker'.pc \notin {"names", "saveNames", "assign", "saveDraft"}
          /\ worker.pc \notin {"saveNames", "saveDraft"}
      BY <1>1, <2>1, WorkSets DEF Take, Extract, ExtractFails, WorkerType
    <3> QED
      BY <1>3, <2>1, <3>1 DEF Take, Extract, ExtractFails
  <2>2. CASE Merge
    <3>1. /\ worker.pc = "merge" /\ worker'.pc = "names" /\ worker'.job = worker.job
          /\ worker'.base = IF worker.job.full THEN worker.result
                            ELSE Extend(WithoutTables(Existing, worker.job.tables), worker.result)
          /\ worker'.removed = IF worker.job.full THEN Name
                               ELSE RemovedNames(Existing, worker.job.tables)
          /\ UNCHANGED <<draft, imported, diskDraft, diskImported, imp, seen>>
      BY <1>1, <2>2 DEF Merge, WorkerType
    <3>2. NamesOf(Existing.ents) \subseteq worker'.removed \cup Kept'
      <4>1. CASE worker.job.full
        BY <1>2, <3>1, <4>1
      <4>2. CASE ~ worker.job.full
        <5> DEFINE w == WithoutTables(Existing, worker.job.tables)
                   x == Extend(w, worker.result)
                   T == worker.job.tables
        <5>1. /\ w \in Draft /\ \A k \in DOMAIN w.ents : w.ents[k].table \notin T
              /\ NamesOf(w.ents) = {Existing.ents[i].name : i \in OfOtherTables(Existing.ents, T)}
          BY <1>1, WithoutTablesIs
        <5>2. NamesOf(Existing.ents) \subseteq worker'.removed \cup NamesOf(w.ents)
          BY <3>1, <4>2, <5>1 DEF RemovedNames, NamesOf, OfTables, OfOtherTables
        <5> HIDE DEF w, T
        <5>3. x \in Draft /\ Pairs(x.ents) = Pairs(w.ents) \cup Pairs(worker.result.ents)
          BY <1>1, <5>1, ExtendIs
        <5>4. worker'.base = x /\ worker'.job.tables = T
          BY <3>1, <4>2 DEF w, T
        <5> HIDE DEF x
        <5>5. Kept' = {x.ents[i].name : i \in OfOtherTables(x.ents, T)}
          <6>1. NamesOf(WithoutTables(x, T).ents) = {x.ents[i].name : i \in OfOtherTables(x.ents, T)}
            BY <5>3, WithoutTablesIs
          <6>2. Kept' = NamesOf(WithoutTables(x, T).ents)
            BY <5>4 DEF Kept
          <6> QED
            BY <6>1, <6>2
        <5>6. NamesOf(w.ents) \subseteq Kept'
          <6> SUFFICES ASSUME NEW k \in DOMAIN w.ents PROVE w.ents[k].name \in Kept'
            BY DEF NamesOf
          <6>1. <<w.ents[k].name, w.ents[k].table>> \in Pairs(x.ents)
            BY <5>3 DEF Pairs
          <6>2. PICK i \in DOMAIN x.ents : /\ x.ents[i].name = w.ents[k].name
                                           /\ x.ents[i].table = w.ents[k].table
            BY <6>1 DEF Pairs
          <6>3. i \in OfOtherTables(x.ents, T)
            BY <5>1, <6>2 DEF OfOtherTables
          <6> QED
            BY <5>5, <6>2, <6>3
        <5> QED
          BY <5>2, <5>6
      <4> QED
        BY <4>1, <4>2
    <3> QED
      BY <3>1, <3>2 DEF NamesInv, Existing, Overtaking, NamesAt, Busy, FreshIsVisible
  <2>3. CASE ForgetNames
    <3>1. /\ worker.pc = "names" /\ imported' = imported \ worker.removed
          /\ worker'.base = worker.base /\ worker'.job = worker.job
          /\ worker'.pc = IF worker.job.full \/ (worker.removed # {} /\ imported # {})
                          THEN "saveNames" ELSE "assign"
          /\ seen'.fresh = seen.fresh /\ seen'.stale = seen.stale \ worker.removed
          /\ UNCHANGED <<draft, diskDraft, diskImported, imp>>
      BY <1>1, <1>2, <2>3 DEF ForgetNames, WorkerType, History
    <3>2. Kept' = Kept /\ Existing' = Existing
      BY <3>1 DEF Kept, Existing
    <3>3. imported' \ seen'.stale \subseteq NamesOf(Existing'.ents) /\ imported' \ seen'.stale \subseteq Kept'
      BY <3>1, <3>2 DEF NamesInv
    <3>4. worker'.pc # "saveNames" => diskImported' = imported'
      BY <3>1 DEF NamesInv
    <3>5. seen'.fresh \cap imported' \subseteq seen'.stale
      BY <3>1 DEF NamesInv, FreshIsVisible
    <3> QED
      BY <3>1, <3>3, <3>4, <3>5 DEF NamesInv, FreshIsVisible, NamesAt, Busy, Overtaking
  <2>4. CASE SaveNames
    <3>1. /\ worker.pc = "saveNames" /\ worker'.pc = "assign" /\ diskImported' = imported
          /\ worker'.base = worker.base /\ worker'.job = worker.job
          /\ UNCHANGED <<draft, diskDraft, imported, imp, seen>>
      BY <1>1, <2>4 DEF SaveNames, WorkerType
    <3>2. Kept' = Kept /\ Existing' = Existing
      BY <3>1 DEF Kept, Existing
    <3> QED
      BY <3>1, <3>2 DEF NamesInv, FreshIsVisible, NamesAt, Busy, Overtaking
  <2>5. CASE Assign
    <3> DEFINE new == NamesOf(worker.result.ents) \ Kept
    <3>1. /\ worker.pc = "assign" /\ worker'.pc = "saveDraft" /\ draft' = worker.base
          /\ worker'.base = worker.base
          /\ UNCHANGED <<imported, diskDraft, diskImported, imp>>
          /\ seen'.fresh = (seen.fresh \ worker.removed) \cup new /\ seen'.stale = seen.stale
      BY <1>1, <1>2, <2>5 DEF Assign, WorkerType, History, Kept
    <3>2. Existing' = worker.base
      BY <1>1, <3>1, DraftAssumption DEF Existing
    <3>3. Kept \subseteq NamesOf(worker.base.ents)
      <4>1. \A d \in Draft : \A T : NamesOf(WithoutTables(d, T).ents) \subseteq NamesOf(d.ents)
        <5> SUFFICES ASSUME NEW d \in Draft, NEW T
                     PROVE  NamesOf(WithoutTables(d, T).ents) \subseteq NamesOf(d.ents)
          OBVIOUS
        <5>1. NamesOf(WithoutTables(d, T).ents) = {d.ents[i].name : i \in OfOtherTables(d.ents, T)}
          BY WithoutTablesIs
        <5> QED
          BY <5>1 DEF NamesOf, OfOtherTables
      <4> QED
        BY <1>1, <4>1 DEF Kept
    <3>4. imported \ seen.stale \subseteq Kept /\ diskImported = imported
      BY <3>1 DEF NamesInv, Overtaking
    <3>5. seen'.fresh \cap imported' \subseteq seen'.stale
      BY <3>1, <3>4 DEF NamesInv, FreshIsVisible
    <3> QED
      BY <3>1, <3>2, <3>3, <3>4, <3>5 DEF NamesInv, FreshIsVisible, NamesAt, Busy, Overtaking
  <2>6. CASE SaveDraft
    <3>1. /\ worker.pc = "saveDraft" /\ worker'.pc = "idle" /\ diskDraft' = worker.base
          /\ UNCHANGED <<draft, imported, diskImported, imp, seen>>
      BY <2>6, WorkSets DEF SaveDraft
    <3>2. Existing' = Existing /\ (draft # None => Existing = draft)
      BY <3>1 DEF Existing
    <3>3. draft # None => diskDraft' # None /\ NamesOf(draft.ents) \subseteq NamesOf(diskDraft'.ents)
      BY <1>1, <3>1, <3>2, DraftAssumption DEF NamesInv
    <3> QED
      BY <3>1, <3>2, <3>3 DEF NamesInv, FreshIsVisible, NamesAt, Busy, Overtaking
  <2> QED
    BY <1>6, <2>1, <2>2, <2>3, <2>4, <2>5, <2>6 DEF WorkerStep
<1>7. CASE ClearAll \/ ClearTables
  <2>1. PICK remaining, names, gone : Clear(remaining, names, gone) /\ Leaves(remaining, names, gone)
    BY <1>1, <1>7, ClearLeaves
  <2>2. /\ draft' = remaining /\ diskDraft' = remaining /\ worker' = worker /\ imp' = imp
        /\ imported' = imported \ names
        /\ diskImported' = IF names # {} /\ imported # {} THEN imported' ELSE diskImported
        /\ seen'.fresh = seen.fresh \ names /\ seen'.stale = seen.stale \ names
    BY <1>2, <2>1 DEF Clear, History
  <2>3. /\ Existing = draft /\ Existing' = Shown(remaining)
        /\ NamesOf(Existing'.ents) \subseteq NamesOf(Existing.ents)
        /\ NamesOf(Existing.ents) \ names \subseteq NamesOf(Existing'.ents)
        /\ remaining # None => Existing' = remaining
    BY <1>1, <2>1, <2>2, ShownIs DEF Leaves, Existing, Shown
  <2>4. Kept' = Kept /\ Overtaking' = Overtaking
    BY <2>2 DEF Kept, Overtaking
  <2>5. imported' \ seen'.stale \subseteq (imported \ seen.stale) \ names
    BY <2>2
  <2>6. imported' \ seen'.stale \subseteq NamesOf(Existing'.ents)
    BY <2>3, <2>5 DEF NamesInv
  <2>7. worker'.pc = "names" => NamesOf(Existing'.ents) \subseteq worker'.removed \cup Kept'
    BY <2>2, <2>3, <2>4 DEF NamesInv
  <2>8. Overtaking' => imported' \ seen'.stale \subseteq Kept'
    BY <2>4, <2>5 DEF NamesInv
  <2>9. worker'.pc # "saveNames" => diskImported' = imported'
    BY <2>2 DEF NamesInv
  <2>10. IF worker'.pc = "saveDraft" THEN NamesOf(Existing'.ents) \subseteq NamesOf(worker'.base.ents)
         ELSE draft' # None => diskDraft' # None /\ NamesOf(draft'.ents) \subseteq NamesOf(diskDraft'.ents)
    BY <2>2, <2>3 DEF NamesInv
  <2>11. seen'.fresh \cap imported' \subseteq seen'.stale
    BY <2>2 DEF NamesInv, FreshIsVisible
  <2>12. \A i \in Busy' : NamesAt(i)' \subseteq NamesOf(imp'[i].draft.ents)
    BY <2>2 DEF NamesInv, NamesAt, Busy
  <2> QED
    BY <2>6, <2>7, <2>8, <2>9, <2>10, <2>11, <2>12 DEF NamesInv, FreshIsVisible
<1>8. ASSUME NEW i \in Importer,
             Begin(i) \/ ListExisting(i) \/ Skip(i) \/ Create(i) \/ CreateFails(i) \/ Record(i)
      PROVE  NamesInv'
  <2>1. /\ worker' = worker /\ draft' = draft /\ diskDraft' = diskDraft
        /\ \A j \in Importer \ {i} : imp'[j] = imp[j]
        /\ imp' \in [Importer -> Import]
    BY <1>8, ImportMoves
  <2>2. Existing' = Existing /\ Kept' = Kept /\ Overtaking' = Overtaking
    BY <2>1 DEF Existing, Kept, Overtaking
  <2>3. imp'[i].pc # "new" => NamesAt(i)' \subseteq NamesOf(imp'[i].draft.ents)
    <3>1. CASE Begin(i)
      <4>1. Begun(i) /\ draft # None
        BY <1>8, <3>1, ImportMoves DEF Begin
      <4> QED
        BY <4>1, SelectionIs DEF Begun, NamesAt
    <3>2. CASE ListExisting(i) \/ Skip(i)
      BY <1>8, <3>2, ImportMoves DEF Continued, NamesInv, NamesAt
    <3>3. CASE Create(i)
      BY <1>8, <3>3, ImportMoves DEF Created, NamesInv, NamesAt
    <3>4. CASE CreateFails(i) \/ Record(i)
      BY <1>8, <3>4, ImportMoves DEF Failed, Recorded
    <3> QED
      BY <1>8, <3>1, <3>2, <3>3, <3>4
  <2>4. \A j \in Busy' : NamesAt(j)' \subseteq NamesOf(imp'[j].draft.ents)
    <3> SUFFICES ASSUME NEW j \in Busy' PROVE NamesAt(j)' \subseteq NamesOf(imp'[j].draft.ents)
      OBVIOUS
    <3>1. CASE j = i
      BY <2>3, <3>1 DEF Busy
    <3>2. CASE j # i
      <4>1. j \in Busy /\ imp'[j] = imp[j]
        BY <2>1, <3>2 DEF Busy
      <4> QED
        BY <4>1 DEF NamesInv, NamesAt
    <3> QED
      BY <3>1, <3>2
  <2>5. CASE ~ Record(i)
    <3>1. /\ imported' = imported /\ diskImported' = diskImported
          /\ seen'.fresh = seen.fresh /\ seen'.stale = seen.stale
      BY <1>2, <1>8, <2>5 DEF Begin, ListExisting, Skip, Create, CreateFails, History
    <3> QED
      BY <2>1, <2>2, <2>4, <3>1 DEF NamesInv, FreshIsVisible
  <2>6. CASE Record(i)
    <3> DEFINE names == DOMAIN imp[i].ids
               overtaken == imp[i].draft # draft \/ Overtaking
    <3>1. /\ i \in Busy /\ imported' = imported \cup names
          /\ seen'.fresh = IF overtaken THEN seen.fresh ELSE seen.fresh \ names
          /\ seen'.stale = IF overtaken THEN seen.stale \cup names ELSE seen.stale
      BY <1>8, <2>6, ImportMoves DEF Recorded
    <3>2. diskImported' = IF names # {} THEN imported' ELSE diskImported
      BY <2>6 DEF Record
    <3>3. names \subseteq NamesOf(imp[i].draft.ents)
      BY <3>1 DEF NamesInv, NamesAt
    <3>4. ~ overtaken => Existing = draft /\ names \subseteq NamesOf(Existing.ents)
      <4>1. imp[i].draft \in Draft
        BY ImportIs
      <4> QED
        BY <3>3, <4>1, DraftAssumption DEF Existing
    <3> HIDE DEF names
    <3>5. imported' \ seen'.stale \subseteq NamesOf(Existing.ents)
      BY <3>1, <3>4 DEF NamesInv
    <3>6. Overtaking => imported' \ seen'.stale \subseteq Kept
      BY <3>1 DEF NamesInv
    <3>7. worker.pc # "saveNames" => diskImported' = imported'
      BY <3>1, <3>2 DEF NamesInv
    <3>8. seen'.fresh \cap imported' \subseteq seen'.stale
      BY <3>1 DEF NamesInv, FreshIsVisible
    <3> QED
      BY <2>1, <2>2, <2>4, <3>5, <3>6, <3>7, <3>8 DEF NamesInv, FreshIsVisible
  <2> QED
    BY <2>5, <2>6
<1>9. CASE Crash
  <2>1. PICK loaded \in {diskDraft, None}, names \in {diskImported, {}} :
          /\ loaded = None => diskDraft = None \/ worker.pc = "saveDraft" \/ draft # None
          /\ names # diskImported => worker.pc = "saveNames"
          /\ draft' = loaded /\ diskDraft' = loaded
          /\ imported' = names /\ diskImported' = names
          /\ seen'.fresh = {}
          /\ seen'.stale = IF loaded = None \/ worker.pc # "idle" THEN seen.stale \cup names
                           ELSE seen.stale
    BY <1>2, <1>9 DEF Crash, History
  <2>2. worker'.pc = "idle" /\ Busy' = {}
    BY <1>9, WorkSets DEF Crash, Busy
  <2>3. imported' \ seen'.stale \subseteq NamesOf(Existing'.ents)
    <3>1. CASE loaded = None \/ worker.pc # "idle"
      BY <2>1, <3>1
    <3>2. CASE loaded # None /\ worker.pc = "idle"
      <4>1. names \subseteq imported /\ seen'.stale = seen.stale /\ loaded = diskDraft
        BY <2>1, <3>2 DEF NamesInv
      <4>2. NamesOf(Existing.ents) \subseteq NamesOf(diskDraft.ents)
        <5>1. CASE draft = None
          BY <5>1, EmptyIsDraft DEF Existing
        <5>2. CASE draft # None
          BY <3>2, <5>2 DEF NamesInv, Existing
        <5> QED
          BY <5>1, <5>2
      <4>3. Existing' = diskDraft
        BY <2>1, <3>2, <4>1 DEF Existing
      <4> QED
        BY <2>1, <4>1, <4>2, <4>3 DEF NamesInv
    <3> QED
      BY <3>1, <3>2
  <2> QED
    BY <2>1, <2>2, <2>3 DEF NamesInv, FreshIsVisible, Overtaking
<1> QED
  BY <1>4, <1>5, <1>6, <1>7, <1>8, <1>9 DEF DraftNext

\* A name that an extraction has just delivered is hidden on the page only if it
\* was imported since, or by an import the extraction overtook; in memory and
\* from the files, whichever step a crash falls on (metric_graph_routes.py:229-246,
\* 421).
THEOREM FreshIsAlwaysVisible == DraftSpec => []FreshIsVisible
<1>1. DraftInit => NamesInv
  <2> SUFFICES ASSUME DraftInit PROVE NamesInv
    OBVIOUS
  <2>1. Busy = {} /\ worker.pc = "idle" /\ imported = {} /\ seen.fresh = {}
    BY WorkSets DEF DraftInit, Busy, NoHistory
  <2> QED
    BY <2>1 DEF DraftInit, NamesInv, FreshIsVisible, Overtaking
<1>2. NamesInv => FreshIsVisible
  BY DEF NamesInv
<1> QED
  BY <1>1, <1>2, NamesStep, TypeAlways, PTL DEF DraftSpec
=============================================================================
