------------------------------ MODULE WalkProofs ------------------------------
(***************************************************************************)
(* Proofs about a client that pages through a listing while the table moves *)
(* under it: what it may miss and what it may be shown twice, for any table,*)
(* any page size, any order and any number of handlers.                     *)
(***************************************************************************)
EXTENDS UploadsProofs, FiniteSetTheorems

(* Ranks: the place of a row among the rows of one listing. *)

\* A set of rows that a query can order: finitely many, no rowid twice.
Listing(M) ==
  /\ IsFiniteSet(M)
  /\ \A r \in M : r.id \in Int /\ r.at \in Int /\ IndexPlace[r.owner] \in Int
  /\ \A r, s \in M : r.id = s.id => r = s

Before(M, p, r) == {s \in M : Precedes(p, s, r)}
Rank(M, p, r) == Cardinality(Before(M, p, r))
First(M, p, n) == {r \in M : Rank(M, p, r) < n}

\* The rows with a key in K from place o on, and those before it.
Ahead(M, p, K, o)  == {r \in M : r.key \in K /\ Rank(M, p, r) >= o}
Behind(M, p, K, o) == {r \in M : r.key \in K /\ Rank(M, p, r) < o}

\* The rows of one page.
Shown(M, p, o, l) == {r \in M : Rank(M, p, r) \in o .. o + l - 1}

\* ORDER BY with its plan's order of ties is a strict total order of the rows.
LEMMA TotalOrder ==
  ASSUME NEW M, Listing(M), NEW p, NEW r \in M, NEW s \in M
  PROVE  /\ ~Precedes(p, r, r)
         /\ r # s => Precedes(p, r, s) \/ Precedes(p, s, r)
         /\ \A t \in M : Precedes(p, r, s) /\ Precedes(p, s, t) => Precedes(p, r, t)
<1>1. /\ r.id \in Int /\ r.at \in Int /\ s.id \in Int /\ s.at \in Int
      /\ IndexPlace[r.owner] \in Int /\ IndexPlace[s.owner] \in Int
      /\ r.id = s.id => r = s
  BY DEF Listing
<1>2. ~Precedes(p, r, r) /\ (r # s => Precedes(p, r, s) \/ Precedes(p, s, r))
  BY <1>1 DEF Precedes, TieBefore
<1>3. ASSUME NEW t \in M, Precedes(p, r, s), Precedes(p, s, t)
      PROVE  Precedes(p, r, t)
  <2>1. t.id \in Int /\ t.at \in Int /\ IndexPlace[t.owner] \in Int
    BY DEF Listing
  <2>2. QED
    BY <1>1, <1>3, <2>1 DEF Precedes, TieBefore
<1>4. QED
  BY <1>2, <1>3

LEMMA RankType ==
  ASSUME NEW M, Listing(M), NEW p, NEW r
  PROVE  IsFiniteSet(Before(M, p, r)) /\ Rank(M, p, r) \in Nat
<1>1. IsFiniteSet(M) /\ Before(M, p, r) \in SUBSET M
  BY DEF Listing, Before
<1>2. IsFiniteSet(Before(M, p, r))
  BY <1>1, FS_Subset
<1>3. QED
  BY <1>2, FS_CardinalityType DEF Rank

\* The rank of a listed row is below the number of rows.
LEMMA RankBelow ==
  ASSUME NEW M, Listing(M), NEW p, NEW r \in M
  PROVE  Rank(M, p, r) < Cardinality(M)
<1>1. IsFiniteSet(M) /\ Before(M, p, r) \in SUBSET M /\ r \notin Before(M, p, r)
  BY TotalOrder DEF Listing, Before
<1>2. /\ Rank(M, p, r) <= Cardinality(M)
      /\ Rank(M, p, r) # Cardinality(M)
  BY <1>1, FS_Subset DEF Rank
<1>3. Rank(M, p, r) \in Nat /\ Cardinality(M) \in Nat
  BY <1>1, RankType, FS_CardinalityType
<1>4. QED
  BY <1>2, <1>3

\* A row that precedes another has the smaller rank.
LEMMA RankGrows ==
  ASSUME NEW M, Listing(M), NEW p, NEW r \in M, NEW s \in M, Precedes(p, r, s)
  PROVE  Rank(M, p, r) < Rank(M, p, s)
<1>1. Before(M, p, r) \in SUBSET Before(M, p, s)
  BY TotalOrder DEF Before
<1>2. r \in Before(M, p, s) /\ r \notin Before(M, p, r)
  BY TotalOrder DEF Before
<1>3. IsFiniteSet(Before(M, p, s)) /\ Rank(M, p, s) \in Nat /\ Rank(M, p, r) \in Nat
  BY RankType
<1>4. Rank(M, p, r) <= Rank(M, p, s) /\ Rank(M, p, r) # Rank(M, p, s)
  BY <1>1, <1>2, <1>3, FS_Subset DEF Rank
<1>5. QED
  BY <1>3, <1>4

LEMMA RankInjective ==
  ASSUME NEW M, Listing(M), NEW p, NEW r \in M, NEW s \in M, Rank(M, p, r) = Rank(M, p, s)
  PROVE  r = s
<1>1. ~(Rank(M, p, r) < Rank(M, p, s)) /\ ~(Rank(M, p, s) < Rank(M, p, r))
  BY RankType
<1>2. ~Precedes(p, r, s) /\ ~Precedes(p, s, r)
  BY <1>1, RankGrows
<1>3. QED
  BY <1>2, TotalOrder

\* Every place is taken: LIMIT and OFFSET cut the listing without a gap.
LEMMA RankOnto ==
  ASSUME NEW M, Listing(M), NEW p, NEW n \in Nat, n < Cardinality(M)
  PROVE  \E r \in M : Rank(M, p, r) = n
<1> DEFINE N == Cardinality(M)
           f == [r \in M |-> Rank(M, p, r)]
<1>1. IsFiniteSet(M) /\ N \in Nat
  BY FS_CardinalityType DEF Listing
<1>2. \A r \in M : Rank(M, p, r) \in 0 .. N - 1
  BY <1>1, RankType, RankBelow
<1>3. f \in Injection(M, 0 .. N - 1)
  <2>1. f \in [M -> 0 .. N - 1]
    BY <1>2
  <2>2. \A r, s \in M : f[r] = f[s] => r = s
    BY RankInjective
  <2> HIDE DEF f
  <2>3. QED
    BY <2>1, <2>2 DEF Injection, IsInjective
<1>4. IsFiniteSet(0 .. N - 1) /\ Cardinality(0 .. N - 1) = N
  <2> HIDE DEF N
  <2>1. QED
    BY <1>1, FS_Interval
<1>5. f \in Surjection(M, 0 .. N - 1)
  <2> HIDE DEF f
  <2>1. QED
    BY <1>3, <1>4, FS_Injection
<1>6. n \in 0 .. N - 1
  BY <1>1
<1>7. \E r \in M : f[r] = n
  <2> HIDE DEF f
  <2>1. QED
    BY <1>5, <1>6 DEF Surjection
<1>8. PICK r \in M : f[r] = n
  BY <1>7
<1>9. Rank(M, p, r) = n
  BY <1>8
<1>10. QED
  BY <1>9

\* The first n rows of a listing are n rows, or all of them.
LEMMA FirstRows ==
  ASSUME NEW M, Listing(M), NEW p, NEW n \in Nat
  PROVE  /\ IsFiniteSet(First(M, p, n))
         /\ Cardinality(First(M, p, n)) \in Nat /\ Cardinality(First(M, p, n)) <= n
         /\ n <= Cardinality(M) => Cardinality(First(M, p, n)) = n
         /\ Cardinality(M) <= n => First(M, p, n) = M
<1> DEFINE F == First(M, p, n)
           g == [r \in F |-> Rank(M, p, r)]
<1> USE DEF First
<1>1. IsFiniteSet(M) /\ Cardinality(M) \in Nat /\ F \in SUBSET M
  BY FS_CardinalityType DEF Listing
<1>2. IsFiniteSet(F)
  BY <1>1, FS_Subset
<1>3. Cardinality(F) \in Nat
  BY <1>2, FS_CardinalityType
<1>4. \A r \in F : Rank(M, p, r) \in 0 .. n - 1
  BY RankType
<1>5. g \in Injection(F, 0 .. n - 1)
  <2>1. g \in [F -> 0 .. n - 1]
    BY <1>4
  <2>2. \A r, s \in F : g[r] = g[s] => r = s
    BY RankInjective
  <2> HIDE DEF g
  <2>3. QED
    BY <2>1, <2>2 DEF Injection, IsInjective
<1>6. IsFiniteSet(0 .. n - 1) /\ Cardinality(0 .. n - 1) = n
  BY FS_Interval
<1>7. /\ Cardinality(F) <= n
      /\ g \in Surjection(F, 0 .. n - 1) => Cardinality(F) = n
  <2> HIDE DEF g
  <2>1. QED
    BY <1>5, <1>6, FS_Injection
<1>8. ASSUME n <= Cardinality(M) PROVE Cardinality(F) = n
  <2>1. ASSUME NEW i \in 0 .. n - 1 PROVE \E r \in F : g[r] = i
    <3>1. i \in Nat /\ i < Cardinality(M) /\ i < n
      BY <1>1, <1>8
    <3>2. PICK r \in M : Rank(M, p, r) = i
      BY <3>1, RankOnto
    <3>3. r \in F /\ g[r] = i
      BY <3>1, <3>2
    <3>4. QED
      BY <3>3
  <2>2. g \in [F -> 0 .. n - 1]
    BY <1>4
  <2>3. g \in Surjection(F, 0 .. n - 1)
    <3> HIDE DEF g
    <3>1. QED
      BY <2>1, <2>2 DEF Surjection
  <2>4. QED
    BY <1>7, <2>3
<1>9. ASSUME Cardinality(M) <= n PROVE F = M
  <2>1. \A r \in M : Rank(M, p, r) < n
    BY <1>1, <1>9, RankBelow, RankType
  <2>2. QED
    BY <2>1
<1>10. QED
  BY <1>2, <1>3, <1>7, <1>8, <1>9

\* Rows with a key each: as many keys as rows.
LEMMA KeysCardinality ==
  ASSUME NEW M, IsFiniteSet(M), \A r, s \in M : r.key = s.key => r = s
  PROVE  IsFiniteSet(KeysOf(M)) /\ Cardinality(KeysOf(M)) = Cardinality(M)
<1> DEFINE f == [r \in M |-> r.key]
<1>1. f \in Surjection(M, KeysOf(M))
  <2>1. f \in [M -> KeysOf(M)] /\ \A k \in KeysOf(M) : \E r \in M : f[r] = k
    BY DEF KeysOf
  <2> HIDE DEF f
  <2>2. QED
    BY <2>1 DEF Surjection
<1>2. f \in Injection(M, KeysOf(M))
  <2>1. f \in [M -> KeysOf(M)] /\ \A r, s \in M : f[r] = f[s] => r = s
    BY DEF KeysOf
  <2> HIDE DEF f
  <2>2. QED
    BY <2>1 DEF Injection, IsInjective
<1> HIDE DEF f
<1>3. QED
  BY <1>1, <1>2, FS_Surjection
-----------------------------------------------------------------------------
(* What one commit does to the ranks. *)

LEMMA AtMostOne ==
  ASSUME NEW D, \A x, y \in D : x = y
  PROVE  Cardinality(D) \in Nat /\ Cardinality(D) <= 1
<1>1. CASE D = {}
  BY <1>1, FS_EmptySet
<1>2. CASE D # {}
  <2>1. \E x : D = {x}
    BY <1>2
  <2>2. QED
    BY <2>1, FS_Singleton
<1>3. QED
  BY <1>1, <1>2

\* A new row moves those behind it by one place, and no others.
LEMMA InsertRank ==
  ASSUME NEW M, NEW r, r \notin M, Listing(M \union {r}), NEW p, NEW x \in M
  PROVE  /\ Listing(M) /\ Rank(M, p, x) \in Nat
         /\ Precedes(p, r, x) => Rank(M \union {r}, p, x) = Rank(M, p, x) + 1
         /\ ~Precedes(p, r, x) => Rank(M \union {r}, p, x) = Rank(M, p, x)
<1>1. Listing(M)
  <2>1. M \in SUBSET (M \union {r})
    OBVIOUS
  <2>2. IsFiniteSet(M)
    BY <2>1, FS_Subset DEF Listing
  <2>3. QED
    BY <2>2 DEF Listing
<1>2. IsFiniteSet(Before(M, p, x)) /\ Rank(M, p, x) \in Nat /\ r \notin Before(M, p, x)
  BY <1>1, RankType DEF Before
<1>3. ASSUME Precedes(p, r, x) PROVE Rank(M \union {r}, p, x) = Rank(M, p, x) + 1
  <2>1. Before(M \union {r}, p, x) = Before(M, p, x) \union {r}
    BY <1>3 DEF Before
  <2>2. QED
    BY <1>2, <2>1, FS_AddElement DEF Rank
<1>4. ASSUME ~Precedes(p, r, x) PROVE Rank(M \union {r}, p, x) = Rank(M, p, x)
  <2>1. Before(M \union {r}, p, x) = Before(M, p, x)
    BY <1>4 DEF Before
  <2>2. QED
    BY <2>1 DEF Rank
<1>5. QED
  BY <1>1, <1>2, <1>3, <1>4

\* Of the rows whose key is in K, an insert brings at most one to the places from
\* o on: the one it pushes over the edge, or the new row itself.
LEMMA InsertCrosses ==
  ASSUME NEW M, NEW r, r \notin M, Listing(M \union {r}), NEW p, NEW K, NEW o \in Nat
  PROVE  /\ Cardinality(Ahead(M, p, K, o)) \in Nat
         /\ Cardinality(Ahead(M \union {r}, p, K, o)) \in Nat
         /\ Cardinality(Ahead(M \union {r}, p, K, o)) <= Cardinality(Ahead(M, p, K, o)) + 1
<1> DEFINE A == Ahead(M, p, K, o)
           B == Ahead(M \union {r}, p, K, o)
<1>0. /\ A = {x \in M : x.key \in K /\ Rank(M, p, x) >= o}
      /\ B = {x \in M \union {r} : x.key \in K /\ Rank(M \union {r}, p, x) >= o}
  BY DEF Ahead
<1> HIDE DEF A, B
<1> USE <1>0
<1> DEFINE N == M \union {r}
           D == B \ A
<1>1. A \in SUBSET N /\ B \in SUBSET N /\ D \in SUBSET N /\ IsFiniteSet(N)
  BY DEF Listing
<1>2. IsFiniteSet(A) /\ IsFiniteSet(B) /\ IsFiniteSet(D)
  BY <1>1, FS_Subset
<1>3. /\ Cardinality(A) \in Nat /\ Cardinality(B) \in Nat /\ Cardinality(D) \in Nat
  BY <1>2, FS_CardinalityType
\* A row of M that crosses the edge stood right before it, behind the new row.
<1>4. ASSUME NEW x \in D, x \in M
      PROVE  Precedes(p, r, x) /\ Rank(N, p, x) = o /\ Rank(M, p, x) = o - 1
  <2>1. x.key \in K /\ Rank(N, p, x) >= o /\ ~(Rank(M, p, x) >= o)
    BY <1>4
  <2>2. /\ Rank(M, p, x) \in Nat
        /\ Precedes(p, r, x) => Rank(N, p, x) = Rank(M, p, x) + 1
        /\ ~Precedes(p, r, x) => Rank(N, p, x) = Rank(M, p, x)
    BY <1>4, InsertRank
  <2>3. QED
    BY <2>1, <2>2
<1>5. ASSUME NEW x \in D, NEW y \in D PROVE x = y
  <2>1. CASE x \in M /\ y \in M
    <3>1. Rank(M, p, x) = Rank(M, p, y)
      BY <1>4, <2>1
    <3>2. Listing(M)
      BY <2>1, InsertRank
    <3>3. QED
      BY <2>1, <3>1, <3>2, RankInjective
  <2>2. ASSUME NEW z \in D, z \in M, r \in D PROVE FALSE
    <3>1. Precedes(p, r, z) /\ Rank(N, p, z) = o
      BY <1>4, <2>2
    <3>2. Rank(N, p, r) < Rank(N, p, z)
      BY <2>2, <3>1, RankGrows
    <3>3. Rank(N, p, r) >= o /\ Rank(N, p, r) \in Nat
      BY <2>2, RankType
    <3>4. QED
      BY <3>1, <3>2, <3>3
  <2>3. x \in N /\ y \in N
    BY <1>1
  <2>4. QED
    BY <2>1, <2>2, <2>3
<1>6. Cardinality(D) <= 1
  <2> HIDE DEF D
  <2>1. QED
    BY <1>5, AtMostOne
<1>7. B \in SUBSET (A \union D)
  OBVIOUS
<1>8. /\ IsFiniteSet(A \union D)
      /\ Cardinality(A \union D) = Cardinality(A) + Cardinality(D) - Cardinality(A \cap D)
  BY <1>2, FS_Union
<1>9. Cardinality(A \cap D) \in Nat
  <2>1. IsFiniteSet(A \cap D)
    BY <1>2, FS_Intersection
  <2>2. QED
    BY <2>1, FS_CardinalityType
<1>10. Cardinality(B) <= Cardinality(A \union D)
  BY <1>7, <1>8, FS_Subset
<1> HIDE DEF D
<1>11. /\ Cardinality(A) \in Nat /\ Cardinality(B) \in Nat
       /\ Cardinality(B) <= Cardinality(A) + 1
  BY <1>3, <1>6, <1>8, <1>9, <1>10
<1>12. QED
  BY ONLY <1>11 DEF A, B

\* Rows that go away only let the others move up.
LEMMA DeleteRank ==
  ASSUME NEW M, Listing(M), NEW G, NEW p, NEW x
  PROVE  /\ Listing(M \ G)
         /\ Rank(M, p, x) \in Nat /\ Rank(M \ G, p, x) \in Nat
         /\ Rank(M \ G, p, x) <= Rank(M, p, x)
<1>1. Listing(M \ G)
  <2>1. IsFiniteSet(M \ G)
    BY FS_Difference DEF Listing
  <2>2. QED
    BY <2>1 DEF Listing
<1>2. Before(M \ G, p, x) \in SUBSET Before(M, p, x)
  BY DEF Before
<1>3. IsFiniteSet(Before(M, p, x)) /\ Rank(M, p, x) \in Nat /\ Rank(M \ G, p, x) \in Nat
  BY <1>1, RankType
<1>4. QED
  BY <1>1, <1>2, <1>3, FS_Subset DEF Rank

\* The removal of rows brings at most as many others to the places before o.
LEMMA DeleteCrosses ==
  ASSUME NEW M, Listing(M), NEW G \in SUBSET M, NEW p, NEW K, NEW L \in SUBSET K, NEW o \in Nat
  PROVE  /\ Cardinality(Behind(M, p, K, o)) \in Nat /\ Cardinality(G) \in Nat
         /\ Cardinality(Behind(M \ G, p, L, o)) \in Nat
         /\ Cardinality(Behind(M \ G, p, L, o))
              <= Cardinality(Behind(M, p, K, o)) + Cardinality(G)
<1> DEFINE A == Behind(M, p, K, o)
           B == Behind(M \ G, p, L, o)
<1>0. /\ A = {x \in M : x.key \in K /\ Rank(M, p, x) < o}
      /\ B = {x \in M \ G : x.key \in L /\ Rank(M \ G, p, x) < o}
  BY DEF Behind
<1> HIDE DEF A, B
<1> USE <1>0
<1> DEFINE N == M \ G
           D == B \ A
           F == First(M, p, o)
           F2 == First(N, p, o)
<1>1. IsFiniteSet(M) /\ Listing(N) /\ Cardinality(M) \in Nat
  BY DeleteRank, FS_CardinalityType DEF Listing
<1>2. A \in SUBSET M /\ B \in SUBSET M /\ D \in SUBSET M /\ (F \ G) \in SUBSET M
  BY DEF First
<1>3. IsFiniteSet(A) /\ IsFiniteSet(B) /\ IsFiniteSet(D) /\ IsFiniteSet(G) /\ IsFiniteSet(F \ G)
  BY <1>1, <1>2, FS_Subset
<1>4. /\ Cardinality(A) \in Nat /\ Cardinality(B) \in Nat /\ Cardinality(D) \in Nat
      /\ Cardinality(G) \in Nat /\ Cardinality(F \ G) \in Nat
  BY <1>3, FS_CardinalityType
<1>5. Cardinality(D) <= Cardinality(G)
  <2>1. CASE D = {}
    <3> HIDE DEF D
    <3>1. QED
      BY <2>1, <1>4, FS_EmptySet
  <2>2. CASE D # {}
    <3>1. ASSUME NEW x \in D PROVE x \in N /\ Rank(N, p, x) < o /\ Rank(M, p, x) >= o
      <4>1. x \in B /\ x \notin A
        BY <3>1
      <4>2. x \in N /\ x \in M /\ x.key \in K /\ Rank(N, p, x) < o /\ ~(Rank(M, p, x) < o)
        BY <4>1
      <4>3. Rank(M, p, x) \in Nat
        BY RankType
      <4>4. QED
        BY <4>2, <4>3
    <3>2. o < Cardinality(M)
      <4>1. PICK x \in D : x \in M
        BY <1>2, <2>2
      <4>2. Rank(M, p, x) < Cardinality(M) /\ Rank(M, p, x) \in Nat /\ Rank(M, p, x) >= o
        BY <3>1, <4>1, RankBelow, RankType
      <4> HIDE DEF D
      <4>3. QED
        BY <4>2, <1>1
    <3>3. IsFiniteSet(F) /\ Cardinality(F) = o
      <4>1. o <= Cardinality(M)
        BY <3>2, <1>1
      <4>2. QED
        BY <4>1, FirstRows
    <3>4. IsFiniteSet(F2) /\ Cardinality(F2) <= o /\ Cardinality(F2) \in Nat
      <4>1. Listing(N)
        BY <1>1
      <4> HIDE DEF N
      <4>2. QED
        BY <4>1, FirstRows
    <3>5. (F \ G) \union D \in SUBSET F2 /\ (F \ G) \cap D = {}
      <4>1. ASSUME NEW x \in F \ G PROVE x \in F2 /\ x \notin D
        <5>1. x \in N /\ Rank(M, p, x) < o
          BY <4>1 DEF First
        <5>2. Rank(N, p, x) < o
          <6>1. /\ Rank(M, p, x) \in Nat /\ Rank(N, p, x) \in Nat
                /\ Rank(N, p, x) <= Rank(M, p, x)
            BY DeleteRank
          <6>2. QED
            BY <5>1, <6>1
        <5>3. Rank(M, p, x) \in Nat
          BY RankType
        <5>4. ~(Rank(M, p, x) >= o)
          BY <5>1, <5>3
        <5>5. x \notin D
          BY <3>1, <5>4
        <5>6. QED
          BY <5>1, <5>2, <5>5 DEF First
      <4>2. \A x \in D : x \in F2
        BY <3>1 DEF First
      <4> HIDE DEF D, F, F2
      <4>3. QED
        BY <4>1, <4>2
    <3>6. /\ Cardinality((F \ G) \union D) = Cardinality(F \ G) + Cardinality(D) - 0
          /\ Cardinality((F \ G) \union D) <= Cardinality(F2)
      <4> HIDE DEF D, F, F2
      <4>1. Cardinality((F \ G) \cap D) = 0
        BY <3>5, FS_EmptySet
      <4>2. QED
        BY <4>1, <3>4, <3>5, <1>3, FS_Union, FS_Subset
    <3>7. /\ Cardinality(F \ G) = o - Cardinality(F \cap G)
          /\ Cardinality(F \cap G) <= Cardinality(G)
          /\ Cardinality(F \cap G) \in Nat
      <4> HIDE DEF F
      <4>1. Cardinality(F \ G) = Cardinality(F) - Cardinality(F \cap G)
        BY <3>3, FS_Difference
      <4>2. IsFiniteSet(F \cap G) /\ Cardinality(F \cap G) <= Cardinality(G)
        BY <1>3, FS_Intersection
      <4>3. Cardinality(F \cap G) \in Nat
        BY <4>2, FS_CardinalityType
      <4>4. QED
        BY <4>1, <4>2, <4>3, <3>3
    <3> HIDE DEF D, F, F2
    <3>8. QED
      BY <3>4, <3>6, <3>7, <1>4
  <2>3. QED
    BY <2>1, <2>2
<1>6. B \in SUBSET (A \union D)
  OBVIOUS
<1>7. /\ IsFiniteSet(A \union D)
      /\ Cardinality(A \union D) = Cardinality(A) + Cardinality(D) - Cardinality(A \cap D)
  <2> HIDE DEF D
  <2>1. QED
    BY <1>3, FS_Union
<1>8. Cardinality(A \cap D) = 0
  <2>1. A \cap D = {}
    OBVIOUS
  <2>2. QED
    BY <2>1, FS_EmptySet
<1>9. Cardinality(B) <= Cardinality(A \union D)
  BY <1>6, <1>7, FS_Subset
<1> HIDE DEF D, F
<1>10. /\ Cardinality(A) \in Nat /\ Cardinality(B) \in Nat /\ Cardinality(G) \in Nat
       /\ Cardinality(B) <= Cardinality(A) + Cardinality(G)
  BY <1>4, <1>5, <1>7, <1>8, <1>9
<1>11. QED
  BY ONLY <1>10 DEF A, B
-----------------------------------------------------------------------------
(* What one page does to the debts of a walk. *)

\* A page that is shown pays, for the rows seen before, what it adds to the repeats.
LEMMA PageRepeats ==
  ASSUME NEW M, Listing(M), \A r, s \in M : r.key = s.key => r = s,
         NEW p, NEW K, NEW o \in Nat, NEW l \in Nat,
         NEW n, n = o + l, NEW page, page = KeysOf(Shown(M, p, o, l))
  PROVE  /\ Cardinality(Ahead(M, p, K, o)) \in Nat
         /\ Cardinality(Ahead(M, p, K \union page, n)) \in Nat
         /\ Cardinality(page \cap K) \in Nat
         /\ Cardinality(page \cap K) + Cardinality(Ahead(M, p, K \union page, n))
              = Cardinality(Ahead(M, p, K, o))
<1> DEFINE A == Ahead(M, p, K, o)
           B == Ahead(M, p, K \union page, n)
<1>0. /\ A = {r \in M : r.key \in K /\ Rank(M, p, r) >= o}
      /\ B = {r \in M : r.key \in K \union page /\ Rank(M, p, r) >= n}
      /\ page = KeysOf({r \in M : Rank(M, p, r) \in o .. o + l - 1})
  BY DEF Ahead, Shown
<1> HIDE DEF A, B
<1> USE <1>0
<1> DEFINE S == {r \in M : r.key \in K /\ Rank(M, p, r) \in o .. o + l - 1}
<1>1. \A r \in M : Rank(M, p, r) \in Nat
  BY RankType
<1>2. page \cap K = KeysOf(S)
  BY DEF KeysOf
<1>3. ASSUME NEW r \in B PROVE r \in M /\ r.key \in K /\ Rank(M, p, r) >= n
  <2>1. r \in M /\ r.key \in K \union page /\ Rank(M, p, r) >= n
    BY <1>3
  <2>2. r.key \notin page
    <3>1. ASSUME NEW s \in M, s.key = r.key, Rank(M, p, s) \in o .. o + l - 1 PROVE FALSE
      <4>1. s = r
        BY <2>1, <3>1
      <4>2. QED
        BY <1>1, <2>1, <3>1, <4>1
    <3>2. QED
      BY <3>1 DEF KeysOf
  <2>3. QED
    BY <2>1, <2>2
<1>4. A = S \union B /\ S \cap B = {}
  <2>1. \A r \in A : r \in S \/ r \in B
    BY <1>1
  <2>2. \A r \in S : r \in A /\ r \notin B
    BY <1>1
  <2>3. \A r \in B : r \in A
    BY <1>1, <1>3
  <2> HIDE DEF S
  <2>4. QED
    BY <2>1, <2>2, <2>3
<1>5. IsFiniteSet(S) /\ IsFiniteSet(B)
  <2>1. IsFiniteSet(M) /\ S \in SUBSET M /\ B \in SUBSET M
    BY DEF Listing
  <2> HIDE DEF S
  <2>2. QED
    BY <2>1, FS_Subset
<1>6. IsFiniteSet(KeysOf(S)) /\ Cardinality(KeysOf(S)) = Cardinality(S)
  <2>1. \A r, s \in S : r.key = s.key => r = s
    OBVIOUS
  <2> HIDE DEF S
  <2>2. QED
    BY <1>5, <2>1, KeysCardinality
<1> HIDE DEF S
<1>7. Cardinality(A) = Cardinality(S) + Cardinality(B) - 0
  <2>1. Cardinality(S \cap B) = 0
    BY <1>4, FS_EmptySet
  <2>2. QED
    BY <1>4, <1>5, <2>1, FS_Union
<1>8. Cardinality(S) \in Nat /\ Cardinality(B) \in Nat
  BY <1>5, FS_CardinalityType
<1>9. Cardinality(page \cap K) = Cardinality(S)
  BY <1>2, <1>6
<1>10. Cardinality(A) \in Nat /\ Cardinality(S) + Cardinality(B) = Cardinality(A)
  BY <1>7, <1>8
<1>11. /\ Cardinality(A) \in Nat /\ Cardinality(B) \in Nat /\ Cardinality(page \cap K) \in Nat
       /\ Cardinality(page \cap K) + Cardinality(B) = Cardinality(A)
  BY <1>8, <1>9, <1>10
<1>12. QED
  BY ONLY <1>11 DEF A, B

\* Of the keys in U a page leaves unseen, no row is behind the client that was
\* not behind it before; what it has not seen is behind it or still ahead.
LEMMA PageMisses ==
  ASSUME NEW M, Listing(M), NEW p, NEW K, NEW U, NEW o \in Nat, NEW l \in Nat,
         NEW n, n = o + l, NEW page, page = KeysOf(Shown(M, p, o, l))
  PROVE  /\ Behind(M, p, U \ (K \union page), n) \subseteq Behind(M, p, U \ K, o)
         /\ Cardinality(Behind(M, p, U \ K, o)) \in Nat
         /\ IsFiniteSet(Behind(M, p, U \ (K \union page), n))
         /\ Cardinality(Behind(M, p, U \ (K \union page), n)) \in Nat
         /\ Cardinality(Behind(M, p, U \ (K \union page), n))
              <= Cardinality(Behind(M, p, U \ K, o))
<1> DEFINE A == Behind(M, p, U \ K, o)
           B == Behind(M, p, U \ (K \union page), n)
<1>0. /\ A = {r \in M : r.key \in U /\ r.key \notin K /\ Rank(M, p, r) < o}
      /\ B = {r \in M : r.key \in U /\ r.key \notin K \union page /\ Rank(M, p, r) < n}
      /\ page = KeysOf({r \in M : Rank(M, p, r) \in o .. o + l - 1})
  BY DEF Behind, Shown
<1> HIDE DEF A, B
<1> USE <1>0
<1>1. \A r \in M : Rank(M, p, r) \in Nat
  BY RankType
<1>2. ASSUME NEW r \in B PROVE r \in A
  <2>1. /\ r \in M /\ r.key \in U /\ r.key \notin K /\ r.key \notin page
        /\ Rank(M, p, r) < n
    BY <1>2
  <2>2. Rank(M, p, r) \notin o .. o + l - 1
    BY <2>1 DEF KeysOf
  <2>3. Rank(M, p, r) < o
    BY <1>1, <2>1, <2>2
  <2>4. QED
    BY <2>1, <2>3
<1>3. IsFiniteSet(A)
  <2>1. IsFiniteSet(M) /\ A \in SUBSET M
    BY DEF Listing
  <2>2. QED
    BY <2>1, FS_Subset
<1>4. B \in SUBSET A
  BY <1>2
<1>5. IsFiniteSet(B) /\ Cardinality(B) <= Cardinality(A)
  BY ONLY <1>3, <1>4, FS_Subset
<1>6. Cardinality(A) \in Nat /\ Cardinality(B) \in Nat
  BY ONLY <1>3, <1>5, FS_CardinalityType
<1>7. QED
  BY ONLY <1>4, <1>5, <1>6 DEF A, B

\* A short page ends the listing, and what is left behind n rows is the rest.
LEMMA RowsAfter ==
  ASSUME NEW M, Listing(M), NEW p, NEW n \in Nat
  PROVE  /\ IsFiniteSet(M \ First(M, p, n)) /\ Cardinality(M \ First(M, p, n)) \in Nat
         /\ Cardinality(M) \in Nat
         /\ M \ First(M, p, n) # {} => Cardinality(M \ First(M, p, n)) = Cardinality(M) - n
<1> DEFINE F == First(M, p, n)
           R == M \ F
<1>1. R = M \ F /\ F \in SUBSET M
  BY DEF First
<1>2. IsFiniteSet(M) /\ Cardinality(M) \in Nat /\ R \in SUBSET M
  BY FS_CardinalityType DEF Listing
<1>3. IsFiniteSet(R)
  BY <1>2, FS_Subset
<1>4. /\ n <= Cardinality(M) => Cardinality(F) = n
      /\ Cardinality(M) <= n => F = M
      /\ Cardinality(F) \in Nat
  BY FirstRows
<1>5. ASSUME R # {} PROVE Cardinality(R) = Cardinality(M) - n
  <2>1. F # M
    BY <1>1, <1>5
  <2>2. Cardinality(F) = n
    BY <2>1, <1>2, <1>4
  <2>3. M \cap F = F
    BY <1>1
  <2>4. Cardinality(R) = Cardinality(M) - Cardinality(M \cap F)
    BY <1>1, <1>2, FS_Difference
  <2>5. QED
    BY <2>2, <2>3, <2>4
<1>6. QED
  BY <1>2, <1>3, <1>5, FS_CardinalityType

\* When rows are left after a page, the page is full.
LEMMA FullPage ==
  ASSUME NEW M, Listing(M), \A r, s \in M : r.key = s.key => r = s,
         NEW p, NEW o \in Nat, NEW l \in Nat,
         NEW x \in M, Rank(M, p, x) >= o + l
  PROVE  Cardinality(KeysOf(Shown(M, p, o, l))) = l
<1> DEFINE P == Shown(M, p, o, l)
           F == First(M, p, o)
           G == First(M, p, o + l)
<1>1. P = G \ F /\ G \cap F = F
  <2>1. \A r \in M : Rank(M, p, r) \in Nat
    BY RankType
  <2>2. QED
    BY <2>1 DEF First, Shown
<1>2. o + l <= Cardinality(M) /\ o <= Cardinality(M) /\ o + l \in Nat
  <2>1. Rank(M, p, x) < Cardinality(M) /\ Rank(M, p, x) \in Nat
    BY RankBelow, RankType
  <2>2. Cardinality(M) \in Nat
    BY FS_CardinalityType DEF Listing
  <2>3. QED
    BY <2>1, <2>2
<1>3. Cardinality(F) = o
  BY <1>2, FirstRows
<1>4. IsFiniteSet(G) /\ Cardinality(G) = o + l
  BY <1>2, FirstRows
<1>5. IsFiniteSet(P) /\ Cardinality(P) = l
  <2> HIDE DEF F, G
  <2>1. /\ IsFiniteSet(G \ F)
        /\ Cardinality(G \ F) = Cardinality(G) - Cardinality(G \cap F)
    BY <1>4, FS_Difference
  <2>2. G \cap F = F
    BY <1>1
  <2>3. Cardinality(G \ F) = (o + l) - o
    BY <1>3, <1>4, <2>1, <2>2
  <2>4. P = G \ F
    BY <1>1
  <2>5. (o + l) - o = l
    OBVIOUS
  <2>6. Cardinality(G \ F) = l
    BY ONLY <2>3, <2>5
  <2>7. QED
    BY ONLY <2>1, <2>4, <2>6
<1>6. \A r, s \in P : r.key = s.key => r = s
  BY DEF Shown
<1>7. QED
  BY <1>5, <1>6, KeysCardinality
-----------------------------------------------------------------------------
(* The steps of the table and of the client. *)

\* Rows of the table with distinct rowids can be listed, with a key each.
LEMMA TableListing ==
  ASSUME NEW R \in SUBSET Row, IsFiniteSet(R), \A r, s \in R : r.id = s.id => r = s,
         \A r, s \in R : r.key = s.key => r = s, NEW M \in SUBSET R
  PROVE  Listing(M) /\ \A r, s \in M : r.key = s.key => r = s
<1>1. IsFiniteSet(M)
  BY FS_Subset
<1>2. ASSUME NEW r \in Row PROVE r.id \in Int /\ r.at \in Int /\ IndexPlace[r.owner] \in Int
  <2>1. r.id \in 1 .. MaxInserts /\ r.at \in Times
    BY DEF Row
  <2>2. r.id \in Int
    BY <2>1, InsertsAssumption
  <2>3. r.at \in Int
    BY <2>1, ListingAssumption
  <2>4. IndexPlace[r.owner] \in Int
    BY IndexAssumption DEF Row
  <2>5. QED
    BY <2>2, <2>3, <2>4
<1>3. QED
  BY <1>1, <1>2 DEF Listing

\* Place is the rank in the listing the client walks.
LEMMA Debts ==
  /\ SeenAhead = Ahead(Matching(walk.scope), walk.plan, walk.seen, walk.offset)
  /\ UnseenBehind = Behind(Matching(walk.scope), walk.plan, walk.stable \ walk.seen, walk.offset)
BY DEF SeenAhead, UnseenBehind, Ahead, Behind, Place, Position, Rank, Before

LEMMA DebtsAfter ==
  /\ SeenAhead' = Ahead(Matching(walk.scope)', walk'.plan, walk'.seen, walk'.offset)
  /\ UnseenBehind' =
       Behind(Matching(walk.scope)', walk'.plan, walk'.stable \ walk'.seen, walk'.offset)
BY DEF SeenAhead, UnseenBehind, Ahead, Behind, Place, Position, Rank, Before

\* A step that leaves the rows and the walk alone.
LEMMA WalkUntouched == ASSUME WalkInv, UNCHANGED <<rows, walk>> PROVE WalkInv'
BY DEF WalkInv, RowidsDistinct, WalkDebts, SeenAhead, UnseenBehind, Place, Position, Matching,
       WalkMissesBounded, WalkRepeatsBounded

\* A client that pages on keeps the fields of its walk but for its tallies.
LEMMA InsertWalk ==
  ASSUME TableInv, TableInv', WalkInv, NEW r \in Row, RecordUpload(r)
  PROVE  WalkInv'
<1>1. /\ rows' = rows \union {r} /\ r.key \notin KeysOf(rows) /\ r \notin rows
      /\ NoteInsert(r)
  BY DEF RecordUpload, IsNewKey, KeysOf
<1>2. IsFiniteSet(rows') /\ RowidsDistinct'
  <2>1. IsFiniteSet(rows')
    BY <1>1, FS_AddElement DEF WalkInv
  <2>2. \A s \in rows : s.id # r.id
    <3>1. \A s \in rows : s.id < r.id /\ s.id \in Int /\ r.id \in Int
      BY InsertsAssumption DEF RecordUpload, IsRowid, TableInv, TypeOK, Row
    <3>2. QED
      BY <3>1
  <2>3. QED
    BY <1>1, <2>1, <2>2 DEF WalkInv, RowidsDistinct
<1>3. CASE walk.pc \in {"idle", "done"}
  <2>1. walk' = walk
    BY <1>1, <1>3 DEF NoteInsert
  <2>2. QED
    BY <1>2, <1>3, <2>1 DEF WalkInv, WalkMissesBounded, WalkRepeatsBounded
<1>4. CASE walk.pc \in {"asking", "counted"} /\ r.owner \notin walk.scope
  <2>1. walk' = walk
    BY <1>1, <1>4 DEF NoteInsert
  <2>2. Matching(walk.scope)' = Matching(walk.scope)
    BY <1>1, <1>4, <2>1 DEF Matching
  <2>3. WalkDebts'
    <3>1. SeenAhead' = SeenAhead /\ UnseenBehind' = UnseenBehind
      BY <2>1, <2>2, Debts, DebtsAfter
    <3>2. QED
      BY <1>4, <2>1, <2>2, <3>1 DEF WalkInv, WalkDebts
  <2>4. QED
    BY <1>2, <1>4, <2>1, <2>3 DEF WalkInv
<1>5. CASE walk.pc \in {"asking", "counted"} /\ r.owner \in walk.scope
  <2> DEFINE M == Matching(walk.scope)
             p == walk.plan
             o == walk.offset
  <2>1. walk \in Walks /\ WalkDebts
    BY <1>5 DEF WalkInv
  <2>2. /\ walk' \in Walks /\ walk'.pc = walk.pc /\ walk'.scope = walk.scope
        /\ walk'.plan = walk.plan /\ walk'.offset = walk.offset /\ walk'.seen = walk.seen
        /\ walk'.stable = walk.stable /\ walk'.repeats = walk.repeats
        /\ walk'.deleted = walk.deleted /\ walk'.total = walk.total
        /\ walk'.inserted = IF walk.offset > 0 THEN walk.inserted + 1 ELSE walk.inserted
        /\ walk'.slipped = IF walk.pc = "counted" THEN walk.slipped + 1 ELSE walk.slipped
    <3> DEFINE a == IF walk.offset > 0 THEN walk.inserted + 1 ELSE walk.inserted
               b == IF walk.pc = "counted" THEN walk.slipped + 1 ELSE walk.slipped
    <3>1. a \in Nat /\ b \in Nat
      BY <2>1 DEF Walks
    <3>2. walk' = [walk EXCEPT !.inserted = a, !.slipped = b]
      BY <1>1, <1>5 DEF NoteInsert, Walking
    <3>3. walk'.inserted = a /\ walk'.slipped = b
      BY <2>1, <3>2 DEF Walks
    <3> HIDE DEF a, b
    <3>4. /\ walk' \in Walks /\ walk'.pc = walk.pc /\ walk'.scope = walk.scope
          /\ walk'.plan = walk.plan /\ walk'.offset = walk.offset /\ walk'.seen = walk.seen
          /\ walk'.stable = walk.stable /\ walk'.repeats = walk.repeats
          /\ walk'.deleted = walk.deleted /\ walk'.total = walk.total
      BY <2>1, <3>1, <3>2 DEF Walks
    <3>5. QED
      BY <3>3, <3>4 DEF a, b
  <2>3. Matching(walk.scope)' = M \union {r} /\ r \notin M
    BY <1>1, <1>5, <2>2 DEF Matching
  <2>4. Listing(M \union {r})
    <3>1. M \union {r} \in SUBSET rows'
      BY <1>1 DEF Matching
    <3>2. /\ rows' \in SUBSET Row /\ \A s, t \in rows' : s.key = t.key => s = t
          /\ \A s, t \in rows' : s.id = t.id => s = t
      BY <1>2 DEF TableInv, TypeOK, RowidsDistinct
    <3> HIDE DEF M
    <3>3. QED
      BY <1>2, <3>1, <3>2, TableListing
  <2>5. o \in Nat /\ walk.repeats \in Nat /\ walk.inserted \in Nat /\ walk.deleted \in Nat
        /\ walk.total \in Nat /\ walk.slipped \in Nat
    BY <2>1 DEF Walks
  <2>6. walk'.stable \subseteq KeysOf(Matching(walk.scope)')
    BY <2>1, <2>2, <2>3 DEF WalkDebts, KeysOf
  <2>7. walk'.repeats + Cardinality(SeenAhead') <= walk'.inserted
    <3>1. /\ SeenAhead' = Ahead(M \union {r}, p, walk.seen, o)
          /\ SeenAhead = Ahead(M, p, walk.seen, o)
      BY <2>2, <2>3, Debts, DebtsAfter
    <3>2. CASE o = 0
      <4>1. SeenAhead = {} /\ SeenAhead' = {}
        BY <2>1, <3>1, <3>2 DEF WalkDebts, Ahead
      <4>2. QED
        BY <2>1, <2>2, <2>5, <3>2, <4>1, FS_EmptySet DEF WalkDebts
    <3>3. CASE o # 0
      <4> HIDE DEF M, p, o
      <4>1. r \notin M /\ Listing(M \union {r}) /\ o \in Nat
        BY <2>3, <2>4, <2>5
      <4>2. /\ Cardinality(SeenAhead) \in Nat /\ Cardinality(SeenAhead') \in Nat
            /\ Cardinality(SeenAhead') <= Cardinality(SeenAhead) + 1
        BY <3>1, <4>1, InsertCrosses
      <4>3. walk.repeats + Cardinality(SeenAhead) <= walk.inserted
        BY <2>1 DEF WalkDebts
      <4>4. walk'.inserted = walk.inserted + 1
        BY <2>2, <2>5, <3>3 DEF o
      <4>5. QED
        BY <2>2, <2>5, <4>2, <4>3, <4>4
    <3>4. QED
      BY <3>2, <3>3
  <2>8. Cardinality(UnseenBehind') <= walk'.deleted
    <3>1. UnseenBehind' = {x \in M \union {r} :
                             x.key \in walk.stable \ walk.seen /\ Rank(M \union {r}, p, x) < o}
      BY <2>2, <2>3, DebtsAfter DEF Behind
    <3>2. UnseenBehind = {x \in M : x.key \in walk.stable \ walk.seen /\ Rank(M, p, x) < o}
      BY Debts DEF Behind
    <3>3. r.key \notin walk.stable
      BY <1>1, <2>1 DEF WalkDebts, KeysOf, Matching
    <3> HIDE DEF M, p, o
    <3>4. ASSUME NEW x \in UnseenBehind' PROVE x \in UnseenBehind
      <4>1. /\ x \in M /\ x.key \in walk.stable \ walk.seen /\ Rank(M \union {r}, p, x) < o
        BY <3>1, <3>3, <3>4
      <4>2. /\ Rank(M, p, x) \in Nat
            /\ Rank(M \union {r}, p, x) \in {Rank(M, p, x), Rank(M, p, x) + 1}
        <5>1. r \notin M /\ Listing(M \union {r}) /\ x \in M
          BY <2>3, <2>4, <4>1
        <5>2. QED
          BY ONLY <5>1, InsertRank
      <4>3. Rank(M, p, x) < o
        BY <2>5, <4>1, <4>2
      <4>4. QED
        BY <3>2, <4>1, <4>3
    <3>5. IsFiniteSet(UnseenBehind)
      <4>1. Listing(M) /\ UnseenBehind \in SUBSET M
        BY <2>3, <2>4, <3>2, FS_Subset DEF Listing
      <4>2. QED
        BY <4>1, FS_Subset DEF Listing
    <3>6. Cardinality(UnseenBehind') <= Cardinality(UnseenBehind) /\ IsFiniteSet(UnseenBehind')
      BY <3>4, <3>5, FS_Subset
    <3>7. Cardinality(UnseenBehind) <= walk.deleted
      BY <2>1 DEF WalkDebts
    <3>8. QED
      BY <2>2, <2>5, <3>5, <3>6, <3>7, FS_CardinalityType
  <2>9. walk'.pc = "counted" => Cardinality(Matching(walk.scope)') <= walk'.total + walk'.slipped
    <3>1. IsFiniteSet(M)
      BY FS_Subset DEF WalkInv, Matching
    <3> HIDE DEF M
    <3>2. Cardinality(M) \in Nat /\ Cardinality(M \union {r}) = Cardinality(M) + 1
      BY <2>3, <3>1, FS_AddElement, FS_CardinalityType
    <3>3. walk.pc = "counted" => Cardinality(M) <= walk.total + walk.slipped
      BY <2>1 DEF WalkDebts, M
    <3>4. QED
      BY <2>2, <2>3, <2>5, <3>2, <3>3
  <2>10. walk'.offset = 0 => walk'.seen = {} /\ walk'.stable = {}
    BY <2>1, <2>2 DEF WalkDebts
  <2>11. WalkDebts'
    BY <2>6, <2>7, <2>8, <2>9, <2>10 DEF WalkDebts
  <2>12. QED
    BY <1>2, <1>5, <2>2, <2>11 DEF WalkInv
<1>6. QED
  BY <1>3, <1>4, <1>5 DEF WalkInv, Walks
\* Rows of the walked listing that go away leave fewer to count, and stay within
\* the tallies: at most as many others move behind the client unseen.
LEMMA DeleteWalk ==
  ASSUME TableInv, WalkInv, NEW gone \in SUBSET rows, rows' = rows \ gone, NoteDelete(gone)
  PROVE  WalkInv'
<1> DEFINE M == Matching(walk.scope)
           G == gone \cap M
           p == walk.plan
           o == walk.offset
<1>1. IsFiniteSet(rows') /\ RowidsDistinct'
  <2>1. IsFiniteSet(rows')
    BY FS_Difference DEF WalkInv
  <2>2. QED
    BY <2>1 DEF WalkInv, RowidsDistinct
<1>2. CASE walk.pc \in {"idle", "done"}
  <2>1. walk' = walk
    BY <1>2 DEF NoteDelete, Walking
  <2>2. QED
    BY <1>1, <1>2, <2>1 DEF WalkInv, WalkMissesBounded, WalkRepeatsBounded
<1>3. CASE walk.pc \in {"asking", "counted"}
  <2>1. walk \in Walks /\ WalkDebts
    BY <1>3 DEF WalkInv
  <2>2. Listing(M) /\ G \in SUBSET M
    <3>1. M \in SUBSET rows /\ IsFiniteSet(rows) /\ G \in SUBSET M
      BY DEF Matching, WalkInv
    <3>2. /\ rows \in SUBSET Row /\ \A s, t \in rows : s.key = t.key => s = t
          /\ \A s, t \in rows : s.id = t.id => s = t
      BY DEF TableInv, TypeOK, WalkInv, RowidsDistinct
    <3> HIDE DEF M, G
    <3>3. QED
      BY <3>1, <3>2, TableListing
  <2>3. o \in Nat /\ walk.repeats \in Nat /\ walk.inserted \in Nat /\ walk.deleted \in Nat
        /\ walk.total \in Nat /\ walk.slipped \in Nat
    BY <2>1 DEF Walks
  <2>4. /\ IsFiniteSet(M) /\ Cardinality(M) \in Nat /\ Cardinality(G) \in Nat
        /\ Cardinality(M \ G) \in Nat /\ Cardinality(M \ G) <= Cardinality(M)
    <3>1. IsFiniteSet(M) /\ (M \ G) \in SUBSET M /\ G \in SUBSET M
      BY <2>2 DEF Listing
    <3> HIDE DEF M, G
    <3>2. QED
      BY <3>1, FS_Subset, FS_CardinalityType
  <2>5. ASSUME o = 0, walk' = walk PROVE WalkInv'
    <3>1. Matching(walk.scope)' = M \ G
      BY <2>5 DEF Matching
    <3>2. walk.seen = {} /\ walk.stable = {}
      BY <2>1, <2>5 DEF WalkDebts
    <3>3. SeenAhead = {} /\ SeenAhead' = {} /\ UnseenBehind = {} /\ UnseenBehind' = {}
      BY <2>5, <3>2 DEF SeenAhead, UnseenBehind
    <3>4. walk.pc = "counted" => Cardinality(M) <= walk.total + walk.slipped
      BY <2>1 DEF WalkDebts
    <3>5. walk'.pc = "counted" => Cardinality(Matching(walk.scope)') <= walk'.total + walk'.slipped
      BY <2>3, <2>4, <2>5, <3>1, <3>4
    <3>6. WalkDebts'
      BY <2>1, <2>5, <3>2, <3>3, <3>5 DEF WalkDebts
    <3>7. QED
      BY <1>1, <1>3, <2>1, <2>5, <3>6 DEF WalkInv
  <2>6. ASSUME o > 0 PROVE WalkInv'
    <3>1. /\ walk' \in Walks /\ walk'.pc = walk.pc /\ walk'.scope = walk.scope
          /\ walk'.plan = walk.plan /\ walk'.offset = walk.offset /\ walk'.seen = walk.seen
          /\ walk'.repeats = walk.repeats /\ walk'.inserted = walk.inserted
          /\ walk'.total = walk.total /\ walk'.slipped = walk.slipped
          /\ walk'.stable = walk.stable \ KeysOf(gone)
          /\ walk'.deleted = walk.deleted + Cardinality(G)
      <4> DEFINE st == walk.stable \ KeysOf(gone)
                 de == walk.deleted + Cardinality(G)
      <4>1. walk' = [walk EXCEPT !.stable = st, !.deleted = de]
        BY <1>3, <2>6 DEF NoteDelete, Walking
      <4>2. st \in SUBSET Keys /\ de \in Nat
        BY <2>1, <2>3, <2>4 DEF Walks
      <4> HIDE DEF st, de
      <4>3. walk'.stable = st /\ walk'.deleted = de
        BY <2>1, <4>1 DEF Walks
      <4>4. /\ walk' \in Walks /\ walk'.pc = walk.pc /\ walk'.scope = walk.scope
            /\ walk'.plan = walk.plan /\ walk'.offset = walk.offset /\ walk'.seen = walk.seen
            /\ walk'.repeats = walk.repeats /\ walk'.inserted = walk.inserted
            /\ walk'.total = walk.total /\ walk'.slipped = walk.slipped
        BY <2>1, <4>1, <4>2 DEF Walks
      <4>5. QED
        BY <4>3, <4>4 DEF st, de
    <3>2. Matching(walk.scope)' = M \ G
      BY <3>1 DEF Matching
    <3>3. walk'.stable \subseteq KeysOf(Matching(walk.scope)')
      <4>1. ASSUME NEW k \in walk'.stable PROVE k \in KeysOf(M \ G)
        <5>1. k \in walk.stable /\ k \notin KeysOf(gone)
          BY <3>1, <4>1
        <5>2. PICK r \in M : r.key = k
          BY <2>1, <5>1 DEF WalkDebts, KeysOf
        <5>3. r \notin gone
          BY <5>1, <5>2 DEF KeysOf
        <5>4. QED
          BY <5>2, <5>3 DEF KeysOf
      <4>2. QED
        BY <3>2, <4>1
    <3>4. walk'.repeats + Cardinality(SeenAhead') <= walk'.inserted
      <4>1. /\ SeenAhead' = Ahead(M \ G, p, walk.seen, o)
            /\ SeenAhead = Ahead(M, p, walk.seen, o)
        BY <3>1, <3>2, Debts, DebtsAfter
      <4>2. SeenAhead' \subseteq SeenAhead
        <5> HIDE DEF M, G, p, o
        <5>1. \A x : /\ Rank(M \ G, p, x) <= Rank(M, p, x)
                     /\ Rank(M, p, x) \in Nat /\ Rank(M \ G, p, x) \in Nat
          BY <2>2, DeleteRank
        <5>2. ASSUME NEW x \in SeenAhead' PROVE x \in SeenAhead
          <6>1. x \in M /\ x.key \in walk.seen /\ Rank(M \ G, p, x) >= o
            BY <4>1 DEF Ahead
          <6>2. Rank(M, p, x) >= o
            BY <2>3, <5>1, <6>1
          <6>3. QED
            BY <4>1, <6>1, <6>2 DEF Ahead
        <5>3. QED
          BY <5>2
      <4>3. SeenAhead \in SUBSET M
        BY DEF SeenAhead
      <4>4. /\ IsFiniteSet(SeenAhead) /\ IsFiniteSet(SeenAhead')
            /\ Cardinality(SeenAhead') <= Cardinality(SeenAhead)
        <5> HIDE DEF M
        <5>1. IsFiniteSet(SeenAhead)
          BY <2>4, <4>3, FS_Subset
        <5>2. QED
          BY <4>2, <5>1, FS_Subset
      <4>5. Cardinality(SeenAhead) \in Nat /\ Cardinality(SeenAhead') \in Nat
        BY <4>4, FS_CardinalityType
      <4>6. walk.repeats + Cardinality(SeenAhead) <= walk.inserted
        BY <2>1 DEF WalkDebts
      <4>7. QED
        BY <2>3, <3>1, <4>4, <4>5, <4>6
    <3>5. Cardinality(UnseenBehind') <= walk'.deleted
      <4> DEFINE K == walk.stable \ walk.seen
                 L == walk'.stable \ walk'.seen
      <4>1. /\ UnseenBehind' = Behind(M \ G, p, L, o)
            /\ UnseenBehind = Behind(M, p, K, o)
        BY <3>1, <3>2, Debts, DebtsAfter
      <4>2. L \in SUBSET K
        BY <3>1
      <4>3. Cardinality(UnseenBehind) <= walk.deleted
        BY <2>1 DEF WalkDebts
      <4> HIDE DEF M, G, p, o, K, L
      <4>4. /\ Cardinality(UnseenBehind) \in Nat /\ Cardinality(UnseenBehind') \in Nat
            /\ Cardinality(UnseenBehind') <= Cardinality(UnseenBehind) + Cardinality(G)
        BY <2>2, <2>3, <4>1, <4>2, DeleteCrosses
      <4>5. QED
        BY <2>3, <2>4, <3>1, <4>3, <4>4
    <3>6. walk'.pc = "counted" => Cardinality(Matching(walk.scope)') <= walk'.total + walk'.slipped
      <4>1. walk.pc = "counted" => Cardinality(M) <= walk.total + walk.slipped
        BY <2>1 DEF WalkDebts
      <4>2. QED
        BY <2>3, <2>4, <3>1, <3>2, <4>1
    <3>7. walk'.offset = 0 => walk'.seen = {} /\ walk'.stable = {}
      BY <2>6, <3>1
    <3>8. WalkDebts'
      BY <3>3, <3>4, <3>5, <3>6, <3>7 DEF WalkDebts
    <3>9. QED
      BY <1>1, <1>3, <3>1, <3>8 DEF WalkInv
  <2>7. o = 0 => walk' = walk
    BY DEF NoteDelete, Walking
  <2>8. QED
    BY <2>3, <2>5, <2>6, <2>7
<1>4. QED
  BY <1>2, <1>3 DEF WalkInv, Walks
\* The keys in U that n rows of a listing do not show are behind the client or
\* among the rows it has not reached.
LEMMA MissedRows ==
  ASSUME NEW M, Listing(M), \A r, s \in M : r.key = s.key => r = s,
         NEW p, NEW U \in SUBSET KeysOf(M), NEW n \in Nat
  PROVE  /\ Cardinality(U) \in Nat /\ Cardinality(Behind(M, p, U, n)) \in Nat
         /\ Cardinality(M \ First(M, p, n)) \in Nat
         /\ Cardinality(U) <= Cardinality(Behind(M, p, U, n)) + Cardinality(M \ First(M, p, n))
<1> DEFINE B == Behind(M, p, U, n)
           R == M \ First(M, p, n)
<1>1. IsFiniteSet(M) /\ B \in SUBSET M /\ R \in SUBSET M
  BY DEF Listing, Behind
<1>2. U \subseteq KeysOf(B) \union KeysOf(R)
  <2>1. ASSUME NEW k \in U PROVE k \in KeysOf(B) \union KeysOf(R)
    <3>1. PICK r \in M : r.key = k
      BY <2>1 DEF KeysOf
    <3>2. r \in B \/ r \in R
      BY <2>1, <3>1 DEF Behind, First
    <3> HIDE DEF B, R
    <3>3. QED
      BY <3>1, <3>2 DEF KeysOf
  <2>2. QED
    BY <2>1
<1>3. /\ \A r, s \in B : r.key = s.key => r = s
      /\ \A r, s \in R : r.key = s.key => r = s
  BY <1>1
<1> HIDE DEF B, R
<1>4. IsFiniteSet(B) /\ IsFiniteSet(R)
  BY <1>1, FS_Subset
<1>5. /\ IsFiniteSet(KeysOf(B)) /\ Cardinality(KeysOf(B)) = Cardinality(B)
      /\ IsFiniteSet(KeysOf(R)) /\ Cardinality(KeysOf(R)) = Cardinality(R)
  BY <1>3, <1>4, KeysCardinality
<1> DEFINE A == KeysOf(B)
           C == KeysOf(R)
<1>6. /\ IsFiniteSet(A) /\ IsFiniteSet(C) /\ U \in SUBSET (A \union C)
      /\ Cardinality(A) = Cardinality(B) /\ Cardinality(C) = Cardinality(R)
  BY <1>2, <1>5
<1> HIDE DEF A, C
<1>7. /\ IsFiniteSet(A \union C) /\ IsFiniteSet(A \cap C)
      /\ Cardinality(A \union C) = Cardinality(A) + Cardinality(C) - Cardinality(A \cap C)
  BY ONLY <1>6, FS_Union, FS_Intersection
<1>8. IsFiniteSet(U) /\ Cardinality(U) <= Cardinality(A \union C)
  BY ONLY <1>6, <1>7, FS_Subset
<1>9. /\ Cardinality(A) \in Nat /\ Cardinality(C) \in Nat /\ Cardinality(U) \in Nat
      /\ Cardinality(A \cap C) \in Nat
  BY ONLY <1>6, <1>7, <1>8, FS_CardinalityType
<1>10. /\ Cardinality(U) \in Nat /\ Cardinality(B) \in Nat /\ Cardinality(R) \in Nat
       /\ Cardinality(U) <= Cardinality(B) + Cardinality(R)
  BY ONLY <1>6, <1>7, <1>8, <1>9
<1>11. QED
  BY ONLY <1>10 DEF B, R

LEMMA StartsWalk ==
  ASSUME WalkInv, NEW s \in Scopes, NEW p \in Plans, NEW n \in PageLimits,
         NEW stop \in {"short", "total"}, StartWalk(s, p, n, stop)
  PROVE  WalkInv'
<1>1. /\ rows' = rows /\ walk' \in Walks /\ walk'.pc = "asking" /\ walk'.offset = 0
      /\ walk'.seen = {} /\ walk'.stable = {} /\ walk'.repeats = 0 /\ walk'.inserted = 0
      /\ walk'.deleted = 0
  BY DEF StartWalk, Walks
<1>2. SeenAhead' = {} /\ UnseenBehind' = {}
  BY <1>1 DEF SeenAhead, UnseenBehind
<1>3. WalkDebts'
  BY <1>1, <1>2, FS_EmptySet DEF WalkDebts
<1>4. QED
  BY <1>1, <1>3 DEF WalkInv, RowidsDistinct

\* COUNT(*) sees the rows as they are: nothing has slipped in behind it yet.
LEMMA CountsRows == ASSUME WalkInv, CountUploads PROVE WalkInv'
<1> DEFINE N == Cardinality(Matching(walk.scope))
<1>1. walk \in Walks /\ WalkDebts /\ rows' = rows
  BY DEF WalkInv, CountUploads
<1>2. N \in Nat
  <2>1. IsFiniteSet(rows) /\ Matching(walk.scope) \in SUBSET rows
    BY DEF WalkInv, Matching
  <2>2. IsFiniteSet(Matching(walk.scope))
    BY <2>1, FS_Subset
  <2>3. QED
    BY <2>2, FS_CardinalityType
<1>3. walk' = [walk EXCEPT !.pc = "counted", !.slipped = 0, !.total = N]
  BY DEF CountUploads
<1> HIDE DEF N
<1>4. /\ walk' \in Walks /\ walk'.pc = "counted" /\ walk'.scope = walk.scope
      /\ walk'.plan = walk.plan /\ walk'.offset = walk.offset /\ walk'.seen = walk.seen
      /\ walk'.stable = walk.stable /\ walk'.repeats = walk.repeats
      /\ walk'.inserted = walk.inserted /\ walk'.deleted = walk.deleted
      /\ walk'.total = N /\ walk'.slipped = 0
  BY <1>1, <1>2, <1>3 DEF Walks
<1>5. Matching(walk.scope)' = Matching(walk.scope)
  BY <1>1, <1>4 DEF Matching
<1>6. SeenAhead' = SeenAhead /\ UnseenBehind' = UnseenBehind
  BY <1>4, <1>5, Debts, DebtsAfter
<1>7. Cardinality(Matching(walk.scope)') <= walk'.total + walk'.slipped
  BY <1>2, <1>4, <1>5 DEF N
<1>8. WalkDebts'
  BY <1>1, <1>4, <1>5, <1>6, <1>7 DEF WalkDebts
<1>9. QED
  BY <1>1, <1>4, <1>8 DEF WalkInv, RowidsDistinct

\* A client that asks again after a crash keeps what it has been shown.
LEMMA AsksAgain == ASSUME WalkInv, Crash PROVE WalkInv'
<1>1. rows' = rows
  BY DEF Crash
<1>2. CASE walk.pc # "counted"
  <2>1. walk' = walk
    BY <1>2 DEF Crash
  <2>2. QED
    BY <1>1, <2>1, WalkUntouched
<1>3. CASE walk.pc = "counted"
  <2>1. walk \in Walks /\ WalkDebts /\ walk' = [walk EXCEPT !.pc = "asking"]
    BY <1>3 DEF WalkInv, Crash
  <2>2. /\ walk' \in Walks /\ walk'.pc = "asking" /\ walk'.scope = walk.scope
        /\ walk'.plan = walk.plan /\ walk'.offset = walk.offset /\ walk'.seen = walk.seen
        /\ walk'.stable = walk.stable /\ walk'.repeats = walk.repeats
        /\ walk'.inserted = walk.inserted /\ walk'.deleted = walk.deleted
    BY <2>1 DEF Walks
  <2>3. Matching(walk.scope)' = Matching(walk.scope)
    BY <1>1, <2>2 DEF Matching
  <2>4. SeenAhead' = SeenAhead /\ UnseenBehind' = UnseenBehind
    BY <2>2, <2>3, Debts, DebtsAfter
  <2>5. WalkDebts'
    BY <2>1, <2>2, <2>3, <2>4 DEF WalkDebts
  <2>6. QED
    BY <1>1, <2>2, <2>5 DEF WalkInv, RowidsDistinct
<1>4. QED
  BY <1>2, <1>3
\* A page pays its repeats out of the rows seen ahead; what a last page leaves
\* unseen is behind the client, or slipped in after the count it stops at.
LEMMA TakesPage == ASSUME TableInv, WalkInv, SelectUploads PROVE WalkInv'
<1> DEFINE M == Matching(walk.scope)
           p == walk.plan
           o == walk.offset
           l == walk.limit
           n == o + l
           page == Page(walk.scope, p, o, l)
           K == walk.seen
           U == IF o = 0 THEN KeysOf(M) ELSE walk.stable
           again == Cardinality(page \intersect K)
           rest == M \ First(M, p, n)
           last == IF walk.stop = "short" THEN Cardinality(page) < l ELSE n >= walk.total
<1>1. walk \in Walks /\ WalkDebts /\ walk.pc = "counted" /\ rows' = rows
  BY DEF WalkInv, SelectUploads
<1>2. /\ o \in Nat /\ l \in Nat /\ l > 0 /\ n \in Nat /\ n > 0
      /\ walk.repeats \in Nat /\ walk.inserted \in Nat /\ walk.deleted \in Nat
      /\ walk.total \in Nat /\ walk.slipped \in Nat
  <2>1. /\ o \in Nat /\ l \in PageLimits
        /\ walk.repeats \in Nat /\ walk.inserted \in Nat /\ walk.deleted \in Nat
        /\ walk.total \in Nat /\ walk.slipped \in Nat
    BY <1>1 DEF Walks
  <2>2. l \in Nat /\ l > 0
    <3> HIDE DEF l
    <3>1. l \in Nat \ {0}
      BY <2>1, ListingAssumption
    <3>2. QED
      BY <3>1
  <2>3. QED
    BY <2>1, <2>2
<1>3. Listing(M) /\ \A r, s \in M : r.key = s.key => r = s
  <2>1. M \in SUBSET rows /\ IsFiniteSet(rows)
    BY DEF Matching, WalkInv
  <2>2. /\ rows \in SUBSET Row /\ \A s, t \in rows : s.key = t.key => s = t
        /\ \A s, t \in rows : s.id = t.id => s = t
    BY DEF TableInv, TypeOK, WalkInv, RowidsDistinct
  <2> HIDE DEF M
  <2>3. QED
    BY <2>1, <2>2, TableListing
<1>4. page = KeysOf(Shown(M, p, o, l))
  BY DEF Page, Position, Shown, Rank, Before
<1>5. U \in SUBSET KeysOf(M) /\ KeysOf(M) \in SUBSET Keys /\ page \in SUBSET Keys
  <2>1. U \in SUBSET KeysOf(M)
    BY <1>1 DEF WalkDebts
  <2>2. \A r \in rows : r.key \in Keys
    BY DEF TableInv, TypeOK, Row
  <2>3. QED
    BY <2>1, <2>2 DEF KeysOf, Matching, Page
<1>6. /\ SeenAhead = Ahead(M, p, K, o)
      /\ Behind(M, p, U \ K, o) = IF o = 0 THEN {} ELSE UnseenBehind
  <2>1. SeenAhead = Ahead(M, p, K, o) /\ UnseenBehind = Behind(M, p, walk.stable \ K, o)
    BY Debts
  <2>2. o = 0 => Behind(M, p, U \ K, o) = {}
    <3> HIDE DEF M, p, U, K
    <3>1. \A r : Rank(M, p, r) \in Nat
      BY <1>3, RankType
    <3>2. \A r : ~(Rank(M, p, r) < 0)
      BY <3>1
    <3>3. QED
      BY <3>2 DEF Behind
  <2>3. QED
    BY <2>1, <2>2
<1>7. /\ again \in Nat /\ Cardinality(Ahead(M, p, K \union page, n)) \in Nat
      /\ walk.repeats + again + Cardinality(Ahead(M, p, K \union page, n)) <= walk.inserted
  <2>1. walk.repeats + Cardinality(SeenAhead) <= walk.inserted
    BY <1>1 DEF WalkDebts
  <2> HIDE DEF M, p, o, l, page, K, U
  <2>2. /\ Cardinality(SeenAhead) \in Nat /\ again \in Nat
        /\ Cardinality(Ahead(M, p, K \union page, n)) \in Nat
        /\ again + Cardinality(Ahead(M, p, K \union page, n)) = Cardinality(SeenAhead)
    <3>1. o \in Nat /\ l \in Nat /\ n = o + l /\ SeenAhead = Ahead(M, p, K, o)
      BY <1>2, <1>6
    <3> HIDE DEF n
    <3>2. QED
      BY ONLY <1>3, <1>4, <3>1, PageRepeats DEF again
  <2> HIDE DEF again, n
  <2>3. QED
    BY <1>2, <2>1, <2>2
<1>8. /\ Cardinality(Behind(M, p, U \ (K \union page), n)) \in Nat
      /\ Cardinality(Behind(M, p, U \ (K \union page), n)) <= walk.deleted
  <2>1. Cardinality(IF o = 0 THEN {} ELSE UnseenBehind) <= walk.deleted
    <3>1. Cardinality({}) = 0
      BY FS_EmptySet
    <3>2. Cardinality(UnseenBehind) <= walk.deleted
      BY <1>1 DEF WalkDebts
    <3>3. QED
      BY <1>2, <3>1, <3>2
  <2> HIDE DEF M, p, o, l, page, K, U
  <2>2. /\ Cardinality(Behind(M, p, U \ K, o)) \in Nat
        /\ Cardinality(Behind(M, p, U \ (K \union page), n)) \in Nat
        /\ Cardinality(Behind(M, p, U \ (K \union page), n))
             <= Cardinality(Behind(M, p, U \ K, o))
    BY <1>2, <1>3, <1>4, PageMisses
  <2> HIDE DEF n
  <2>3. QED
    BY <1>2, <1>6, <2>1, <2>2
\* A short page ends the listing; the total is behind it by what slipped in.
<1>9. ASSUME last
      PROVE  Cardinality(U \ (K \union page))
               <= walk.deleted + (IF walk.stop = "total" THEN walk.slipped ELSE 0)
  <2>1. Cardinality(M) <= walk.total + walk.slipped
    BY <1>1 DEF WalkDebts
  <2>2. walk.stop \in {"short", "total"}
    BY <1>1 DEF Walks
  <2> HIDE DEF M, p, o, l, page, K, U
  <2>3. /\ Cardinality(rest) \in Nat /\ Cardinality(M) \in Nat
        /\ rest # {} => Cardinality(rest) = Cardinality(M) - n
    BY <1>2, <1>3, RowsAfter
  <2>4. rest = {} => Cardinality(rest) = 0
    BY FS_EmptySet
  <2>5. CASE walk.stop = "short"
    <3>1. ASSUME NEW x \in rest PROVE FALSE
      <4>1. x \in M /\ Rank(M, p, x) \in Nat /\ ~(Rank(M, p, x) < n)
        BY <1>3, RankType DEF First
      <4>2. Rank(M, p, x) >= o + l
        BY <1>2, <4>1
      <4>3. Cardinality(page) = l
        BY <1>2, <1>3, <1>4, <4>1, <4>2, FullPage
      <4>4. QED
        BY <1>2, <1>9, <2>5, <4>3
    <3>2. Cardinality(rest) = 0
      BY <2>4, <3>1
    <3>3. (U \ (K \union page)) \in SUBSET KeysOf(M)
      BY <1>5
    <3> HIDE DEF n, rest
    <3>4. /\ Cardinality(U \ (K \union page)) \in Nat
          /\ Cardinality(U \ (K \union page))
               <= Cardinality(Behind(M, p, U \ (K \union page), n)) + Cardinality(rest)
      BY <1>2, <1>3, <3>3, MissedRows DEF rest
    <3>5. QED
      BY <1>2, <1>8, <2>5, <3>2, <3>4
  <2>6. CASE walk.stop = "total"
    <3>1. Cardinality(rest) <= walk.slipped
      BY <1>2, <1>9, <2>1, <2>3, <2>4, <2>6
    <3>3. (U \ (K \union page)) \in SUBSET KeysOf(M)
      BY <1>5
    <3> HIDE DEF n, rest
    <3>4. /\ Cardinality(U \ (K \union page)) \in Nat
          /\ Cardinality(U \ (K \union page))
               <= Cardinality(Behind(M, p, U \ (K \union page), n)) + Cardinality(rest)
      BY <1>2, <1>3, <3>3, MissedRows DEF rest
    <3>5. QED
      BY <1>2, <1>8, <2>3, <2>6, <3>1, <3>4
  <2>7. QED
    BY <2>2, <2>5, <2>6
<1>10. /\ walk' \in Walks /\ walk'.pc = IF last THEN "done" ELSE "asking"
       /\ walk'.scope = walk.scope /\ walk'.plan = p /\ walk'.stop = walk.stop
       /\ walk'.offset = n /\ walk'.stable = U /\ walk'.seen = K \union page
       /\ walk'.repeats = walk.repeats + again /\ walk'.inserted = walk.inserted
       /\ walk'.deleted = walk.deleted /\ walk'.slipped = walk.slipped
  <2> DEFINE pc == IF last THEN "done" ELSE "asking"
             seen == K \union page
             times == walk.repeats + again
  <2>1. walk' = [walk EXCEPT !.pc = pc, !.offset = n, !.stable = U, !.seen = seen,
                             !.repeats = times]
    BY DEF SelectUploads, TakePage
  <2>2. /\ pc \in {"asking", "done"} /\ n \in Nat /\ U \in SUBSET Keys
        /\ seen \in SUBSET Keys /\ times \in Nat
    <3>1. K \in SUBSET Keys
      BY <1>1 DEF Walks
    <3> HIDE DEF page, K, U, again
    <3>2. QED
      BY <1>2, <1>5, <1>7, <3>1
  <2> HIDE DEF pc, n, U, seen, times
  <2>3. /\ walk' \in Walks /\ walk'.pc = pc
        /\ walk'.scope = walk.scope /\ walk'.plan = walk.plan /\ walk'.stop = walk.stop
        /\ walk'.offset = n /\ walk'.stable = U /\ walk'.seen = seen
        /\ walk'.repeats = times /\ walk'.inserted = walk.inserted
        /\ walk'.deleted = walk.deleted /\ walk'.slipped = walk.slipped
    BY <1>1, <2>1, <2>2 DEF Walks
  <2>4. QED
    BY <2>3 DEF pc, seen, times
<1> HIDE DEF last, again, U, K, page, n
<1>11. Matching(walk.scope)' = M
  BY <1>1, <1>10 DEF Matching
<1>12. /\ SeenAhead' = Ahead(M, p, K \union page, n)
       /\ UnseenBehind' = Behind(M, p, U \ (K \union page), n)
  <2> HIDE DEF M, p
  <2>1. QED
    BY <1>10, <1>11, DebtsAfter
<1> HIDE DEF M, p, o, l
<1>13. CASE last
  <2>1. walk'.pc = "done"
    BY <1>10, <1>13
  <2>2. WalkMissesBounded'
    BY <1>9, <1>10, <1>13 DEF WalkMissesBounded
  <2>3. walk'.repeats <= walk'.inserted
    BY <1>2, <1>7, <1>10
  <2>4. WalkRepeatsBounded'
    BY <2>3 DEF WalkRepeatsBounded
  <2>5. QED
    BY <1>1, <1>10, <2>1, <2>2, <2>4 DEF WalkInv, RowidsDistinct
<1>14. CASE ~last
  <2>1. walk'.pc = "asking"
    BY <1>10, <1>14
  <2>2. walk'.stable \subseteq KeysOf(Matching(walk.scope)')
    BY <1>5, <1>10, <1>11
  <2>3. walk'.repeats + Cardinality(SeenAhead') <= walk'.inserted
    BY <1>7, <1>10, <1>12
  <2>4. Cardinality(UnseenBehind') <= walk'.deleted
    BY <1>8, <1>10, <1>12
  <2>5. walk'.offset # 0
    BY <1>2, <1>10
  <2>6. WalkDebts'
    BY <2>1, <2>2, <2>3, <2>4, <2>5 DEF WalkDebts
  <2>7. QED
    BY <1>1, <1>10, <2>1, <2>6 DEF WalkInv, RowidsDistinct
<1>15. QED
  BY <1>13, <1>14-----------------------------------------------------------------------------
(* What a client of a listing may rely on. *)

\* Whatever the other handlers do between two pages, every step keeps the debts of
\* the walk within its tallies.
THEOREM WalkInvariant == Spec => []WalkInv
<1>1. Init => WalkInv
  <2>1. ASSUME Init PROVE rows = {} /\ walk.pc = "idle"
    BY <2>1 DEF Init
  <2>2. QED
    BY <2>1, FS_EmptySet DEF WalkInv, RowidsDistinct
<1>2. TableInv /\ TableInv' /\ WalkInv /\ [Next]_vars => WalkInv'
  <2> SUFFICES ASSUME TableInv, TableInv', WalkInv, [Next]_vars
               PROVE  WalkInv'
    OBVIOUS
  <2>1. CASE \E r \in Row : RecordUpload(r)
    BY <2>1, InsertWalk
  <2>2. ASSUME NEW k \in Keys, NEW o \in Owners, DeleteUpload(k, o) PROVE WalkInv'
    <3> DEFINE gone == {r \in rows : r.key = k /\ r.owner = o}
    <3>1. gone \in SUBSET rows /\ rows' = rows \ gone /\ NoteDelete(gone)
      BY <2>2 DEF DeleteUpload, Remove
    <3> HIDE DEF gone
    <3>2. QED
      BY <3>1, DeleteWalk
  <2>3. ASSUME NEW k \in Keys, DeleteUploadAny(k) PROVE WalkInv'
    <3> DEFINE gone == {r \in rows : r.key = k}
    <3>1. gone \in SUBSET rows /\ rows' = rows \ gone /\ NoteDelete(gone)
      BY <2>3 DEF DeleteUploadAny, Remove
    <3> HIDE DEF gone
    <3>2. QED
      BY <3>1, DeleteWalk
  <2>4. ASSUME NEW w \in Wipers, WipeCommit(w) PROVE WalkInv'
    <3> DEFINE gone == Matching(wipe[w].scope)
    <3>1. gone \in SUBSET rows /\ rows' = rows \ gone /\ NoteDelete(gone)
      BY <2>4 DEF WipeCommit, Matching
    <3> HIDE DEF gone
    <3>2. QED
      BY <3>1, DeleteWalk
  <2>5. CASE OtherCommit
    BY <2>5, WalkUntouched DEF OtherCommit
  <2>6. ASSUME NEW w \in Wipers,
               \/ \E s \in Scopes : WipeBegin(w, s)
               \/ WipeSelect(w) \/ WipeDelete(w) \/ WipeRollback(w) \/ WipeReturn(w)
        PROVE  WalkInv'
    BY <2>6, WalkUntouched DEF WipeBegin, WipeSelect, WipeDelete, WipeRollback, WipeReturn
  <2>7. CASE \E s \in Scopes, p \in Plans, n \in PageLimits, stop \in {"short", "total"} :
               StartWalk(s, p, n, stop)
    BY <2>7, StartsWalk
  <2>8. CASE CountUploads
    BY <2>8, CountsRows
  <2>9. CASE SelectUploads
    BY <2>9, TakesPage
  <2>10. CASE Crash
    BY <2>10, AsksAgain
  <2>11. CASE UNCHANGED vars
    BY <2>11, WalkUntouched DEF vars
  <2>12. QED
    BY <2>1, <2>2, <2>3, <2>4, <2>5, <2>6, <2>7, <2>8, <2>9, <2>10, <2>11 DEF Next
<1>3. QED
  BY <1>1, <1>2, TableInvariant, PTL DEF Spec

\* A client that pages to the end of a listing misses a row that was there all
\* the time at most once per row removed behind it, and per row inserted since the
\* count it stops at: OFFSET skips no more rows than the table gave up.
THEOREM MissesBounded == Spec => []WalkMissesBounded
<1>1. WalkInv => WalkMissesBounded
  BY DEF WalkInv, WalkMissesBounded
<1>2. QED
  BY <1>1, WalkInvariant, PTL

\* It is shown a row again at most once per row inserted since its first page.
THEOREM RepeatsBounded == Spec => []WalkRepeatsBounded
<1>1. ASSUME WalkInv, walk.pc \in {"asking", "counted"} PROVE walk.repeats <= walk.inserted
  <2>1. walk \in Walks /\ WalkDebts
    BY <1>1 DEF WalkInv
  <2>2. walk.repeats \in Nat /\ walk.inserted \in Nat
    BY <2>1 DEF Walks
  <2>3. IsFiniteSet(SeenAhead)
    <3>1. IsFiniteSet(rows) /\ SeenAhead \in SUBSET rows
      BY <1>1 DEF WalkInv, SeenAhead, Matching
    <3>2. QED
      BY ONLY <3>1, FS_Subset
  <2>4. Cardinality(SeenAhead) \in Nat
    BY <2>3, FS_CardinalityType
  <2>5. walk.repeats + Cardinality(SeenAhead) <= walk.inserted
    BY <2>1 DEF WalkDebts
  <2>6. QED
    BY <2>2, <2>4, <2>5
<1>2. WalkInv => WalkRepeatsBounded
  BY <1>1 DEF WalkInv, WalkRepeatsBounded
<1>3. QED
  BY <1>2, WalkInvariant, PTL
=============================================================================
