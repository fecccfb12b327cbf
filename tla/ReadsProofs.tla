---------------------------- MODULE ReadsProofs ----------------------------
(* Proofs about Reads, for any table, page, family of jobs and bound: a      *)
(* listing walked by its cursor lists in order and once what was there all   *)
(* along, the finish feed's cursor passes no finish that committed in time,  *)
(* and a tree that is not said to be truncated has every descendant.         *)
EXTENDS Reads, FiniteSetTheorems, NaturalsInduction, WellFoundedInduction, TLAPS

----------------------------------------------------------------------------
(* The order of the rows. *)

Timed(a) == a.at \in Int /\ a.id \in Int
AllTimed(S) == \A a \in S : Timed(a)
Level(a, b) == a.at = b.at /\ a.id = b.id

\* No two keys of a set are level.
Apart(S) == \A a, b \in S : Level(a, b) => a = b

\* The order of a listing is strict, transitive and total but for level keys.
LEMMA BeforeOrder ==
    ASSUME NEW down, NEW a, NEW b, NEW c, Timed(a), Timed(b), Timed(c)
    PROVE  /\ Before(down, a, b) => ~Before(down, b, a) /\ ~Level(a, b)
           /\ Before(down, a, b) /\ ~Before(down, c, b) => Before(down, a, c)
           /\ ~Before(down, b, a) /\ Before(down, b, c) => Before(down, a, c)
           /\ Before(down, a, b) \/ Before(down, b, a) \/ Level(a, b)
           /\ Level(a, b) => ~Before(down, a, b)
           /\ Level(a, b) => (Before(down, c, a) <=> Before(down, c, b))
BY DEF Before, Earlier, Timed, Level

LEMMA LeastNat ==
    ASSUME NEW S \in SUBSET Nat, S # {}
    PROVE  \E x \in S : \A y \in S : x <= y
<1>1. PICK x \in S : \A y \in S : ~(<<y, x>> \in OpToRel(<, Nat))
  BY NatLessThanWellFounded, WFMin, Zenon
<1>2. ASSUME NEW y \in S PROVE x <= y
  <2>1. ~(y < x)
    BY <1>1 DEF OpToRel
  <2> QED
    BY <2>1
<1> QED
  BY <1>2

LEMMA CardType ==
    ASSUME NEW S, IsFiniteSet(S)
    PROVE  Cardinality(S) \in Nat /\ (Cardinality(S) = 0 <=> S = {})
BY FS_CardinalityType, FS_EmptySet

LEMMA SubsetCard ==
    ASSUME NEW S, IsFiniteSet(S), NEW T \in SUBSET S
    PROVE  /\ IsFiniteSet(T) /\ Cardinality(T) \in Nat /\ Cardinality(S) \in Nat
           /\ Cardinality(T) <= Cardinality(S)
           /\ T # S => Cardinality(T) < Cardinality(S)
<1>1. IsFiniteSet(T) /\ Cardinality(T) <= Cardinality(S) /\ (Cardinality(S) = Cardinality(T) => S = T)
  BY FS_Subset
<1>2. Cardinality(T) \in Nat /\ Cardinality(S) \in Nat
  BY <1>1, CardType
<1> QED
  BY <1>1, <1>2

\* What holds of a set of keys holds of its parts.
LEMMA PartOf ==
    ASSUME NEW S, IsFiniteSet(S), AllTimed(S), NEW T \in SUBSET S
    PROVE  IsFiniteSet(T) /\ AllTimed(T) /\ (Apart(S) => Apart(T))
<1>1. IsFiniteSet(T)
  BY FS_Subset
<1>2. AllTimed(T)
  BY DEF AllTimed
<1>3. Apart(S) => Apart(T)
  BY DEF Apart
<1> QED
  BY <1>1, <1>2, <1>3

\* The keys of a set before one.
Ahead(S, down, k) == {m \in S : Before(down, m, k)}

LEMMA AheadCard ==
    ASSUME NEW S, IsFiniteSet(S), NEW down, NEW k
    PROVE  /\ Ahead(S, down, k) \in SUBSET S /\ IsFiniteSet(Ahead(S, down, k))
           /\ Cardinality(Ahead(S, down, k)) \in Nat
<1>1. Ahead(S, down, k) \in SUBSET S
  BY DEF Ahead
<1> QED
  BY <1>1, SubsetCard

\* What is ahead of a key is fewer than what is ahead of one behind it.
LEMMA AheadGrows ==
    ASSUME NEW S, IsFiniteSet(S), AllTimed(S), NEW down, NEW j, NEW k, Timed(j), Timed(k),
           ~Before(down, k, j)
    PROVE  /\ Cardinality(Ahead(S, down, j)) <= Cardinality(Ahead(S, down, k))
           /\ j \in S /\ Before(down, j, k) => Cardinality(Ahead(S, down, j)) < Cardinality(Ahead(S, down, k))
<1>1. Ahead(S, down, j) \in SUBSET Ahead(S, down, k)
  <2>1. SUFFICES ASSUME NEW m \in S, Before(down, m, j) PROVE Before(down, m, k)
    BY DEF Ahead
  <2>2. Timed(m)
    BY DEF AllTimed
  <2> QED
    BY <2>1, <2>2, BeforeOrder
<1>2. IsFiniteSet(Ahead(S, down, k))
  BY AheadCard
<1>3. ASSUME j \in S, Before(down, j, k) PROVE Ahead(S, down, j) # Ahead(S, down, k)
  <2>1. j \in Ahead(S, down, k)
    BY <1>3 DEF Ahead
  <2>2. ~Before(down, j, j)
    BY BeforeOrder
  <2> QED
    BY <2>1, <2>2 DEF Ahead
<1>4. Cardinality(Ahead(S, down, j)) <= Cardinality(Ahead(S, down, k))
  BY <1>1, <1>2, SubsetCard
<1> QED
  BY <1>1, <1>2, <1>3, <1>4, SubsetCard

\* A finite set that is not empty has a first key and a last one.
LEMMA LeastKey ==
    ASSUME NEW S, IsFiniteSet(S), AllTimed(S), S # {}, NEW down
    PROVE  \E k \in S : \A m \in S : ~Before(down, m, k)
<1> DEFINE C == {Cardinality(Ahead(S, down, k)) : k \in S}
<1>1. C \in SUBSET Nat /\ C # {}
  BY AheadCard
<1>2. PICK c \in C : \A d \in C : c <= d
  BY <1>1, LeastNat
<1>3. PICK k \in S : c = Cardinality(Ahead(S, down, k))
  BY <1>2
<1>4. ASSUME NEW m \in S, Before(down, m, k) PROVE FALSE
  <2>1. Timed(m) /\ Timed(k)
    BY DEF AllTimed
  <2>2. ~Before(down, k, m)
    BY <1>4, <2>1, BeforeOrder
  <2>3. Cardinality(Ahead(S, down, m)) < Cardinality(Ahead(S, down, k))
    BY <1>4, <2>1, <2>2, AheadGrows
  <2>4. c <= Cardinality(Ahead(S, down, m))
    BY <1>2
  <2>5. Cardinality(Ahead(S, down, m)) \in Nat /\ c \in Nat
    BY <1>3, AheadCard
  <2> QED
    BY <1>3, <2>3, <2>4, <2>5
<1> QED
  BY <1>4

LEMMA FinalKey ==
    ASSUME NEW S, IsFiniteSet(S), AllTimed(S), S # {}, NEW down \in BOOLEAN
    PROVE  Final(S, down) \in S /\ \A m \in S : ~Before(down, Final(S, down), m)
<1>1. PICK k \in S : \A m \in S : ~Before(~down, m, k)
  BY LeastKey
<1>2. \A m \in S : ~Before(down, k, m)
  BY <1>1 DEF Before
<1> QED
  BY <1>2 DEF Final

----------------------------------------------------------------------------
(* The first n of a set. *)

LEMMA FirstPart ==
    ASSUME NEW S, IsFiniteSet(S), NEW n, NEW down
    PROVE  First(S, n, down) \in SUBSET S /\ IsFiniteSet(First(S, n, down))
<1>1. First(S, n, down) \in SUBSET S
  BY DEF First
<1> QED
  BY <1>1, SubsetCard

LEMMA InFirst ==
    ASSUME NEW S, NEW n, NEW down, NEW k \in S
    PROVE  k \in First(S, n, down) <=> Cardinality(Ahead(S, down, k)) < n
BY DEF First, Ahead

\* What is not behind one of the first n has fewer than n ahead of it.
LEMMA FirstBound ==
    ASSUME NEW S, IsFiniteSet(S), AllTimed(S), NEW n \in Nat, NEW down, NEW z \in First(S, n, down),
           NEW x, Timed(x), ~Before(down, z, x)
    PROVE  Cardinality(Ahead(S, down, x)) < n
<1>1. z \in S /\ Timed(z)
  BY DEF First, AllTimed
<1>2. Cardinality(Ahead(S, down, z)) < n
  BY <1>1, InFirst
<1>3. Cardinality(Ahead(S, down, x)) <= Cardinality(Ahead(S, down, z))
  BY <1>1, AheadGrows
<1>4. Cardinality(Ahead(S, down, x)) \in Nat /\ Cardinality(Ahead(S, down, z)) \in Nat
  BY AheadCard
<1> QED
  BY <1>2, <1>3, <1>4

LEMMA FirstDown ==
    ASSUME NEW S, IsFiniteSet(S), AllTimed(S), NEW n \in Nat, NEW down, NEW z \in First(S, n, down),
           NEW x \in S, ~Before(down, z, x)
    PROVE  x \in First(S, n, down)
<1>1. Timed(x)
  BY DEF AllTimed
<1> QED
  BY <1>1, FirstBound, InFirst

\* What is left out is behind all the first n, and they are at least n.
LEMMA FirstLeaves ==
    ASSUME NEW S, IsFiniteSet(S), AllTimed(S), NEW n \in Nat, NEW down,
           NEW x \in S \ First(S, n, down)
    PROVE  /\ \A m \in First(S, n, down) : Before(down, m, x)
           /\ Cardinality(First(S, n, down)) >= n
<1> DEFINE F == First(S, n, down)
           L == S \ F
<1>0. F \in SUBSET S /\ IsFiniteSet(F)
  BY FirstPart
<1>1. ASSUME NEW y \in L, NEW m \in F PROVE Before(down, m, y)
  <2>1. SUFFICES ASSUME ~Before(down, m, y) PROVE FALSE
    OBVIOUS
  <2>2. y \in F
    BY <2>1, FirstDown
  <2> QED
    BY <2>2
<1>2. IsFiniteSet(L) /\ AllTimed(L) /\ L # {}
  BY FS_Difference DEF AllTimed
<1>3. PICK y \in L : \A m \in L : ~Before(down, m, y)
  BY <1>2, LeastKey
<1>4. Ahead(S, down, y) \in SUBSET F
  BY <1>3 DEF Ahead
<1>5. Cardinality(Ahead(S, down, y)) <= Cardinality(F) /\ Cardinality(F) \in Nat
  BY <1>0, <1>4, SubsetCard
<1>6. ~(Cardinality(Ahead(S, down, y)) < n) /\ Cardinality(Ahead(S, down, y)) \in Nat
  BY InFirst, AheadCard
<1> QED
  BY <1>1, <1>5, <1>6

LEMMA FirstAll ==
    ASSUME NEW S, IsFiniteSet(S), AllTimed(S), NEW n \in Nat, NEW down, Cardinality(S) <= n
    PROVE  First(S, n, down) = S
<1>1. ASSUME NEW k \in S PROVE k \in First(S, n, down)
  <2>1. Ahead(S, down, k) \in SUBSET S
    BY DEF Ahead
  <2>2. k \notin Ahead(S, down, k)
    BY BeforeOrder DEF Ahead, AllTimed
  <2>3. Cardinality(Ahead(S, down, k)) < Cardinality(S)
    BY <2>1, <2>2, SubsetCard
  <2>4. Cardinality(Ahead(S, down, k)) \in Nat /\ Cardinality(S) \in Nat
    BY AheadCard, CardType
  <2> QED
    BY <2>3, <2>4, InFirst
<1> QED
  BY <1>1, FirstPart

LEMMA FirstSome ==
    ASSUME NEW S, IsFiniteSet(S), AllTimed(S), S # {}, NEW n \in Nat \ {0}, NEW down
    PROVE  First(S, n, down) # {}
<1>1. PICK k \in S : \A m \in S : ~Before(down, m, k)
  BY LeastKey
<1>2. Ahead(S, down, k) = {}
  BY <1>1 DEF Ahead
<1>3. Cardinality(Ahead(S, down, k)) = 0
  BY <1>2, FS_EmptySet
<1> QED
  BY <1>3, InFirst

\* No more than n, if no two of them are level.
LEMMA FirstAtMost ==
    ASSUME NEW S, IsFiniteSet(S), AllTimed(S), Apart(S), NEW n \in Nat, NEW down \in BOOLEAN
    PROVE  Cardinality(First(S, n, down)) <= n
<1> DEFINE F == First(S, n, down)
<1>0. F \in SUBSET S /\ IsFiniteSet(F) /\ AllTimed(F)
  BY FirstPart DEF AllTimed
<1>1. CASE F = {}
  BY <1>1, FS_EmptySet
<1>2. CASE F # {}
  <2>1. PICK z \in F : \A m \in F : ~Before(down, z, m)
    BY <1>0, <1>2, FinalKey
  <2>2. ASSUME NEW m \in F \ {z} PROVE m \in Ahead(S, down, z)
    <3>1. Timed(m) /\ Timed(z) /\ m \in S /\ z \in S
      BY <1>0 DEF AllTimed
    <3>2. ~Level(m, z)
      BY <3>1 DEF Apart
    <3> QED
      BY <2>1, <3>1, <3>2, BeforeOrder DEF Ahead
  <2>3. F \ {z} \in SUBSET Ahead(S, down, z)
    BY <2>2
  <2>4. Cardinality(F \ {z}) <= Cardinality(Ahead(S, down, z))
    BY <2>3, AheadCard, SubsetCard
  <2>5. Cardinality(F \ {z}) = Cardinality(F) - 1
    BY <1>0, FS_RemoveElement
  <2>6. Cardinality(Ahead(S, down, z)) < n
    BY <1>0, InFirst
  <2>7. Cardinality(F) \in Nat /\ Cardinality(Ahead(S, down, z)) \in Nat
    BY <1>0, CardType, AheadCard
  <2> QED
    BY <2>4, <2>5, <2>6, <2>7
<1> QED
  BY <1>1, <1>2

----------------------------------------------------------------------------
(* What the caller was given. *)

Keys == [at : Int, id : Ids, stage : Nat]

RowsOf(pages) == UNION {{n} \X pages[n] : n \in DOMAIN pages}

Sorted(R, down) ==
    \A a, b \in R : \/ a[1] > b[1]
                    \/ a[1] = b[1] /\ (a = b \/ Before(down, b[2], a[2]))
                    \/ Before(down, a[2], b[2])

LEMMA KeysTimed ==
    ASSUME NEW S \in SUBSET Keys
    PROVE  AllTimed(S)
BY DEF AllTimed, Timed, Keys, Ids

LEMMA RowsType ==
    ASSUME NEW pages \in Seq(SUBSET Keys), NEW r \in RowsOf(pages)
    PROVE  /\ r[1] \in 1..Len(pages) /\ r[2] \in pages[r[1]] /\ r = <<r[1], r[2]>>
           /\ r[2] \in Keys /\ Timed(r[2]) /\ r[2].id \in Ids
<1>1. PICK n \in DOMAIN pages : r \in {n} \X pages[n]
  BY DEF RowsOf
<1>2. pages[n] \in SUBSET Keys /\ n \in 1..Len(pages)
  OBVIOUS
<1>3. r[1] = n /\ r[2] \in pages[n] /\ r = <<r[1], r[2]>>
  BY <1>1
<1>4. r[2] \in Keys
  BY <1>2, <1>3
<1> QED
  BY <1>2, <1>3, <1>4 DEF Keys, Timed, Ids

LEMMA GivenType ==
    ASSUME NEW pages \in Seq(SUBSET Keys), NEW page \in SUBSET Keys
    PROVE  Given(pages, page) \in Seq(SUBSET Keys)
BY DEF Given

LEMMA GivenRows ==
    ASSUME NEW pages \in Seq(SUBSET Keys), NEW page \in SUBSET Keys
    PROVE  RowsOf(Given(pages, page)) = RowsOf(pages) \cup ({Len(pages) + 1} \X page)
<1>1. CASE page = {}
  BY <1>1 DEF Given
<1>2. CASE page # {}
  <2> DEFINE P == Append(pages, page)
             n == Len(pages) + 1
  <2>1. P \in Seq(SUBSET Keys) /\ Len(P) = n /\ DOMAIN P = 1..n /\ DOMAIN pages = 1..Len(pages)
    OBVIOUS
  <2>2. P[n] = page /\ \A m \in 1..Len(pages) : P[m] = pages[m]
    OBVIOUS
  <2>3. Len(pages) \in Nat
    OBVIOUS
  <2>4. 1..n = (1..Len(pages)) \cup {n}
    BY <2>3
  <2> HIDE DEF P, n
  <2>5. RowsOf(P) = RowsOf(pages) \cup ({n} \X page)
    BY <2>1, <2>2, <2>4 DEF RowsOf
  <2> QED
    BY <1>2, <2>5 DEF Given, P, n
<1> QED
  BY <1>1, <1>2

\* A page whose keys are all behind what was given keeps it in order.
LEMMA SortedGiven ==
    ASSUME NEW pages \in Seq(SUBSET Keys), NEW page \in SUBSET Keys, NEW down,
           Sorted(RowsOf(pages), down), Apart(page),
           \A r \in RowsOf(pages), k \in page : Before(down, r[2], k)
    PROVE  Sorted(RowsOf(Given(pages, page)), down)
<1> DEFINE R == RowsOf(pages)
           n == Len(pages) + 1
           N == {n} \X page
<1>1. RowsOf(Given(pages, page)) = R \cup N
  BY GivenRows
<1>2. n \in Nat /\ \A r \in R : r[1] \in Nat /\ r[1] < n
  BY RowsType
<1>3. \A r \in N : r[1] = n /\ r[2] \in page /\ r = <<n, r[2]>>
  OBVIOUS
<1>4. ASSUME NEW a \in R \cup N, NEW b \in R \cup N
      PROVE  \/ a[1] > b[1]
             \/ a[1] = b[1] /\ (a = b \/ Before(down, b[2], a[2]))
             \/ Before(down, a[2], b[2])
  <2> HIDE DEF R, N, n
  <2>1. CASE a \in R /\ b \in R
    BY <2>1 DEF Sorted, R
  <2>2. CASE a \in R /\ b \in N
    BY <1>3, <2>2 DEF R
  <2>3. CASE a \in N /\ b \in R
    BY <1>2, <1>3, <2>3
  <2>4. CASE a \in N /\ b \in N
    <3>1. a[2] \in page /\ b[2] \in page /\ Timed(a[2]) /\ Timed(b[2])
      BY <1>3, <2>4, KeysTimed DEF AllTimed
    <3>2. CASE a[2] = b[2]
      BY <1>3, <2>4, <3>2
    <3>3. CASE a[2] # b[2]
      <4>1. ~Level(a[2], b[2])
        BY <3>1, <3>3 DEF Apart
      <4>2. Before(down, a[2], b[2]) \/ Before(down, b[2], a[2])
        BY <3>1, <4>1, BeforeOrder
      <4> QED
        BY <1>3, <2>4, <4>2
    <3> QED
      BY <3>2, <3>3
  <2> QED
    BY <2>1, <2>2, <2>3, <2>4
<1> QED
  BY <1>1, <1>4 DEF Sorted

\* In what is in order, a row given at one time only was given once.
LEMMA GivenOnce ==
    ASSUME NEW pages \in Seq(SUBSET Keys), NEW down, Sorted(RowsOf(pages), down), NEW i,
           \A a, b \in RowsOf(pages) : a[2].id = i /\ b[2].id = i => a[2].at = b[2].at
    PROVE  LET n == Cardinality({r \in RowsOf(pages) : r[2].id = i})
           IN IF \E r \in RowsOf(pages) : r[2].id = i THEN n = 1 ELSE n = 0
<1> DEFINE M == {r \in RowsOf(pages) : r[2].id = i}
<1>1. ASSUME NEW a \in RowsOf(pages), a[2].id = i PROVE M = {a}
  <2>1. ASSUME NEW b \in RowsOf(pages), b[2].id = i PROVE b = a
    <3>1. Level(a[2], b[2]) /\ Level(b[2], a[2])
      BY <1>1, <2>1 DEF Level
    <3>2. Timed(a[2]) /\ Timed(b[2]) /\ a[1] \in Nat /\ b[1] \in Nat
      BY RowsType
    <3>3. ~Before(down, a[2], b[2]) /\ ~Before(down, b[2], a[2])
      BY <3>1, <3>2, BeforeOrder
    <3>4. (a[1] > b[1] \/ (a[1] = b[1] /\ a = b)) /\ (b[1] > a[1] \/ (b[1] = a[1] /\ b = a))
      BY <3>3 DEF Sorted
    <3> QED
      BY <3>2, <3>4
  <2> QED
    BY <1>1, <2>1
<1>2. CASE \E r \in RowsOf(pages) : r[2].id = i
  BY <1>1, <1>2, FS_Singleton
<1>3. CASE ~\E r \in RowsOf(pages) : r[2].id = i
  <2>1. M = {}
    BY <1>3
  <2> QED
    BY <1>3, <2>1, FS_EmptySet
<1> QED
  BY <1>2, <1>3

----------------------------------------------------------------------------
(* The state. *)

States == Absent \cup Ended \cup Logged \cup {"waiting", "present", "open"}
RowRecord == [state : States, at : Int]
Cursors == [sort : Listings \cup {"none", "feed"}, at : Int, id : Nat]
Readers == [pc : {"read", "done"}, cursor : Cursors, page : SUBSET Keys, stage : Nat,
            pages : Seq(SUBSET Keys), since : Int, from : Cursors]

Shape ==
    /\ op \in Listings \cup {"tree", "feed"} /\ clock \in Int
    /\ rows \in [Ids -> RowRecord] /\ parent \in [Ids -> 0..MaxId]
    /\ reader \in Readers /\ steady \subseteq Ids

LEMMA Params ==
    /\ MaxId \in Nat \ {0} /\ 1 \in Ids /\ IsFiniteSet(Ids) /\ Ids \in SUBSET Nat
    /\ Limit \in Nat \ {0} /\ FeedLimit \in Nat \ {0} /\ ScanLimit \in Nat \ {0}
    /\ Nodes \in Nat \ {0} /\ Settle \in Nat \ {0} /\ MaxClock \in Nat /\ Wanted \in SUBSET Ids
<1>1. MaxId \in Nat \ {0}
  BY ReadsAssumption
<1>2. 1 \in Ids /\ Ids \in SUBSET Nat
  BY <1>1 DEF Ids
<1>3. IsFiniteSet(Ids)
  BY <1>1, FS_Interval DEF Ids
<1> QED
  BY <1>1, <1>2, <1>3, ReadsAssumption

LEMMA CursorTimed ==
    ASSUME NEW c \in Cursors
    PROVE  Timed(c)
BY DEF Cursors, Timed

LEMMA CursorAfterType ==
    ASSUME NEW k \in Keys, NEW o \in Listings \cup {"feed"}
    PROVE  /\ CursorAfter(o, k) \in Cursors /\ Level(CursorAfter(o, k), k)
           /\ CursorAfter(o, k).sort = o /\ o # "none"
<1>1. k.id \in Nat /\ k.at \in Int
  BY Params DEF Keys
<1>2. o # "none"
  BY DEF Listings, JobLists, JobSorts, Growing, Stamped
<1> QED
  BY <1>1, <1>2 DEF CursorAfter, Cursors, Level

\* Level with one of two, a key is in order with a third as the other is.
LEMMA LevelOrder ==
    ASSUME NEW down, NEW a, NEW b, NEW c, Level(a, b)
    PROVE  /\ Before(down, a, c) <=> Before(down, b, c)
           /\ Before(down, c, a) <=> Before(down, c, b)
BY DEF Level, Before, Earlier

LEMMA NoCursorType == NoCursor \in Cursors
BY DEF NoCursor, Cursors

LEMMA NewWalkType == NewWalk \in Readers
<1>1. <<>> \in Seq(SUBSET Keys)
  OBVIOUS
<1> QED
  BY <1>1, NoCursorType DEF NewWalk, Readers

\* Keys of different rows are finitely many, and apart.
LEMMA KeysById ==
    ASSUME NEW S \in SUBSET Keys, \A a, b \in S : a.id = b.id => a = b
    PROVE  IsFiniteSet(S) /\ Apart(S) /\ AllTimed(S)
<1>1. [k \in S |-> k.id] \in Injection(S, Ids)
  <2> DEFINE f == [k \in S |-> k.id]
  <2>1. f \in [S -> Ids]
    BY DEF Keys
  <2>2. \A a, b \in S : f[a] = f[b] => a = b
    OBVIOUS
  <2> QED
    BY <2>1, <2>2 DEF Injection, IsInjective
<1>2. IsFiniteSet(S)
  BY <1>1, Params, FS_Injection
<1> QED
  BY <1>2, KeysTimed DEF Apart, Level

\* A row changes, and nothing of the reader's.
Changed(i, row) ==
    /\ row \in RowRecord
    /\ rows' = [rows EXCEPT ![i] = row]
    /\ UNCHANGED <<op, clock, parent, reader, tree>>
    /\ steady' \in {steady, steady \ {i}}

LEMMA WriteChanges ==
    ASSUME Shape, NEW i \in Ids, NEW row \in RowRecord, Write(i, row)
    PROVE  Changed(i, row)
BY DEF Write, Changed

LEMMA RowType ==
    ASSUME NEW s \in States, NEW t \in Int
    PROVE  Row(s, t) \in RowRecord /\ Row(s, t).state = s /\ Row(s, t).at = t
BY DEF Row, RowRecord

LEMMA WritingChanges ==
    ASSUME Shape, NEW i \in Ids, Writing(i)
    PROVE  \E row \in RowRecord : Changed(i, row)
<1>1. clock \in Int /\ clock + 1 \in Int /\ clock - 1 \in Int /\ 0 \in Int /\ rows[i] \in RowRecord
  BY DEF Shape
<1>2. rows[i].at \in Int
  BY <1>1 DEF RowRecord
<1>3. {"waiting", "gone", "present", "open", "logged", "late", "bare", "succeeded", "discarded"} \subseteq States
  BY DEF States, Absent, Ended, Logged
<1>4. ASSUME NEW s \in States, NEW t \in Int, Write(i, Row(s, t)) PROVE \E row \in RowRecord : Changed(i, row)
  BY <1>4, RowType, WriteChanges
<1>5. CASE InsertJob(i)
  BY <1>1, <1>3, <1>4, <1>5 DEF InsertJob
<1>6. CASE RescheduleJob(i)
  BY <1>1, <1>3, <1>4, <1>6 DEF RescheduleJob
<1>7. CASE EndJob(i)
  BY <1>1, <1>3, <1>4, <1>7 DEF EndJob, Ended
<1>8. CASE RetryJob(i)
  BY <1>1, <1>3, <1>4, <1>8 DEF RetryJob
<1>9. CASE DeleteJob(i)
  BY <1>1, <1>3, <1>4, <1>9 DEF DeleteJob
<1>10. CASE AppendRow(i)
  BY <1>1, <1>3, <1>4, <1>10 DEF AppendRow
<1>11. CASE StampRow(i)
  BY <1>1, <1>3, <1>4, <1>11 DEF StampRow
<1>12. CASE PruneRow(i)
  BY <1>1, <1>3, <1>4, <1>12 DEF PruneRow
<1>13. CASE StampFinish(i)
  BY <1>1, <1>3, <1>4, <1>13 DEF StampFinish
<1>14. CASE FinalizeFails(i)
  BY <1>1, <1>3, <1>4, <1>14 DEF FinalizeFails
<1>15. CASE DeleteRun(i)
  BY <1>1, <1>2, <1>3, <1>4, <1>15 DEF DeleteRun
<1>16. CASE CommitFinish(i)
  <2> DEFINE s == IF clock - rows[i].at < Settle THEN "logged" ELSE "late"
             row == [rows[i] EXCEPT !.state = s]
  <2>1. row \in RowRecord
    BY <1>1, <1>3 DEF RowRecord
  <2>2. rows' = [rows EXCEPT ![i] = row]
    BY <1>16 DEF CommitFinish
  <2> QED
    BY <1>16, <2>1, <2>2 DEF CommitFinish, Changed
<1> QED
  BY <1>5, <1>6, <1>7, <1>8, <1>9, <1>10, <1>11, <1>12, <1>13, <1>14, <1>15, <1>16 DEF Writing

LEMMA ChangedShape ==
    ASSUME Shape, NEW i \in Ids, NEW row, Changed(i, row)
    PROVE  Shape'
BY DEF Shape, Changed

LEMMA ContentsType ==
    ASSUME NEW o \in Listings \cup {"tree", "feed"}
    PROVE  Contents(o) \subseteq RowRecord
<1>1. MaxClock \in Int /\ MaxClock - 1 \in Int /\ MaxClock - 2 \in Int /\ 0 \in Int
  BY Params
<1>2. {"none", "waiting", "present", "succeeded", "discarded"} \subseteq States
  BY DEF States, Absent, Ended
<1>3. \A s \in States, t \in Int : Row(s, t) \in RowRecord
  BY RowType
<1>4. EndedRows({"succeeded"}) \subseteq RowRecord
  BY <1>1, <1>2, <1>3 DEF EndedRows
<1> QED
  BY <1>1, <1>2, <1>3, <1>4 DEF Contents, Listings, JobLists, JobSorts, Growing, Stamped

----------------------------------------------------------------------------
(* The finish feed.  Where its cursor has come to is no later than the       *)
(* horizon, unless it is where the follower began, and what commits in time  *)
(* is stamped later than the horizon.                                        *)

\* A finish between where the follower began and a cursor.
Covered(from, c, k) == Earlier(from, k) /\ ~Earlier(c, k)

FeedCursor ==
    /\ reader.cursor.sort \in {"none", "feed"}
    /\ reader.cursor.sort = "none" => reader.from = NoCursor /\ RowsOf(reader.pages) = {}
    /\ reader.cursor.sort = "feed" =>
         reader.from.sort = "feed" /\ (Level(reader.cursor, reader.from) \/ reader.cursor.at <= Horizon)

FeedRows ==
    \A r \in RowsOf(reader.pages) :
        /\ ~Earlier(reader.cursor, r[2])
        /\ rows[r[2].id].at = r[2].at /\ rows[r[2].id].state \in Logged \cup {"gone"}

FeedPassed ==
    \A i \in Wanted :
        /\ rows[i].state = "logged" /\ reader.cursor.sort = "feed"
        /\ Covered(reader.from, reader.cursor, FeedKey(i))
        => \E r \in RowsOf(reader.pages) : r[2].id = i

FeedInv ==
    op = "feed" => FeedCursor /\ FeedRows /\ FeedPassed /\ Sorted(RowsOf(reader.pages), FALSE)

LEMMA FeedKeyType ==
    ASSUME Shape, NEW i \in Ids
    PROVE  FeedKey(i) \in Keys /\ FeedKey(i).id = i /\ FeedKey(i).at = rows[i].at /\ Timed(FeedKey(i))
<1>1. rows[i].at \in Int
  BY DEF Shape, RowRecord
<1>2. FeedKey(i) \in Keys
  BY <1>1 DEF FeedKey, Keys
<1> QED
  BY <1>2, KeysTimed DEF FeedKey, AllTimed, Timed, Keys, Ids

LEMMA FeedStartType ==
    ASSUME Shape, op = "feed", FeedInv
    PROVE  /\ FeedStart \in Cursors /\ FeedStart.sort = "feed"
           /\ reader.cursor.sort = "feed" => FeedStart = reader.cursor
           /\ \A r \in RowsOf(reader.pages) : ~Earlier(FeedStart, r[2])
<1>1. reader.cursor \in Cursors /\ reader.since \in Int /\ Horizon \in Int
  BY Params DEF Shape, Readers, Horizon
<1>2. FeedStart \in Cursors /\ FeedStart.sort = "feed"
  BY <1>1 DEF FeedStart, Cursors
<1>3. reader.cursor.sort = "feed" => FeedStart = reader.cursor
  BY DEF FeedStart
<1> QED
  BY <1>2, <1>3 DEF FeedInv, FeedCursor, FeedRows

LEMMA ScanType ==
    ASSUME Shape, NEW start \in Cursors
    PROVE  /\ ScanRange(start) \in SUBSET Keys /\ IsFiniteSet(ScanRange(start))
           /\ Apart(ScanRange(start)) /\ AllTimed(ScanRange(start))
           /\ \A k \in ScanRange(start) :
                /\ k.id \in Ids /\ rows[k.id].at = k.at /\ rows[k.id].state \in Logged
                /\ Earlier(start, k) /\ k.at <= Horizon
<1>1. \A k \in ScanRange(start) : \E i \in Ids : k = FeedKey(i) /\ rows[i].state \in Logged
  BY DEF ScanRange
<1>2. \A k \in ScanRange(start) :
        /\ k \in Keys /\ k.id \in Ids /\ k = FeedKey(k.id) /\ rows[k.id].at = k.at /\ rows[k.id].state \in Logged
  BY <1>1, FeedKeyType
<1>3. \A a, b \in ScanRange(start) : a.id = b.id => a = b
  BY <1>2
<1>4. ScanRange(start) \in SUBSET Keys
  BY <1>2
<1> QED
  BY <1>2, <1>3, <1>4, KeysById DEF ScanRange

\* A poll gives a page that is behind the cursor it started from, and its next
\* cursor covers nothing that is wanted and not on the page.
LEMMA PollCovers ==
    ASSUME Shape, NEW start \in Cursors, start.sort = "feed",
           NEW entries, entries = ScanFinishes(start), NEW page, page = Finishes(entries),
           NEW c, c = NextCursor(start, entries, page)
    PROVE  /\ page \in SUBSET ScanRange(start)
           /\ c \in Cursors /\ c.sort = "feed" /\ (c = start \/ c.at <= Horizon)
           /\ ~Earlier(c, start)
           /\ \A k \in page : ~Earlier(c, k)
           /\ \A i \in Wanted : rows[i].state = "logged" /\ Covered(start, c, FeedKey(i)) => FeedKey(i) \in page
<1> DEFINE S == ScanRange(start)
           W == {k \in entries : k.id \in Wanted /\ rows[k.id].state # "bare"}
<1>1. /\ S \in SUBSET Keys /\ IsFiniteSet(S) /\ Apart(S) /\ AllTimed(S)
      /\ \A k \in S : Earlier(start, k) /\ k.at <= Horizon /\ Timed(k)
  BY ScanType DEF AllTimed
<1>2. entries = First(S, ScanLimit, FALSE) /\ page = First(W, FeedLimit, FALSE)
  BY DEF ScanFinishes, Finishes
<1>3. entries \in SUBSET S /\ IsFiniteSet(entries) /\ AllTimed(entries) /\ Apart(entries)
  <2>1. entries \in SUBSET S
    BY <1>1, <1>2, FirstPart
  <2> QED
    BY <1>1, <2>1, PartOf
<1>4. W \in SUBSET entries /\ IsFiniteSet(W) /\ AllTimed(W) /\ Apart(W)
  <2>1. W \in SUBSET entries
    OBVIOUS
  <2> QED
    BY <1>3, <2>1, PartOf
<1>5. page \in SUBSET W /\ IsFiniteSet(page) /\ AllTimed(page)
  <2>1. page \in SUBSET W
    BY <1>2, <1>4, FirstPart
  <2> QED
    BY <1>4, <2>1, PartOf
<1>6. ScanLimit \in Nat \ {0} /\ FeedLimit \in Nat \ {0}
  BY Params
<1>7. Timed(start)
  BY CursorTimed
<1> HIDE DEF S, W
\* The cursor is where the poll began, or level with the last of what it passed.
<1>8. \/ c = start /\ entries = {} /\ page = {}
      \/ \E z \in entries :
           /\ c = CursorAfter("feed", z) /\ \A m \in page : ~Earlier(z, m)
           /\ z \in page \/ (page = W /\ \A m \in entries : ~Earlier(z, m))
  <2>1. Cardinality(page) \in Nat /\ Cardinality(page) <= FeedLimit
    BY <1>2, <1>4, <1>5, <1>6, FirstAtMost, CardType
  <2>2. CASE Cardinality(page) = FeedLimit
    <3>1. page # {}
      BY <1>6, <2>2, FS_EmptySet
    <3>2. Final(page, FALSE) \in page /\ \A m \in page : ~Before(FALSE, Final(page, FALSE), m)
      BY <1>5, <3>1, FinalKey
    <3> QED
      BY <1>4, <1>5, <2>2, <3>2 DEF NextCursor, Before
  <2>3. CASE Cardinality(page) # FeedLimit
    <3>1. page = W
      <4>1. SUFFICES ASSUME NEW x \in W \ page PROVE FALSE
        BY <1>5
      <4>2. Cardinality(page) >= FeedLimit
        BY <1>2, <1>4, <1>6, FirstLeaves
      <4> QED
        BY <1>6, <2>1, <2>3, <4>2
    <3>2. CASE entries = {}
      BY <1>4, <1>5, <2>3, <3>2 DEF NextCursor
    <3>3. CASE entries # {}
      <4>1. Final(entries, FALSE) \in entries /\ \A m \in entries : ~Before(FALSE, Final(entries, FALSE), m)
        BY <1>3, <3>3, FinalKey
      <4> QED
        BY <1>4, <1>5, <2>3, <3>1, <3>3, <4>1 DEF NextCursor, Before
    <3> QED
      BY <3>2, <3>3
  <2> QED
    BY <2>2, <2>3
<1>9. CASE c = start /\ entries = {} /\ page = {}
  <2>1. ~Earlier(start, start)
    BY <1>7 DEF Earlier, Timed
  <2> QED
    BY <1>9, <2>1 DEF Covered
<1>10. ASSUME NEW z \in entries, c = CursorAfter("feed", z), \A m \in page : ~Earlier(z, m),
              z \in page \/ (page = W /\ \A m \in entries : ~Earlier(z, m))
       PROVE  /\ c \in Cursors /\ c.sort = "feed" /\ (c = start \/ c.at <= Horizon)
              /\ ~Earlier(c, start)
              /\ \A k \in page : ~Earlier(c, k)
              /\ \A i \in Wanted : rows[i].state = "logged" /\ Covered(start, c, FeedKey(i)) => FeedKey(i) \in page
  <2>1. z \in S /\ z \in Keys /\ Timed(z) /\ Earlier(start, z) /\ z.at <= Horizon
    BY <1>1, <1>3
  <2>2. c \in Cursors /\ c.sort = "feed" /\ c.at = z.at /\ c.id = z.id
    BY <1>10, <2>1, CursorAfterType DEF Level
  <2>3. ~Earlier(c, start)
    BY <1>7, <2>1, <2>2 DEF Earlier, Timed
  <2>4. \A k \in page : ~Earlier(c, k)
    BY <1>10, <2>2 DEF Earlier
  <2>5. ASSUME NEW i \in Wanted, rows[i].state = "logged", Covered(start, c, FeedKey(i)) PROVE FeedKey(i) \in page
    <3> DEFINE k == FeedKey(i)
    <3>1. i \in Ids /\ Timed(k) /\ k.id = i
      BY Params, FeedKeyType
    <3>2. Earlier(start, k) /\ ~Earlier(z, k)
      BY <2>2, <2>5 DEF Covered, Earlier
    <3> HIDE DEF k
    <3>3. k.at <= Horizon
      <4>1. k.at <= z.at
        BY <2>1, <3>1, <3>2 DEF Earlier, Timed
      <4>2. Horizon \in Int
        BY Params DEF Shape, Horizon
      <4> QED
        BY <2>1, <3>1, <4>1, <4>2 DEF Timed
    <3>4. k \in S
      BY <2>5, <3>1, <3>2, <3>3 DEF S, k, ScanRange, Logged
    <3>5. ~Before(FALSE, z, k)
      BY <3>2 DEF Before
    <3>6. k \in entries
      BY <1>1, <1>2, <1>6, <3>4, <3>5, FirstDown
    <3>7. k \in W
      BY <2>5, <3>1, <3>6 DEF W
    <3>8. CASE z \in page
      BY <1>2, <1>4, <1>6, <3>5, <3>7, <3>8, FirstDown DEF k
    <3> QED
      BY <1>10, <3>7, <3>8 DEF k
  <2> QED
    BY <2>1, <2>2, <2>3, <2>4, <2>5
<1>11. page \in SUBSET ScanRange(start)
  BY <1>3, <1>4, <1>5 DEF S
<1> QED
  BY <1>8, <1>9, <1>10, <1>11

LEMMA FeedPoll ==
    ASSUME Shape, FeedInv, ListRunFinishes
    PROVE  Shape' /\ FeedInv'
<1> DEFINE start == FeedStart
           entries == ScanFinishes(start)
           page == Finishes(entries)
           c == NextCursor(start, entries, page)
           from == IF reader.from = NoCursor THEN start ELSE reader.from
<1>0. op = "feed" /\ UNCHANGED <<op, clock, rows, parent, tree, steady>>
  BY DEF ListRunFinishes
<1>1. reader' = [reader EXCEPT !.cursor = c, !.pages = Given(@, page), !.from = from]
  BY DEF ListRunFinishes
<1>2. /\ reader \in Readers /\ reader.pages \in Seq(SUBSET Keys) /\ reader.from \in Cursors
      /\ reader.cursor \in Cursors
  BY DEF Shape, Readers
<1>3. /\ start \in Cursors /\ start.sort = "feed"
      /\ reader.cursor.sort = "feed" => start = reader.cursor
      /\ \A r \in RowsOf(reader.pages) : ~Earlier(start, r[2])
  BY <1>0, FeedStartType
<1>4. /\ page \in SUBSET ScanRange(start)
      /\ c \in Cursors /\ c.sort = "feed" /\ (c = start \/ c.at <= Horizon)
      /\ ~Earlier(c, start)
      /\ \A k \in page : ~Earlier(c, k)
      /\ \A i \in Wanted : rows[i].state = "logged" /\ Covered(start, c, FeedKey(i)) => FeedKey(i) \in page
  BY <1>3, PollCovers
<1>5. /\ page \in SUBSET Keys /\ Apart(page)
      /\ \A k \in page : /\ k.id \in Ids /\ rows[k.id].at = k.at /\ rows[k.id].state \in Logged
                         /\ Earlier(start, k) /\ Timed(k)
  <2>1. /\ ScanRange(start) \in SUBSET Keys /\ IsFiniteSet(ScanRange(start))
        /\ Apart(ScanRange(start)) /\ AllTimed(ScanRange(start))
    BY <1>3, ScanType
  <2>2. Apart(page) /\ AllTimed(page) /\ page \in SUBSET Keys
    BY <1>4, <2>1, PartOf
  <2>3. \A k \in ScanRange(start) :
          k.id \in Ids /\ rows[k.id].at = k.at /\ rows[k.id].state \in Logged /\ Earlier(start, k)
    BY <1>3, ScanType
  <2> QED
    BY <1>4, <2>2, <2>3 DEF AllTimed
<1>6. from \in Cursors /\ from.sort = "feed"
  <2>1. reader.cursor.sort = "feed" => reader.from.sort = "feed"
    BY <1>0 DEF FeedInv, FeedCursor
  <2>2. reader.cursor.sort = "none" => reader.from = NoCursor
    BY <1>0 DEF FeedInv, FeedCursor
  <2>3. reader.cursor.sort \in {"none", "feed"}
    BY <1>0 DEF FeedInv, FeedCursor
  <2> QED
    BY <1>2, <1>3, <2>1, <2>2, <2>3
<1>7. reader.cursor.sort = "feed" => from = reader.from
  <2>1. reader.cursor.sort = "feed" => reader.from.sort = "feed"
    BY <1>0 DEF FeedInv, FeedCursor
  <2> QED
    BY <2>1 DEF NoCursor
<1>8. reader.cursor.sort # "feed" => from = start /\ RowsOf(reader.pages) = {}
  BY <1>0 DEF FeedInv, FeedCursor
<1>9. reader' \in Readers /\ reader'.cursor = c /\ reader'.from = from /\ reader'.pages = Given(reader.pages, page)
  <2>1. Given(reader.pages, page) \in Seq(SUBSET Keys)
    BY <1>2, <1>5, GivenType
  <2> HIDE DEF from, c, page
  <2> QED
    BY <1>1, <1>2, <1>4, <1>6, <2>1 DEF Readers
<1> DEFINE R == RowsOf(reader.pages)
           N == RowsOf(reader'.pages)
<1>10. /\ N = R \cup ({Len(reader.pages) + 1} \X page)
       /\ \A r \in N : r \in R \/ r[2] \in page
       /\ \A r \in R : r \in N /\ Timed(r[2])
       /\ \A k \in page : \E r \in N : r[2] = k
  <2>1. N = R \cup ({Len(reader.pages) + 1} \X page)
    BY <1>2, <1>5, <1>9, GivenRows
  <2>2. \A r \in R : Timed(r[2])
    BY <1>2, RowsType
  <2> HIDE DEF N, R, page
  <2>3. ASSUME NEW k \in page PROVE \E r \in N : r[2] = k
    <3>1. <<Len(reader.pages) + 1, k>> \in N
      BY <2>1
    <3> QED
      BY <3>1
  <2> QED
    BY <2>1, <2>2, <2>3
<1>11. Timed(start) /\ Timed(c) /\ Timed(from)
  BY <1>3, <1>4, <1>6, CursorTimed
<1> HIDE DEF start, entries, page, c, from, R, N
<1>12. Shape'
  BY <1>0, <1>9 DEF Shape
<1>13. FeedCursor'
  <2>1. Level(c, from) \/ c.at <= Horizon
    <3>1. CASE c = start
      <4>1. reader.cursor.sort = "feed" => Level(start, reader.from) \/ start.at <= Horizon
        BY <1>0, <1>3 DEF FeedInv, FeedCursor
      <4>2. CASE reader.cursor.sort = "feed"
        BY <1>7, <3>1, <4>1, <4>2
      <4>3. CASE reader.cursor.sort # "feed"
        BY <1>8, <3>1, <4>3 DEF Level
      <4> QED
        BY <4>2, <4>3
    <3> QED
      BY <1>4, <3>1
  <2>2. Horizon' = Horizon
    BY <1>0 DEF Horizon
  <2> QED
    BY <1>4, <1>6, <1>9, <2>1, <2>2 DEF FeedCursor
<1>14. FeedRows'
  <2>1. \A r \in N : ~Earlier(c, r[2])
    <3>1. ASSUME NEW r \in R PROVE ~Earlier(c, r[2])
      <4>1. Timed(r[2]) /\ ~Earlier(start, r[2]) /\ ~Earlier(c, start)
        BY <1>3, <1>4, <1>10 DEF R
      <4> QED
        BY <1>11, <4>1 DEF Earlier, Timed
    <3> QED
      BY <1>4, <1>10, <3>1
  <2>2. ASSUME NEW r \in N PROVE rows[r[2].id].at = r[2].at /\ rows[r[2].id].state \in Logged \cup {"gone"}
    <3>1. CASE r \in R
      BY <1>0, <3>1 DEF FeedInv, FeedRows, R
    <3>2. CASE r[2] \in page
      BY <1>5, <3>2
    <3> QED
      BY <1>10, <3>1, <3>2
  <2> QED
    BY <1>0, <1>9, <2>1, <2>2 DEF FeedRows, N
<1>15. FeedPassed'
  <2>1. ASSUME NEW i \in Wanted, rows[i].state = "logged", Covered(from, c, FeedKey(i))
        PROVE  \E r \in N : r[2].id = i
    <3>1. i \in Ids /\ FeedKey(i).id = i /\ Timed(FeedKey(i))
      BY Params, FeedKeyType
    <3>2. CASE Covered(start, c, FeedKey(i))
      <4>1. FeedKey(i) \in page
        BY <1>4, <2>1, <3>2
      <4> QED
        BY <1>10, <3>1, <4>1
    <3>3. CASE ~Covered(start, c, FeedKey(i))
      <4>1. ~Earlier(start, FeedKey(i)) /\ Earlier(from, FeedKey(i))
        BY <2>1, <3>3 DEF Covered
      <4>2. reader.cursor.sort = "feed" /\ from = reader.from /\ start = reader.cursor
        BY <1>3, <1>7, <1>8, <4>1
      <4>3. \E r \in R : r[2].id = i
        BY <1>0, <2>1, <4>1, <4>2 DEF FeedInv, FeedPassed, Covered, R
      <4> QED
        BY <1>10, <4>3
    <3> QED
      BY <3>2, <3>3
  <2>2. \A i \in Wanted : FeedKey(i)' = FeedKey(i)
    BY <1>0 DEF FeedKey
  <2> QED
    BY <1>0, <1>9, <2>1, <2>2 DEF FeedPassed, N
<1>16. Sorted(N, FALSE)
  <2>1. Sorted(R, FALSE)
    BY <1>0 DEF FeedInv, R
  <2>2. ASSUME NEW r \in R, NEW k \in page PROVE Before(FALSE, r[2], k)
    <3>1. ~Earlier(start, r[2]) /\ Earlier(start, k) /\ Timed(k) /\ Timed(r[2])
      BY <1>3, <1>5, <1>10 DEF R
    <3> QED
      BY <1>11, <3>1 DEF Earlier, Timed, Before
  <2> QED
    BY <1>2, <1>5, <1>9, <2>1, <2>2, SortedGiven DEF R, N
<1> QED
  BY <1>12, <1>13, <1>14, <1>15, <1>16 DEF FeedInv, N

\* What may become of a row of the finish log: it keeps its stamp once it is
\* committed, and commits in time only while its stamp is later than the horizon.
FinishStep(j) ==
    /\ rows[j].state \in Logged \cup {"gone"} =>
         rows'[j].at = rows[j].at /\ rows'[j].state \in Logged \cup {"gone"}
    /\ rows'[j].state = "logged" => rows[j].state = "logged" \/ rows'[j].at > Horizon

LEMMA HorizonGrows ==
    ASSUME clock \in Int, clock' \in Int, clock' >= clock
    PROVE  Horizon \in Int /\ Horizon' \in Int /\ Horizon' >= Horizon
<1>1. Settle \in Int
  BY Params
<1>2. Horizon = clock - Settle /\ Horizon' = clock' - Settle
  BY DEF Horizon
<1>3. Horizon \in Int
  BY <1>1, <1>2
<1>4. Horizon' \in Int
  BY <1>1, <1>2
<1>5. \A a, b, s \in Int : a >= b => a - s >= b - s
  OBVIOUS
<1>6. clock' - Settle >= clock - Settle
  BY <1>1, <1>5
<1> QED
  BY <1>2, <1>3, <1>4, <1>6

LEMMA FeedKept ==
    ASSUME Shape, FeedInv, op = "feed", op' = op, reader' = reader, clock' \in Int, clock' >= clock,
           \A j \in Ids : FinishStep(j) /\ rows'[j].at \in Int
    PROVE  FeedInv'
<1>0. Horizon \in Int /\ Horizon' \in Int /\ Horizon' >= Horizon
  BY HorizonGrows DEF Shape
<1>1. reader.cursor \in Cursors /\ reader.from \in Cursors /\ reader.pages \in Seq(SUBSET Keys)
  BY DEF Shape, Readers
<1>2. FeedCursor /\ FeedRows /\ FeedPassed /\ Sorted(RowsOf(reader.pages), FALSE)
  BY DEF FeedInv
<1>3. FeedCursor'
  <2>1. reader.cursor.at \in Int
    BY <1>1 DEF Cursors
  <2> QED
    BY <1>0, <1>2, <2>1 DEF FeedCursor
<1>4. FeedRows'
  <2>1. ASSUME NEW r \in RowsOf(reader.pages)
        PROVE  /\ ~Earlier(reader.cursor, r[2])
               /\ rows'[r[2].id].at = r[2].at /\ rows'[r[2].id].state \in Logged \cup {"gone"}
    <3>1. r[2].id \in Ids
      BY <1>1, RowsType
    <3> QED
      BY <1>2, <3>1 DEF FeedRows, FinishStep
  <2> QED
    BY <2>1 DEF FeedRows
<1>5. FeedPassed'
  <2>1. ASSUME NEW i \in Wanted, rows'[i].state = "logged", reader.cursor.sort = "feed",
               Covered(reader.from, reader.cursor, FeedKey(i)')
        PROVE  \E r \in RowsOf(reader.pages) : r[2].id = i
    <3>0. i \in Ids
      BY Params
    <3>1. CASE rows[i].state = "logged"
      <4>1. FeedKey(i)' = FeedKey(i)
        BY <3>0, <3>1 DEF FinishStep, Logged, FeedKey
      <4> QED
        BY <1>2, <2>1, <3>1, <4>1 DEF FeedPassed
    <3>2. CASE rows'[i].at > Horizon
      <4> DEFINE k == FeedKey(i)'
      <4>1. k.at = rows'[i].at /\ k.id = i /\ k.at \in Int /\ k.id \in Int
        BY <3>0, Params DEF FeedKey
      <4>2. Timed(reader.cursor) /\ Timed(reader.from)
        BY <1>1, CursorTimed
      <4>3. Level(reader.cursor, reader.from) \/ reader.cursor.at <= Horizon
        BY <1>2, <2>1 DEF FeedCursor
      <4>4. Earlier(reader.from, k) /\ ~Earlier(reader.cursor, k)
        BY <2>1 DEF Covered
      <4> HIDE DEF k
      <4>5. FALSE
        BY <1>0, <3>2, <4>1, <4>2, <4>3, <4>4 DEF Earlier, Level, Timed
      <4> QED
        BY <4>5
    <3> QED
      BY <2>1, <3>0, <3>1, <3>2 DEF FinishStep
  <2> QED
    BY <2>1 DEF FeedPassed
<1> QED
  BY <1>2, <1>3, <1>4, <1>5 DEF FeedInv

LEMMA FeedWrite ==
    ASSUME Shape, FeedInv, NEW i \in Ids, Writing(i)
    PROVE  FeedInv'
<1>0. PICK row \in RowRecord : Changed(i, row)
  BY WritingChanges
<1>1. CASE op # "feed"
  BY <1>0, <1>1 DEF FeedInv, Changed
<1>2. CASE op = "feed"
  <2>1. /\ rows' = [rows EXCEPT ![i] = row] /\ op' = op /\ reader' = reader /\ clock' = clock
        /\ clock \in Int /\ rows[i].at \in Int /\ row.at \in Int
        /\ \A j \in Ids : rows'[j].at \in Int
    BY <1>0 DEF Changed, Shape, RowRecord
  <2>2. \A j \in Ids \ {i} : rows'[j] = rows[j]
    BY <2>1 DEF Shape
  <2>3. rows'[i] = row
    BY <2>1 DEF Shape
  <2>4. StampFinish(i) \/ CommitFinish(i) \/ FinalizeFails(i) \/ DeleteRun(i)
    BY <1>2 DEF Writing, InsertJob, RescheduleJob, EndJob, RetryJob, DeleteJob, AppendRow, StampRow, PruneRow,
                Jobs, JobLists, JobSorts, Growing, Stamped
  <2>5. FinishStep(i)
    <3>1. CASE StampFinish(i)
      <4>1. rows[i].state = "none" /\ rows' = [rows EXCEPT ![i] = Row("open", clock)]
        BY <3>1 DEF StampFinish, Write
      <4>2. rows'[i].state = "open"
        BY <4>1 DEF Shape, Row
      <4> QED
        BY <4>1, <4>2 DEF FinishStep, Logged
    <3>2. CASE CommitFinish(i)
      <4>1. rows[i].state = "open"
        BY <3>2 DEF CommitFinish
      <4>2. /\ rows'[i].at = rows[i].at
            /\ rows'[i].state = IF clock - rows[i].at < Settle THEN "logged" ELSE "late"
        BY <3>2 DEF CommitFinish, Shape, RowRecord
      <4>3. rows'[i].state = "logged" => rows'[i].at > Horizon
        BY <2>1, <4>2, Params DEF Horizon
      <4> QED
        BY <4>1, <4>3 DEF FinishStep, Logged
    <3>3. CASE FinalizeFails(i)
      <4>1. rows[i].state = "open" /\ rows' = [rows EXCEPT ![i] = Row("gone", 0)]
        BY <3>3 DEF FinalizeFails, Write
      <4>2. rows'[i].state = "gone"
        BY <4>1 DEF Shape, Row
      <4> QED
        BY <4>1, <4>2 DEF FinishStep, Logged
    <3>4. CASE DeleteRun(i)
      <4>1. PICK s \in {"bare", "gone"} : rows' = [rows EXCEPT ![i] = Row(s, rows[i].at)]
        BY <3>4 DEF DeleteRun, Write
      <4>2. rows'[i].state = s /\ rows'[i].at = rows[i].at
        BY <4>1 DEF Shape, Row
      <4> QED
        BY <4>2 DEF FinishStep, Logged
    <3> QED
      BY <2>4, <3>1, <3>2, <3>3, <3>4
  <2>6. \A j \in Ids : FinishStep(j)
    BY <2>2, <2>5 DEF FinishStep
  <2> QED
    BY <1>2, <2>1, <2>6, FeedKept
<1> QED
  BY <1>1, <1>2

LEMMA TickShape ==
    ASSUME Shape, Tick
    PROVE  /\ Shape' /\ clock' \in Int /\ clock' >= clock
           /\ UNCHANGED <<op, rows, parent, reader, tree, steady, grew>>
BY DEF Shape, Tick

LEMMA FeedTick ==
    ASSUME Shape, FeedInv, Tick
    PROVE  FeedInv'
<1>1. /\ clock' \in Int /\ clock' >= clock /\ UNCHANGED <<op, rows, reader>>
  BY TickShape
<1>2. CASE op = "feed"
  <2>1. \A j \in Ids : FinishStep(j) /\ rows'[j].at \in Int
    BY <1>1 DEF FinishStep, Shape, RowRecord
  <2> QED
    BY <1>1, <1>2, <2>1, FeedKept
<1>3. CASE op # "feed"
  <2>1. op' # "feed"
    BY <1>1, <1>3
  <2> QED
    BY <2>1 DEF FeedInv
<1> QED
  BY <1>2, <1>3

----------------------------------------------------------------------------
(* The listings. *)

Stages(o) == DOMAIN List(o).statements

\* The listings whose page takes a statement for each state asked for.
Staged == {"finished", "history"}

LEMMA ListFacts ==
    ASSUME NEW o \in Listings
    PROVE  /\ List(o).down \in BOOLEAN /\ List(o).byTime \in BOOLEAN /\ List(o).probe \in BOOLEAN
           /\ o \in Staged => List(o).statements = EachEnded /\ List(o).byTime
           /\ o \notin Staged => Stages(o) = {1}
           /\ o = "outputs" => List(o).down /\ List(o).byTime
           /\ o # "none"
<1>0. \A S : DOMAIN <<S>> = {1}
  OBVIOUS
<1> USE DEF List, Listing, Stages, Staged
<1>1. CASE o \in Staged
  BY <1>1 DEF QueryFinished, ListFinished
<1>2. CASE o = "newest"
  BY <1>0, <1>2 DEF QueryNewest, AnyJob
<1>3. CASE o = "oldest"
  BY <1>0, <1>3 DEF QueryOldest, AnyJob
<1>4. CASE o = "scheduled"
  BY <1>0, <1>4 DEF QueryScheduled
<1>5. CASE o = "jobs"
  BY <1>0, <1>5 DEF ListJobs, AnyJob
<1>6. CASE o = "children"
  BY <1>0, <1>6 DEF ListChildren, AnyJob
<1>7. CASE o = "outputs"
  BY <1>0, <1>7 DEF ChildOutputs
<1>8. CASE o = "runs"
  BY <1>0, <1>8 DEF ListRuns
<1>9. CASE o = "lines"
  BY <1>0, <1>9 DEF ListRunLogs
<1>10. CASE o = "newAudit"
  BY <1>0, <1>10 DEF AuditNewest
<1>11. CASE o = "oldAudit"
  BY <1>0, <1>11 DEF AuditOldest
<1>12. CASE o = "starts"
  BY <1>0, <1>12 DEF ListNodeStarts
<1> QED
  BY <1>1, <1>2, <1>3, <1>4, <1>5, <1>6, <1>7, <1>8, <1>9, <1>10, <1>11, <1>12 DEF Listings, JobLists, JobSorts, Growing, Stamped

LEMMA AskedOnce ==
    /\ Distinct \in SUBSET (Nat \ {0}) /\ 1 \in Distinct
    /\ \A n \in Distinct : Asked[n] \in Ended
    /\ \A m, n \in Distinct : m # n => Asked[m] # Asked[n]
<1>1. Asked \in Seq(Ended) /\ Asked # <<>>
  BY ReadsAssumption
<1>2. DOMAIN Asked = 1..Len(Asked) /\ Len(Asked) \in Nat \ {0}
  BY <1>1
<1>3. Distinct \in SUBSET (1..Len(Asked))
  BY <1>2 DEF Distinct
<1>4. 1 \in Distinct
  BY <1>2 DEF Distinct
<1>5. \A m, n \in Distinct : m < n => Asked[m] # Asked[n]
  <2>1. SUFFICES ASSUME NEW m \in Distinct, NEW n \in Distinct, m < n PROVE Asked[m] # Asked[n]
    OBVIOUS
  <2>2. m \in 1..(n - 1)
    BY <1>2, <1>3, <2>1
  <2> QED
    BY <2>2 DEF Distinct
<1>6. \A m, n \in Distinct : m # n => m < n \/ n < m
  BY <1>2, <1>3
<1> QED
  BY <1>1, <1>2, <1>3, <1>4, <1>5, <1>6

LEMMA StagesType ==
    ASSUME NEW o \in Listings
    PROVE  /\ Stages(o) \in SUBSET (Nat \ {0}) /\ 1 \in Stages(o)
           /\ o \in Staged => /\ Stages(o) = Distinct
                              /\ \A s \in Stages(o) : List(o).statements[s] = {Asked[s]}
<1>1. CASE o \in Staged
  <2>1. List(o).statements = [n \in Distinct |-> {Asked[n]}]
    BY <1>1, ListFacts DEF EachEnded
  <2> QED
    BY <2>1, AskedOnce DEF Stages
<1>2. CASE o \notin Staged
  BY <1>2, ListFacts
<1> QED
  BY <1>1, <1>2

LEMMA KeyType ==
    ASSUME Shape, NEW o \in Listings, NEW i \in Ids, NEW s \in Nat
    PROVE  /\ Key(o, i, s) \in Keys /\ Timed(Key(o, i, s))
           /\ Key(o, i, s).id = i /\ Key(o, i, s).stage = s
           /\ Level(Key(o, i, s), Key(o, i, 1))
           /\ List(o).byTime => Key(o, i, s).at = rows[i].at
<1>1. rows[i].at \in Int
  BY DEF Shape, RowRecord
<1>2. Key(o, i, s) \in Keys
  BY <1>1 DEF Key, Keys
<1> QED
  BY <1>2, KeysTimed DEF Key, Level, AllTimed, Timed, Keys, Ids

\* Behind a cursor.
Past(o, c, k) == c.sort = "none" \/ Beyond(o, c, k)

LEMMA BeyondFacts ==
    ASSUME NEW o \in Listings, NEW c, NEW k, Timed(c), Timed(k)
    PROVE  /\ Beyond(o, c, k) => Before(List(o).down, c, k)
           /\ Before(List(o).down, c, k) /\ ~Beyond(o, c, k) => o = "outputs" /\ k.at = c.at
           /\ \A m : Level(k, m) => (Beyond(o, c, k) <=> Beyond(o, c, m))
<1>1. o = "outputs" => List(o).down
  BY ListFacts
<1> QED
  BY <1>1 DEF Beyond, Precedes, Before, Earlier, Timed, Level

\* The rows a stage's statement chooses its page from.
Candidates(o, s, c) ==
    {k \in {Key(o, i, s) : i \in {j \in Ids : InScope(o, j) /\ rows[j].state \in List(o).statements[s]}} :
        c.sort = "none" \/ Beyond(o, c, k)}

LEMMA CandidatesType ==
    ASSUME Shape, NEW o \in Listings, NEW s \in Nat, NEW c
    PROVE  /\ Candidates(o, s, c) \in SUBSET Keys /\ IsFiniteSet(Candidates(o, s, c))
           /\ Apart(Candidates(o, s, c)) /\ AllTimed(Candidates(o, s, c))
           /\ \A k \in Candidates(o, s, c) :
                /\ k.id \in Ids /\ k = Key(o, k.id, s) /\ k.stage = s /\ Past(o, c, k)
                /\ rows[k.id].state \in List(o).statements[s]
<1> DEFINE C == Candidates(o, s, c)
<1>1. \A k \in C : \E i \in Ids : k = Key(o, i, s) /\ rows[i].state \in List(o).statements[s]
  BY DEF Candidates
<1>2. \A k \in C : /\ k.id \in Ids /\ k = Key(o, k.id, s) /\ k.stage = s /\ k \in Keys
                   /\ rows[k.id].state \in List(o).statements[s]
  BY <1>1, KeyType
<1>3. \A k \in C : Past(o, c, k)
  BY DEF Candidates, Past
<1> HIDE DEF C
<1>4. \A a, b \in C : a.id = b.id => a = b
  BY <1>2
<1>5. C \in SUBSET Keys
  BY <1>2
<1>6. IsFiniteSet(C) /\ Apart(C) /\ AllTimed(C)
  BY <1>4, <1>5, KeysById
<1> QED
  BY <1>2, <1>3, <1>5, <1>6 DEF C

\* As many rows as fill a page and tell whether there are more.
Size == IF List(op).probe THEN Limit + 1 ELSE Limit

\* What became of a row since a statement found it by this key: if it is in an
\* ended state again, it is at a later time.
Trace(k) ==
    \/ rows[k.id].state = Asked[k.stage] /\ rows[k.id].at = k.at
    \/ rows[k.id].state = "waiting" /\ k.at < clock
    \/ rows[k.id].state \in Ended /\ k.at < rows[k.id].at
    \/ rows[k.id].state = "gone"

\* A row that is behind the cursor is on the page or has a page's fill ahead of it.
Filled(P, s, i) ==
    rows[i].state \in List(op).statements[s] /\ Past(op, reader.cursor, Key(op, i, s)) =>
        \/ Key(op, i, s) \in P
        \/ Cardinality(Ahead(P, List(op).down, Key(op, i, s))) >= Size

\* A page of which the statements D have been made.
PageKeys(P, D) ==
    \A k \in P : /\ k.stage \in D /\ Past(op, reader.cursor, k)
                 /\ k.id \in steady => k.at = Key(op, k.id, 1).at
                 /\ op \in Staged => Trace(k)
PageOK(P, D) ==
    /\ P \in SUBSET Keys /\ IsFiniteSet(P) /\ Apart(P)
    /\ PageKeys(P, D)
    /\ \A s \in D, i \in steady : Filled(P, s, i)

LEMMA SizeType ==
    ASSUME op \in Listings
    PROVE  Size \in Nat \ {0} /\ Size >= Limit /\ (List(op).probe => Size = Limit + 1)
BY Params, ListFacts DEF Size

\* A statement adds its rows to the page, none of which is level with another.
LEMMA PageGrows ==
    ASSUME Shape, op \in Listings, \A i \in steady : InScope(op, i),
           NEW P, NEW D \in SUBSET Stages(op), PageOK(P, D), NEW s \in Stages(op) \ D
    PROVE  PageOK(P \cup Found(op, s, reader.cursor, Size), D \cup {s})
<1> DEFINE c == reader.cursor
           d == List(op).down
           C == Candidates(op, s, c)
           F == Found(op, s, c, Size)
           Q == P \cup F
<1>1. s \in Nat
  BY StagesType
<1>2. /\ C \in SUBSET Keys /\ IsFiniteSet(C) /\ Apart(C) /\ AllTimed(C)
      /\ \A k \in C : /\ k.id \in Ids /\ k = Key(op, k.id, s) /\ k.stage = s /\ Past(op, c, k)
                      /\ rows[k.id].state \in List(op).statements[s]
  BY <1>1, CandidatesType
<1>3. F = First(C, Size, d)
  BY DEF Found, Candidates
<1>4. F \in SUBSET C /\ IsFiniteSet(F) /\ Apart(F)
  <2>1. F \in SUBSET C
    BY <1>2, <1>3, FirstPart
  <2> QED
    BY <1>2, <2>1, PartOf
<1>5. P \in SUBSET Keys /\ IsFiniteSet(P) /\ Apart(P) /\ PageKeys(P, D)
  BY DEF PageOK
<1>6. Size \in Nat \ {0} /\ d \in BOOLEAN
  BY SizeType, ListFacts
<1> HIDE DEF C, F, c, d
<1>7. Q \in SUBSET Keys /\ IsFiniteSet(Q) /\ AllTimed(Q)
  <2>1. Q \in SUBSET Keys
    BY <1>2, <1>4, <1>5
  <2>2. IsFiniteSet(Q)
    BY <1>4, <1>5, FS_Union
  <2> QED
    BY <2>1, <2>2, KeysTimed
<1>8. ASSUME NEW a \in P, NEW b \in F PROVE ~Level(a, b) /\ ~Level(b, a)
  <2>1. SUFFICES ASSUME a.id = b.id PROVE a.at # b.at
    BY DEF Level
  <2>2. a.stage \in D /\ a.stage # s
    BY <1>5 DEF PageKeys
  <2>3. op \in Staged
    BY <2>2, ListFacts
  <2>4. Trace(a)
    BY <1>5, <2>3 DEF PageKeys
  <2>5. b.id \in Ids /\ b = Key(op, b.id, s) /\ rows[b.id].state \in List(op).statements[s]
    BY <1>2, <1>4
  <2>6. b.at = rows[b.id].at
    BY <1>1, <2>3, <2>5, KeyType, ListFacts
  <2>7. rows[b.id].state = Asked[s] /\ Asked[s] \in Ended /\ Asked[a.stage] # Asked[s]
    BY <2>2, <2>3, <2>5, StagesType, AskedOnce
  <2>8. "waiting" \notin Ended /\ "gone" \notin Ended
    BY DEF Ended
  <2>9. a.at < rows[a.id].at
    BY <2>1, <2>4, <2>7, <2>8 DEF Trace
  <2>10. a.at \in Int /\ rows[a.id].at \in Int
    BY <1>5, <2>1, <2>5 DEF Keys, Shape, RowRecord
  <2> QED
    BY <2>1, <2>6, <2>9, <2>10
<1>9. Apart(Q)
  BY <1>4, <1>5, <1>8 DEF Apart
<1>10. PageKeys(Q, D \cup {s})
  <2>1. ASSUME NEW k \in F
        PROVE  /\ k.stage = s /\ Past(op, c, k) /\ k.at = Key(op, k.id, 1).at
               /\ op \in Staged => Trace(k)
    <3>1. /\ k.id \in Ids /\ k = Key(op, k.id, s) /\ k.stage = s /\ Past(op, c, k)
          /\ rows[k.id].state \in List(op).statements[s]
      BY <1>2, <1>4
    <3>2. k.at = Key(op, k.id, 1).at
      BY <1>1, <3>1, KeyType DEF Level
    <3>3. ASSUME op \in Staged PROVE Trace(k)
      <4>1. k.at = rows[k.id].at
        BY <1>1, <3>1, <3>3, KeyType, ListFacts
      <4>2. rows[k.id].state = Asked[k.stage]
        BY <3>1, <3>3, StagesType
      <4> QED
        BY <4>1, <4>2 DEF Trace
    <3> QED
      BY <3>1, <3>2, <3>3
  <2> QED
    BY <1>5, <2>1 DEF PageKeys, c
<1>11. ASSUME NEW t \in D \cup {s}, NEW i \in steady PROVE Filled(Q, t, i)
  <2> DEFINE k == Key(op, i, t)
  <2>0. i \in Ids /\ t \in Nat
    BY <1>1, StagesType DEF Shape
  <2>1. Timed(k)
    BY <2>0, KeyType
  <2>2. SUFFICES ASSUME rows[i].state \in List(op).statements[t], Past(op, c, k)
                 PROVE  k \in Q \/ Cardinality(Ahead(Q, d, k)) >= Size
    BY DEF Filled, c, d
  <2>3. Cardinality(Ahead(Q, d, k)) \in Nat /\ IsFiniteSet(Ahead(Q, d, k))
    BY <1>7, AheadCard
  <2> HIDE DEF k
  <2>4. CASE t \in D
    <3>1. k \in P \/ Cardinality(Ahead(P, d, k)) >= Size
      BY <2>2, <2>4 DEF PageOK, Filled, c, d, k
    <3>2. Ahead(P, d, k) \in SUBSET Ahead(Q, d, k)
      BY DEF Ahead
    <3>3. Cardinality(Ahead(P, d, k)) <= Cardinality(Ahead(Q, d, k)) /\ Cardinality(Ahead(P, d, k)) \in Nat
      BY <2>3, <3>2, SubsetCard
    <3> QED
      BY <1>6, <2>3, <3>1, <3>3
  <2>5. CASE t = s
    <3>1. k \in C
      BY <2>0, <2>2, <2>5 DEF C, Candidates, Past, k
    <3>2. CASE k \in F
      BY <3>2
    <3>3. CASE k \notin F
      <4>1. (\A m \in F : Before(d, m, k)) /\ Cardinality(F) >= Size
        BY <1>2, <1>3, <1>6, <3>1, <3>3, FirstLeaves
      <4>2. F \in SUBSET Ahead(Q, d, k)
        BY <4>1 DEF Ahead
      <4>3. Cardinality(F) <= Cardinality(Ahead(Q, d, k)) /\ Cardinality(F) \in Nat
        BY <2>3, <4>2, SubsetCard
      <4> QED
        BY <1>6, <2>3, <4>1, <4>3
    <3> QED
      BY <3>2, <3>3
  <2> QED
    BY <2>4, <2>5
<1> QED
  BY <1>7, <1>9, <1>10, <1>11 DEF PageOK, F, c

\* The whole page: a walk that ends with it has every row behind its cursor, and
\* one that goes on has every one that is not behind the next.
LEMMA PageCovers ==
    ASSUME Shape, op \in Listings, \A i \in steady : InScope(op, i),
           NEW P, PageOK(P, Stages(op)), NEW page, page = First(P, Limit, List(op).down),
           NEW z, z = Final(page, List(op).down),
           NEW i \in steady, Past(op, reader.cursor, Key(op, i, 1))
    PROVE  /\ ~(Cardinality(P) >= Size) => \E k \in page : k.id = i
           /\ Cardinality(P) >= Size /\ ~Before(List(op).down, z, Key(op, i, 1)) => \E k \in page : k.id = i
<1> DEFINE c == reader.cursor
           d == List(op).down
<1>1. P \in SUBSET Keys /\ IsFiniteSet(P) /\ AllTimed(P)
  BY KeysTimed DEF PageOK
<1>2. Size \in Nat \ {0} /\ Size >= Limit /\ Limit \in Nat \ {0} /\ (List(op).probe => Size = Limit + 1)
  BY SizeType, Params
<1>3. d \in BOOLEAN
  BY ListFacts
<1>4. i \in Ids
  BY DEF Shape
<1>5. PICK s \in Stages(op) : rows[i].state \in List(op).statements[s]
  BY DEF InScope, Stages
<1>6. s \in Nat
  BY StagesType
<1> DEFINE k == Key(op, i, s)
           k1 == Key(op, i, 1)
<1>7. Timed(k) /\ Timed(k1) /\ Level(k, k1) /\ k.id = i /\ Level(k1, k)
  BY <1>4, <1>6, KeyType DEF Level
<1>8. Timed(c)
  BY CursorTimed DEF Shape, Readers
<1>9. Past(op, c, k)
  BY <1>7, <1>8, BeyondFacts DEF Past
<1>10. k \in P \/ Cardinality(Ahead(P, d, k)) >= Size
  BY <1>5, <1>9 DEF PageOK, Filled
<1> HIDE DEF k, k1, c, d
<1>11. Cardinality(P) \in Nat /\ Cardinality(Ahead(P, d, k)) \in Nat /\ Cardinality(Ahead(P, d, k)) <= Cardinality(P)
  BY <1>1, AheadCard, SubsetCard
<1>12. ASSUME ~(Cardinality(P) >= Size) PROVE k \in page
  <2>1. Cardinality(P) < Size
    BY <1>2, <1>11, <1>12
  <2>2. Cardinality(P) <= Limit
    BY <1>2, <1>11, <2>1, ListFacts DEF Size
  <2>3. page = P
    BY <1>1, <1>2, <2>2, FirstAll DEF d
  <2>4. k \in P
    BY <1>2, <1>10, <1>11, <2>1
  <2> QED
    BY <2>3, <2>4
<1>13. ASSUME Cardinality(P) >= Size, ~Before(d, z, k1) PROVE k \in page
  <2>1. P # {}
    BY <1>2, <1>11, <1>13, FS_EmptySet
  <2>2. page # {} /\ page \in SUBSET P
    BY <1>1, <1>2, <2>1, FirstSome, FirstPart
  <2>3. IsFiniteSet(page) /\ AllTimed(page)
    BY <1>1, <2>2, PartOf
  <2>4. z \in page
    BY <1>3, <2>2, <2>3, FinalKey DEF d
  <2>5. ~Before(d, z, k)
    BY <1>7, <1>13, LevelOrder
  <2>6. Cardinality(Ahead(P, d, k)) < Limit
    BY <1>1, <1>2, <1>7, <2>4, <2>5, FirstBound DEF d
  <2>7. k \in P
    BY <1>2, <1>10, <1>11, <2>6
  <2> QED
    BY <2>6, <2>7, InFirst DEF d
<1> QED
  BY <1>7, <1>12, <1>13 DEF d, k1

\* What the caller has is in order and not behind its cursor.
WalkedRows ==
    /\ reader.cursor.sort \in {"none", op} /\ reader.stage \in Stages(op)
    /\ Sorted(RowsOf(reader.pages), List(op).down)
    /\ \A r \in RowsOf(reader.pages) :
         /\ reader.pc = "read" => reader.cursor.sort # "none" /\ ~Before(List(op).down, reader.cursor, r[2])
         /\ r[2].id \in steady => r[2].at = Key(op, r[2].id, 1).at

\* The caller has the row, or of its listing one that shares the time its cursor
\* passes whole.
Has(pages, i) ==
    \/ \E r \in RowsOf(pages) : r[2].id = i
    \/ op = "outputs" /\ \E r \in RowsOf(pages) : r[2].at = rows[i].at

WalkPassed ==
    \A i \in steady :
        \/ reader.pc = "done"
        \/ reader.cursor.sort # "none" /\ ~Beyond(op, reader.cursor, Key(op, i, 1))
        => Has(reader.pages, i)

Scoped == \A i \in steady : InScope(op, i)
Made == {s \in Stages(op) : s < reader.stage}

WalkInv ==
    op \in Listings => WalkedRows /\ WalkPassed /\ Scoped /\ PageOK(reader.page, Made)

LEMMA WalkDelivered ==
    ASSUME Shape, WalkInv, op \in Listings, reader.pc = "read",
           NEW P, PageOK(P, Stages(op)), UNCHANGED <<op, clock, rows, parent, tree, steady>>,
           reader' = Delivered(op, P)
    PROVE  reader' \in Readers /\ WalkInv'
<1> DEFINE d == List(op).down
           page == First(P, Limit, d)
           z == Final(page, d)
           more == Cardinality(P) >= Size
           c == reader.cursor
           R == RowsOf(reader.pages)
           N == RowsOf(Given(reader.pages, page))
<1>0. /\ reader \in Readers /\ reader.pages \in Seq(SUBSET Keys) /\ c \in Cursors
      /\ WalkedRows /\ WalkPassed /\ Scoped
  BY DEF Shape, Readers, WalkInv
<1>1. /\ reader'.pages = Given(reader.pages, page) /\ reader'.page = {} /\ reader'.stage = 1
      /\ more => reader'.pc = "read" /\ reader'.cursor = CursorAfter(op, z)
      /\ ~more => reader'.pc = "done" /\ reader'.cursor = c
      /\ reader'.since = reader.since /\ reader'.from = reader.from
      /\ DOMAIN reader' = DOMAIN reader
  BY <1>0 DEF Delivered, Readers, Size
<1>2. d \in BOOLEAN /\ Limit \in Nat \ {0} /\ Size \in Nat \ {0}
  BY Params, ListFacts, SizeType
<1>3. P \in SUBSET Keys /\ IsFiniteSet(P) /\ AllTimed(P) /\ Apart(P) /\ PageKeys(P, Stages(op))
  BY KeysTimed DEF PageOK
<1>4. page \in SUBSET P /\ IsFiniteSet(page) /\ AllTimed(page) /\ Apart(page) /\ page \in SUBSET Keys
  <2>1. page \in SUBSET P
    BY <1>3, FirstPart
  <2> QED
    BY <1>3, <2>1, PartOf
<1>5. ASSUME more PROVE z \in page /\ \A k \in page : ~Before(d, z, k)
  <2>1. P # {}
    BY <1>2, <1>3, <1>5, FS_EmptySet
  <2>2. page # {}
    BY <1>2, <1>3, <2>1, FirstSome
  <2> QED
    BY <1>2, <1>4, <2>2, FinalKey
<1>6. /\ N = R \cup ({Len(reader.pages) + 1} \X page)
      /\ \A r \in N : r \in R \/ r[2] \in page
      /\ R \in SUBSET N /\ \A r \in R : Timed(r[2])
      /\ \A k \in page : \E r \in N : r[2] = k
  <2>1. N = R \cup ({Len(reader.pages) + 1} \X page)
    BY <1>0, <1>4, GivenRows
  <2>2. \A r \in R : Timed(r[2])
    BY <1>0, RowsType
  <2> HIDE DEF N, R, page
  <2>3. ASSUME NEW k \in page PROVE \E r \in N : r[2] = k
    <3>1. <<Len(reader.pages) + 1, k>> \in N
      BY <2>1
    <3> QED
      BY <3>1
  <2> QED
    BY <2>1, <2>2, <2>3
<1> HIDE DEF d, page, z, more, R, N, c
<1>7. Given(reader.pages, page) \in Seq(SUBSET Keys)
  BY <1>0, <1>4, GivenType
<1>8. more => CursorAfter(op, z) \in Cursors /\ Level(CursorAfter(op, z), z) /\ CursorAfter(op, z).sort = op
  BY <1>4, <1>5, CursorAfterType
<1>9. reader' \in Readers
  <2>1. reader'.pc \in {"read", "done"} /\ reader'.cursor \in Cursors
    BY <1>0, <1>1, <1>8
  <2>2. reader'.since \in Int /\ reader'.from \in Cursors
    BY <1>0, <1>1 DEF Readers
  <2>3. reader' = [f \in DOMAIN reader |-> reader'[f]]
    BY <1>0 DEF Delivered, Readers
  <2> QED
    BY <1>0, <1>1, <1>7, <2>1, <2>2, <2>3 DEF Readers
<1>10. Timed(c) /\ (more => Timed(z))
  BY <1>0, <1>4, <1>5, CursorTimed DEF AllTimed
\* What was given before is ahead of the page.
<1>11. ASSUME NEW r \in R, NEW k \in page PROVE Before(d, r[2], k)
  <2>1. c.sort # "none" /\ ~Before(d, c, r[2])
    BY <1>0, <1>11 DEF WalkedRows, R, c, d
  <2>2. Beyond(op, c, k)
    BY <1>3, <1>4, <2>1 DEF PageKeys, Past, c
  <2>3. Timed(k) /\ Timed(r[2])
    BY <1>4, <1>6 DEF AllTimed
  <2>4. Before(d, c, k)
    BY <1>10, <2>2, <2>3, BeyondFacts DEF d
  <2> QED
    BY <1>10, <2>1, <2>3, <2>4, BeforeOrder
<1>12. Sorted(N, d)
  <2>1. Sorted(R, d)
    BY <1>0 DEF WalkedRows, R, d
  <2> QED
    BY <1>0, <1>4, <1>11, <2>1, SortedGiven DEF R, N
<1>13. ASSUME more, NEW r \in N PROVE ~Before(d, z, r[2])
  <2>1. CASE r \in R
    <3>1. Before(d, r[2], z) /\ Timed(r[2])
      BY <1>5, <1>6, <1>11, <1>13, <2>1
    <3> QED
      BY <1>10, <1>13, <3>1, BeforeOrder
  <2>2. CASE r[2] \in page
    BY <1>5, <1>13, <2>2
  <2> QED
    BY <1>6, <2>1, <2>2
<1>14. WalkedRows'
  <2>1. reader'.cursor.sort \in {"none", op}
    BY <1>0, <1>1, <1>8 DEF WalkedRows, c
  <2>2. reader'.stage \in Stages(op)
    BY <1>1, StagesType
  <2>3. ASSUME NEW r \in N
        PROVE  /\ reader'.pc = "read" => reader'.cursor.sort # "none" /\ ~Before(d, reader'.cursor, r[2])
               /\ r[2].id \in steady => r[2].at = Key(op, r[2].id, 1).at
    <3>1. ASSUME reader'.pc = "read" PROVE reader'.cursor.sort # "none" /\ ~Before(d, reader'.cursor, r[2])
      <4>1. more
        BY <1>1, <3>1
      <4> QED
        BY <1>1, <1>8, <1>13, <4>1, LevelOrder, ListFacts
    <3>2. CASE r \in R
      BY <1>0, <3>1, <3>2 DEF WalkedRows, R
    <3>3. CASE r[2] \in page
      BY <1>3, <1>4, <3>1, <3>3 DEF PageKeys
    <3> QED
      BY <1>6, <3>2, <3>3, <3>1
  <2>4. \A r \in N : (r[2].id \in steady => r[2].at = Key(op, r[2].id, 1)'.at)
    BY <2>3 DEF Key
  <2> QED
    BY <1>1, <1>12, <2>1, <2>2, <2>3, <2>4 DEF WalkedRows, N, d
<1>15. WalkPassed'
  <2>1. ASSUME NEW i \in steady,
               \/ reader'.pc = "done"
               \/ reader'.cursor.sort # "none" /\ ~Beyond(op, reader'.cursor, Key(op, i, 1))
        PROVE  Has(Given(reader.pages, page), i)
    <3> DEFINE k == Key(op, i, 1)
    <3>1. i \in Ids /\ Timed(k)
      BY KeyType DEF Shape
    <3>2. CASE ~Past(op, c, k)
      <4>1. Has(reader.pages, i)
        BY <1>0, <3>2 DEF WalkPassed, Past, c
      <4> QED
        BY <1>6, <4>1 DEF Has, R, N
    <3>3. CASE Past(op, c, k)
      <4>1. \A m \in page : m.id = i => \E r \in N : r[2].id = i
        BY <1>6
      <4>2. CASE ~more
        <5>1. \E m \in page : m.id = i
          BY <1>0, <3>3, <4>2, PageCovers DEF Scoped, c, page, d, more
        <5> QED
          BY <4>1, <5>1 DEF Has, N
      <4>3. CASE more /\ ~Before(d, z, k)
        <5>1. \E m \in page : m.id = i
          BY <1>0, <3>3, <4>3, PageCovers DEF Scoped, c, page, d, more, z
        <5> QED
          BY <4>1, <5>1 DEF Has, N
      <4>4. CASE more /\ Before(d, z, k)
        <5>1. reader'.cursor = CursorAfter(op, z) /\ Level(CursorAfter(op, z), z) /\ CursorAfter(op, z) \in Cursors
          BY <1>1, <1>8, <4>4
        <5>2. ~Beyond(op, CursorAfter(op, z), k)
          BY <1>1, <2>1, <4>4, <5>1
        <5>3. Before(d, CursorAfter(op, z), k) /\ Timed(CursorAfter(op, z))
          BY <4>4, <5>1, LevelOrder, CursorTimed
        <5>4. op = "outputs" /\ k.at = z.at
          BY <3>1, <5>1, <5>2, <5>3, BeyondFacts DEF d, Level
        <5>5. k.at = rows[i].at
          BY <3>1, <5>4, KeyType, ListFacts
        <5>6. \E r \in N : r[2] = z
          BY <1>5, <1>6, <4>4
        <5> QED
          BY <5>4, <5>5, <5>6 DEF Has, N
      <4> QED
        BY <4>2, <4>3, <4>4
    <3> QED
      BY <3>2, <3>3
  <2>2. \A i \in steady : Key(op, i, 1)' = Key(op, i, 1)
    BY DEF Key
  <2> QED
    BY <1>1, <2>1, <2>2 DEF WalkPassed, Has
<1>16. Scoped'
  BY <1>0 DEF Scoped, InScope
<1>17. PageOK(reader.page, Made)'
  <2>1. Made' = {} /\ reader'.page = {}
    BY <1>1, StagesType DEF Made
  <2> QED
    BY <2>1, FS_EmptySet DEF PageOK, PageKeys, Apart
<1> QED
  BY <1>9, <1>14, <1>15, <1>16, <1>17 DEF WalkInv
\* The stages already made, once the next one is.
LEMMA NextStage ==
    ASSUME op \in Listings, reader.stage \in Stages(op)
    PROVE  LET later == {m \in Stages(op) : m > reader.stage}
               made == Made \cup {reader.stage}
           IN  /\ later = {} => made = Stages(op)
               /\ later # {} => /\ Min(later) \in Stages(op)
                               /\ made = {s \in Stages(op) : s < Min(later)}
<1> DEFINE later == {m \in Stages(op) : m > reader.stage}
           made == Made \cup {reader.stage}
<1>1. Stages(op) \in SUBSET Nat
  BY StagesType
<1>2. \A s \in Stages(op) : s \in made \/ s \in later
  BY <1>1 DEF Made
<1>3. made \in SUBSET Stages(op)
  BY DEF Made
<1>4. ASSUME later # {} PROVE Min(later) \in Stages(op) /\ made = {s \in Stages(op) : s < Min(later)}
  <2>1. \E x \in later : \A y \in later : x <= y
    BY <1>1, <1>4, LeastNat
  <2>2. Min(later) \in later /\ \A y \in later : Min(later) <= y
    BY <2>1 DEF Min
  <2>3. \A s \in made : s < Min(later)
    BY <1>1, <2>2 DEF Made
  <2>4. \A s \in later : ~(s < Min(later))
    BY <1>1, <2>2
  <2> QED
    BY <1>2, <1>3, <2>2, <2>3, <2>4
<1> QED
  BY <1>2, <1>3, <1>4

LEMMA WalkReads ==
    ASSUME Shape, WalkInv, ReadPage
    PROVE  Shape' /\ WalkInv'
<1> DEFINE later == {m \in Stages(op) : m > reader.stage}
           P == reader.page \cup Found(op, reader.stage, reader.cursor, Size)
           made == Made \cup {reader.stage}
<1>0. op \in Listings /\ reader.pc = "read" /\ UNCHANGED <<op, clock, rows, parent, tree, steady>>
  BY DEF ReadPage
<1>1. reader' = IF later # {} THEN [reader EXCEPT !.page = P, !.stage = Min(later)] ELSE Delivered(op, P)
  BY DEF ReadPage, Size, Stages
<1>2. WalkedRows /\ WalkPassed /\ Scoped /\ PageOK(reader.page, Made)
  BY <1>0 DEF WalkInv
<1>3. reader.stage \in Stages(op) /\ reader.stage \notin Made /\ Made \in SUBSET Stages(op)
  <2>1. reader.stage \in Stages(op) /\ Stages(op) \in SUBSET Nat
    BY <1>0, <1>2, StagesType DEF WalkedRows
  <2> QED
    BY <2>1 DEF Made
<1>4. PageOK(P, made)
  BY <1>0, <1>2, <1>3, PageGrows DEF Scoped
<1>5. CASE later = {}
  <2>1. made = Stages(op)
    BY <1>0, <1>3, <1>5, NextStage
  <2>2. reader' = Delivered(op, P)
    BY <1>1, <1>5
  <2>3. PageOK(P, Stages(op))
    BY <1>4, <2>1
  <2> HIDE DEF P
  <2>4. reader' \in Readers /\ WalkInv'
    BY <1>0, <2>2, <2>3, WalkDelivered
  <2> QED
    BY <1>0, <2>4 DEF Shape
<1>6. CASE later # {}
  <2>1. Min(later) \in Stages(op) /\ made = {s \in Stages(op) : s < Min(later)}
    BY <1>0, <1>3, <1>6, NextStage
  <2>2. Min(later) \in Nat
    BY <1>0, <2>1, StagesType
  <2>3. P \in SUBSET Keys
    BY <1>4 DEF PageOK
  <2>4. reader \in Readers
    BY DEF Shape
  <2> HIDE DEF P, later, made
  <2>5. /\ reader' \in Readers /\ reader'.page = P /\ reader'.stage = Min(later)
        /\ reader'.cursor = reader.cursor /\ reader'.pages = reader.pages /\ reader'.pc = reader.pc
    BY <1>1, <1>6, <2>2, <2>3, <2>4 DEF Readers
  <2>6. WalkedRows'
    BY <1>0, <1>2, <2>1, <2>5 DEF WalkedRows, Key
  <2>7. WalkPassed'
    BY <1>0, <1>2, <2>5 DEF WalkPassed, Has, Key
  <2>8. Scoped'
    BY <1>0, <1>2 DEF Scoped, InScope
  <2>9. PageOK(reader.page, Made)'
    <3>1. Made' = made
      BY <1>0, <2>1, <2>5 DEF Made, Stages
    <3>2. PageKeys(reader.page, Made)'
      BY <1>0, <1>4, <2>5, <3>1 DEF PageOK, PageKeys, Past, Key, Trace
    <3>3. \A s \in made, i \in steady : Filled(reader.page, s, i)'
      BY <1>0, <1>4, <2>5 DEF PageOK, Filled, Past, Key, Size
    <3> QED
      BY <1>0, <1>4, <2>5, <3>1, <3>2, <3>3 DEF PageOK
  <2>10. Shape'
    BY <1>0, <2>5 DEF Shape
  <2> QED
    BY <2>6, <2>7, <2>8, <2>9, <2>10 DEF WalkInv
<1> QED
  BY <1>5, <1>6

LEMMA WalkFails ==
    ASSUME Shape, WalkInv, ReadFails
    PROVE  Shape' /\ WalkInv'
<1>0. op \in Listings /\ UNCHANGED <<op, clock, rows, parent, tree, steady>>
  BY DEF ReadFails
<1>1. WalkedRows /\ WalkPassed /\ Scoped
  BY <1>0 DEF WalkInv
<1>2. reader \in Readers
  BY DEF Shape
<1>3. /\ reader' \in Readers /\ reader'.page = {} /\ reader'.stage = 1
      /\ reader'.cursor = reader.cursor /\ reader'.pages = reader.pages /\ reader'.pc = reader.pc
  BY <1>2 DEF Readers, ReadFails
<1>4. 1 \in Stages(op)
  BY <1>0, StagesType
<1>5. WalkedRows'
  BY <1>0, <1>1, <1>3, <1>4 DEF WalkedRows, Key
<1>6. WalkPassed'
  BY <1>0, <1>1, <1>3 DEF WalkPassed, Has, Key
<1>7. Scoped'
  BY <1>0, <1>1 DEF Scoped, InScope
<1>8. PageOK(reader.page, Made)'
  <2>1. Made' = {}
    BY <1>0, <1>3, StagesType DEF Made
  <2> QED
    BY <1>3, <2>1, FS_EmptySet DEF PageOK, PageKeys, Apart
<1> QED
  BY <1>0, <1>3, <1>5, <1>6, <1>7, <1>8 DEF WalkInv, Shape

\* A walk begins: it has nothing, and every row in scope is yet to come.
LEMMA WalkBegins ==
    ASSUME NEW o \in Listings, o = op', Shape', reader'.pc = "read", reader'.cursor = NoCursor, reader'.page = {},
           reader'.stage = 1, reader'.pages = <<>>, steady' = InScopeNow(o)'
    PROVE  WalkInv'
<1>1. RowsOf(reader'.pages) = {}
  BY DEF RowsOf
<1>2. WalkedRows'
  BY <1>1, StagesType DEF WalkedRows, Sorted, NoCursor
<1>3. WalkPassed'
  BY DEF WalkPassed, NoCursor
<1>4. Scoped'
  BY DEF Scoped, InScopeNow
<1>5. PageOK(reader.page, Made)'
  <2>1. Made' = {}
    BY StagesType DEF Made
  <2> QED
    BY <2>1, FS_EmptySet DEF PageOK, PageKeys, Apart
<1> QED
  BY <1>2, <1>3, <1>4, <1>5 DEF WalkInv

LEMMA WalkResorts ==
    ASSUME Shape, WalkInv, Resort
    PROVE  Shape' /\ WalkInv'
<1>1. PICK o \in JobSorts \ {op} :
        /\ op' = o /\ reader' = [NewWalk EXCEPT !.cursor = Decoded(o, reader.cursor)]
        /\ steady' = InScopeNow(o) /\ UNCHANGED <<clock, rows, parent>> /\ op \in JobSorts
  BY DEF Resort
<1>2. o \in Listings /\ op \in Listings
  BY <1>1 DEF Listings, JobLists
<1>3. reader.cursor.sort \in {"none", op} /\ o # "none"
  BY <1>2, ListFacts DEF WalkInv, WalkedRows
<1>4. Decoded(o, reader.cursor) = NoCursor
  BY <1>1, <1>3 DEF Decoded
<1>5. reader' = NewWalk
  BY <1>1, <1>4 DEF NewWalk
<1>6. InScopeNow(o)' = InScopeNow(o) /\ InScopeNow(o) \in SUBSET Ids
  BY <1>1 DEF InScopeNow, InScope
<1>7. Shape'
  BY <1>1, <1>2, <1>5, <1>6, NewWalkType DEF Shape
<1> QED
  BY <1>1, <1>2, <1>5, <1>6, <1>7, WalkBegins DEF NewWalk
\* What may become of a job: it ends at the time it ends, and is retried later.
JobStep(j) ==
    \/ rows'[j] = rows[j]
    \/ rows[j].state = "none"
    \/ rows[j].state = "waiting" /\ (rows'[j].state = "waiting" \/ (rows'[j].state \in Ended /\ rows'[j].at = clock))
    \/ rows[j].state \in Ended /\ ((rows[j].at < clock /\ rows'[j].state = "waiting") \/ rows'[j].state = "gone")

\* Writers and the clock leave a walk as it is, and the rows that are steady.
LEMMA WalkKept ==
    ASSUME Shape, WalkInv, op \in Listings, UNCHANGED <<op, reader, parent>>, clock' \in Int, clock' >= clock,
           rows' \in [Ids -> RowRecord], steady' \subseteq steady,
           \A j \in steady' : rows'[j] = rows[j],
           op \in Staged => \A j \in Ids : JobStep(j)
    PROVE  WalkInv'
<1>0. /\ WalkedRows /\ WalkPassed /\ Scoped /\ PageOK(reader.page, Made) /\ steady \subseteq Ids
      /\ clock \in Int
  BY DEF WalkInv, Shape
<1>1. \A j \in steady' : \A s : Key(op, j, s)' = Key(op, j, s)
  BY DEF Key
<1>2. WalkedRows'
  BY <1>0, <1>1 DEF WalkedRows
<1>3. WalkPassed'
  BY <1>0, <1>1 DEF WalkPassed, Has
<1>4. Scoped'
  <2>1. ASSUME NEW i \in steady' PROVE InScope(op, i)'
    <3>1. InScope(op, i) /\ i \in Ids /\ rows'[i] = rows[i]
      BY <1>0 DEF Scoped
    <3>2. rows[i].at < clock => rows[i].at < clock'
      BY <1>0, <3>1 DEF Shape, RowRecord
    <3> QED
      BY <3>1, <3>2 DEF InScope
  <2> QED
    BY <2>1 DEF Scoped
<1>5. PageOK(reader.page, Made)'
  <2>1. Made' = Made
    BY DEF Made, Stages
  <2>2. reader.page \in SUBSET Keys /\ PageKeys(reader.page, Made)
    BY <1>0 DEF PageOK
  <2>3. ASSUME NEW k \in reader.page, op \in Staged PROVE Trace(k)'
    <3>1. Trace(k) /\ k.id \in Ids /\ k.at \in Int
      BY <2>2, <2>3 DEF PageKeys, Keys
    <3>2. JobStep(k.id)
      BY <2>3, <3>1
    <3>3. k.stage \in Distinct /\ Asked[k.stage] \in Ended
      <4>1. k.stage \in Stages(op)
        BY <2>2 DEF PageKeys, Made
      <4> QED
        BY <2>3, <4>1, StagesType, AskedOnce
    <3>4. rows[k.id].at \in Int /\ rows'[k.id].at \in Int
      BY <3>1 DEF Shape, RowRecord
    <3>5. rows[k.id].state \in Ended => k.at <= rows[k.id].at
      BY <3>1, <3>4 DEF Trace, Ended
    <3>6. CASE rows'[k.id] = rows[k.id]
      BY <1>0, <3>1, <3>6 DEF Trace
    <3>7. CASE rows[k.id].state = "none"
      BY <3>1, <3>3, <3>7 DEF Trace, Ended
    <3>8. CASE rows[k.id].state = "waiting" /\ rows'[k.id].state = "waiting"
      BY <1>0, <3>1, <3>3, <3>8 DEF Trace, Ended
    <3>9. CASE rows[k.id].state = "waiting" /\ rows'[k.id].state \in Ended /\ rows'[k.id].at = clock
      BY <3>1, <3>3, <3>9 DEF Trace, Ended
    <3>10. CASE rows[k.id].state \in Ended /\ rows[k.id].at < clock /\ rows'[k.id].state = "waiting"
      BY <1>0, <3>1, <3>4, <3>5, <3>10 DEF Trace
    <3>11. CASE rows'[k.id].state = "gone"
      BY <3>11 DEF Trace
    <3> QED
      BY <3>2, <3>6, <3>7, <3>8, <3>9, <3>10, <3>11 DEF JobStep
  <2>4. PageKeys(reader.page, Made)'
    BY <1>1, <2>1, <2>2, <2>3 DEF PageKeys
  <2>5. \A s \in Made, i \in steady' : Filled(reader.page, s, i)'
    BY <1>0, <1>1 DEF PageOK, Filled, Size
  <2> QED
    BY <1>0, <2>1, <2>4, <2>5 DEF PageOK
<1> QED
  BY <1>2, <1>3, <1>4, <1>5 DEF WalkInv

LEMMA JobWrites ==
    ASSUME Shape, NEW i \in Ids, op \in JobLists, Writing(i)
    PROVE  JobStep(i)
<1>1. op # "feed" /\ op \notin Growing /\ op \notin Stamped
  BY DEF JobLists, JobSorts, Growing, Stamped
<1>2. \A row : rows' = [rows EXCEPT ![i] = row] => rows'[i] = row
  BY DEF Shape
<1>3. \A s, t : Row(s, t).state = s /\ Row(s, t).at = t
  BY DEF Row
<1>4. ASSUME NEW s, NEW t, Write(i, Row(s, t)) PROVE rows'[i].state = s /\ rows'[i].at = t
  BY <1>2, <1>3, <1>4 DEF Write
<1>5. CASE InsertJob(i)
  BY <1>5 DEF InsertJob, JobStep
<1>6. CASE RescheduleJob(i)
  BY <1>4, <1>6 DEF RescheduleJob, JobStep
<1>7. CASE EndJob(i)
  BY <1>4, <1>7 DEF EndJob, JobStep
<1>8. CASE RetryJob(i)
  BY <1>4, <1>8 DEF RetryJob, JobStep
<1>9. CASE DeleteJob(i)
  BY <1>4, <1>9 DEF DeleteJob, JobStep
<1> QED
  BY <1>1, <1>5, <1>6, <1>7, <1>8, <1>9 DEF Writing, AppendRow, StampRow, PruneRow, StampFinish, CommitFinish,
     FinalizeFails, DeleteRun

\* But for a commit of the feed's, a writer takes its row from those that are steady.
LEMMA WriteUnsteadies ==
    ASSUME NEW i \in Ids, Writing(i), op # "feed"
    PROVE  /\ steady' = steady \ {i}
           /\ grew' = (grew \/ (op = "tree" /\ rows[i].state = "none"))
BY DEF Writing, InsertJob, RescheduleJob, EndJob, RetryJob, DeleteJob, AppendRow, StampRow, PruneRow, StampFinish,
       CommitFinish, FinalizeFails, DeleteRun, Write

LEMMA WalkWrite ==
    ASSUME Shape, WalkInv, NEW i \in Ids, Writing(i)
    PROVE  WalkInv'
<1>0. PICK row \in RowRecord : Changed(i, row)
  BY WritingChanges
<1>1. CASE op \notin Listings
  BY <1>0, <1>1 DEF WalkInv, Changed
<1>2. CASE op \in Listings
  <2>1. /\ rows' = [rows EXCEPT ![i] = row] /\ UNCHANGED <<op, reader, parent, clock>>
        /\ clock \in Int /\ rows \in [Ids -> RowRecord]
    BY <1>0 DEF Changed, Shape
  <2>2. steady' = steady \ {i}
    BY <1>2, WriteUnsteadies DEF Listings, JobLists, JobSorts, Growing, Stamped
  <2>3. rows' \in [Ids -> RowRecord] /\ \A j \in Ids \ {i} : rows'[j] = rows[j]
    BY <2>1
  <2>4. steady \subseteq Ids
    BY DEF Shape
  <2>5. op \in Staged => \A j \in Ids : JobStep(j)
    <3>1. op \in Staged => JobStep(i)
      BY JobWrites DEF Staged, JobLists, JobSorts
    <3> QED
      BY <2>3, <3>1 DEF JobStep
  <2>6. clock' \in Int /\ clock' >= clock
    BY <2>1
  <2> QED
    BY <1>2, <2>1, <2>2, <2>3, <2>4, <2>5, <2>6, WalkKept
<1> QED
  BY <1>1, <1>2

LEMMA WalkTick ==
    ASSUME Shape, WalkInv, Tick
    PROVE  WalkInv'
<1>1. /\ clock' \in Int /\ clock' >= clock /\ UNCHANGED <<op, rows, parent, reader, steady>>
      /\ rows \in [Ids -> RowRecord]
  BY TickShape DEF Shape
<1>2. CASE op \in Listings
  <2>1. \A j \in Ids : JobStep(j)
    BY <1>1 DEF JobStep
  <2> QED
    BY <1>1, <1>2, <2>1, WalkKept
<1>3. CASE op \notin Listings
  BY <1>1, <1>3 DEF WalkInv
<1> QED
  BY <1>2, <1>3

\* What the invariant says of a listing is what is promised of it.
LEMMA WalkGives ==
    ASSUME Shape, WalkInv
    PROVE  ListingExact
<1>1. SUFFICES ASSUME op \in Listings
               PROVE  /\ InOrder(List(op).down)
                      /\ reader.pc = "done" =>
                           \A i \in steady :
                               \/ Times(i) = 1
                               \/ op = "outputs" /\ Times(i) = 0 /\ \E r \in Rows : r[2].at = rows[i].at
  BY DEF ListingExact
<1>2. Rows = RowsOf(reader.pages)
  BY DEF Rows, RowsOf
<1>3. WalkedRows /\ WalkPassed
  BY <1>1 DEF WalkInv
<1>4. InOrder(List(op).down)
  BY <1>2, <1>3 DEF InOrder, WalkedRows, Sorted
<1>5. ASSUME reader.pc = "done", NEW i \in steady
      PROVE  \/ Times(i) = 1
             \/ op = "outputs" /\ Times(i) = 0 /\ \E r \in Rows : r[2].at = rows[i].at
  <2>1. Has(reader.pages, i)
    BY <1>3, <1>5 DEF WalkPassed
  <2>2. \A r \in RowsOf(reader.pages) : r[2].id = i => r[2].at = Key(op, i, 1).at
    BY <1>3, <1>5 DEF WalkedRows
  <2>3. \A a, b \in RowsOf(reader.pages) : a[2].id = i /\ b[2].id = i => a[2].at = b[2].at
    BY <2>2
  <2>4. reader.pages \in Seq(SUBSET Keys) /\ Sorted(RowsOf(reader.pages), List(op).down)
    BY <1>3 DEF Shape, Readers, WalkedRows
  <2>5. IF \E r \in RowsOf(reader.pages) : r[2].id = i
        THEN Cardinality({r \in RowsOf(reader.pages) : r[2].id = i}) = 1
        ELSE Cardinality({r \in RowsOf(reader.pages) : r[2].id = i}) = 0
    BY <2>3, <2>4, GivenOnce
  <2>6. IF \E r \in RowsOf(reader.pages) : r[2].id = i THEN Times(i) = 1 ELSE Times(i) = 0
    BY <1>2, <2>5 DEF Times
  <2> QED
    BY <1>2, <2>1, <2>6 DEF Has
<1> QED
  BY <1>4, <1>5

LEMMA FeedPasses ==
    ASSUME Shape, FeedInv
    PROVE  FeedPassesNone
<1>1. SUFFICES ASSUME op = "feed"
               PROVE  /\ InOrder(FALSE)
                      /\ \A i \in Wanted :
                           /\ rows[i].state = "logged" /\ reader.cursor.sort = "feed"
                           /\ Earlier(reader.from, FeedKey(i)) /\ ~Earlier(reader.cursor, FeedKey(i))
                           => Times(i) = 1
  BY DEF FeedPassesNone
<1>2. Rows = RowsOf(reader.pages)
  BY DEF Rows, RowsOf
<1>3. FeedRows /\ FeedPassed /\ Sorted(RowsOf(reader.pages), FALSE) /\ reader.pages \in Seq(SUBSET Keys)
  BY <1>1 DEF FeedInv, Shape, Readers
<1>4. InOrder(FALSE)
  BY <1>2, <1>3 DEF InOrder, Sorted
<1>5. ASSUME NEW i \in Wanted, rows[i].state = "logged", reader.cursor.sort = "feed",
             Earlier(reader.from, FeedKey(i)), ~Earlier(reader.cursor, FeedKey(i))
      PROVE  Times(i) = 1
  <2>1. \E r \in RowsOf(reader.pages) : r[2].id = i
    BY <1>3, <1>5 DEF FeedPassed, Covered
  <2>2. \A a, b \in RowsOf(reader.pages) : a[2].id = i /\ b[2].id = i => a[2].at = b[2].at
    BY <1>3 DEF FeedRows
  <2>3. Cardinality({r \in RowsOf(reader.pages) : r[2].id = i}) = 1
    BY <1>3, <2>1, <2>2, GivenOnce
  <2> QED
    BY <1>2, <2>3 DEF Times
<1> QED
  BY <1>4, <1>5

----------------------------------------------------------------------------
(* The tree.  The node budget: what is planned for the nodes of a level, in  *)
(* their order, so that what is read below them fits.                        *)

Slots(M, f) == UNION {{m} \X (1..f[m]) : m \in M}

LEMMA OwnSlots ==
    ASSUME NEW m, NEW n \in Nat
    PROVE  IsFiniteSet({m} \X (1..n)) /\ Cardinality({m} \X (1..n)) = n
<1>1. IsFiniteSet({m}) /\ Cardinality({m}) = 1
  BY FS_Singleton, Zenon
<1>2. IsFiniteSet(1..n) /\ Cardinality(1..n) = IF 1 > n THEN 0 ELSE n - 1 + 1
  BY FS_Interval
<1>3. Cardinality(1..n) = n
  BY <1>2
<1>4. /\ IsFiniteSet({m} \X (1..n))
      /\ Cardinality({m} \X (1..n)) = Cardinality({m}) * Cardinality(1..n)
  BY <1>1, <1>2, FS_Product
<1> QED
  BY <1>1, <1>3, <1>4

LEMMA SlotsCard ==
    ASSUME NEW M, IsFiniteSet(M), NEW f, \A m \in M : f[m] \in Nat
    PROVE  IsFiniteSet(Slots(M, f)) /\ Cardinality(Slots(M, f)) \in Nat
<1> DEFINE F == [m \in M |-> {m} \X (1..f[m])]
           R == {F[m] : m \in M}
<1>1. ASSUME NEW m \in M PROVE IsFiniteSet(F[m])
  BY OwnSlots
<1>2. F \in Surjection(M, R)
  BY DEF Surjection
<1>3. IsFiniteSet(R)
  <2> HIDE DEF F, R
  <2> QED
    BY <1>2, FS_Surjection
<1>4. \A T \in R : IsFiniteSet(T)
  BY <1>1
<1>5. Slots(M, f) = UNION R
  BY DEF Slots
<1> HIDE DEF R, F
<1>6. IsFiniteSet(Slots(M, f))
  BY <1>3, <1>4, <1>5, FS_UNION
<1> QED
  BY <1>6, CardType

\* A node's own slots come after those of the nodes before it.
LEMMA SlotsAfter ==
    ASSUME NEW L, IsFiniteSet(L), NEW f, \A m \in L : f[m] \in Nat,
           NEW M \in SUBSET L, NEW n \in L \ M
    PROVE  Cardinality(Slots(M, f)) + f[n] <= Cardinality(Slots(L, f))
<1> DEFINE A == Slots(M, f)
           B == {n} \X (1..f[n])
           S == Slots(L, f)
<1>1. IsFiniteSet(A) /\ Cardinality(A) \in Nat
  <2>1. IsFiniteSet(M)
    BY FS_Subset
  <2> QED
    BY <2>1, SlotsCard
<1>2. IsFiniteSet(B) /\ Cardinality(B) = f[n] /\ f[n] \in Nat
  BY OwnSlots
<1>3. IsFiniteSet(S) /\ Cardinality(S) \in Nat
  BY SlotsCard
<1>4. A \cap B = {}
  BY DEF Slots
<1>5. A \cup B \in SUBSET S
  BY DEF Slots
<1> HIDE DEF A, B, S
<1>6. Cardinality(A \cup B) = Cardinality(A) + Cardinality(B) - Cardinality({})
  BY <1>1, <1>2, <1>4, FS_Union
<1>7. Cardinality(A \cup B) = Cardinality(A) + f[n]
  BY <1>1, <1>2, <1>6, FS_EmptySet
<1>8. Cardinality(A \cup B) <= Cardinality(S)
  BY <1>3, <1>5, SubsetCard
<1> QED
  BY <1>1, <1>2, <1>3, <1>7, <1>8 DEF A, S

TreeFields == {"pc", "level", "place", "depth", "counts", "kids", "listed", "nodes", "truncated"}

\* The jobs listed, and those whose children are to be read, in their order.
TreeListed ==
    /\ DOMAIN tree = TreeFields /\ tree.pc \in {"root", "count", "read", "rest", "done"}
    /\ tree.level \subseteq tree.listed /\ tree.listed \subseteq Ids
    /\ tree.nodes = Cardinality(tree.listed) /\ tree.nodes <= Nodes
    /\ tree.truncated \in BOOLEAN
    /\ tree.pc = "root" => tree.listed = {}
    /\ tree.pc = "done" => tree.level = {}
    /\ tree.listed # {} => 1 \in tree.listed
TreePlaced ==
    tree.pc \in {"count", "read", "rest"} =>
        \A m, n \in tree.level : tree.place[m] \in Nat /\ (tree.place[m] = tree.place[n] => m = n)
CountsType == \A n \in tree.level : tree.counts[n] \in Nat

LEMMA TreeNat ==
    ASSUME TreeListed
    PROVE  /\ IsFiniteSet(tree.listed) /\ IsFiniteSet(tree.level) /\ tree.level \in SUBSET Ids
           /\ tree.nodes \in Nat /\ Nodes - tree.nodes \in Nat
<1>1. tree.listed \in SUBSET Ids /\ tree.level \in SUBSET Ids
  BY DEF TreeListed
<1>2. IsFiniteSet(tree.listed) /\ IsFiniteSet(tree.level)
  BY <1>1, Params, FS_Subset
<1>3. tree.nodes \in Nat /\ tree.nodes <= Nodes
  BY <1>2, CardType DEF TreeListed
<1> QED
  BY <1>1, <1>2, <1>3, Params

LEMMA PlannedFacts ==
    ASSUME TreeListed, TreePlaced, CountsType, tree.pc \in {"read", "rest"}, NEW n \in tree.level
    PROVE  /\ Planned(n) \in Nat
           /\ \A m \in tree.level : tree.place[n] < tree.place[m] => Planned(n) + tree.counts[n] <= Planned(m)
<1> DEFINE L(m) == {l \in tree.level : tree.place[l] < tree.place[m]}
<1>1. \A m \in tree.level : Planned(m) = Cardinality(Slots(L(m), tree.counts))
  BY DEF Planned, Slots
<1>2. \A m \in tree.level : tree.place[m] \in Nat
  BY DEF TreePlaced
<1>3. ASSUME NEW m \in tree.level PROVE IsFiniteSet(L(m)) /\ \A l \in L(m) : tree.counts[l] \in Nat
  <2>1. L(m) \in SUBSET tree.level
    OBVIOUS
  <2> QED
    BY <2>1, TreeNat, FS_Subset DEF CountsType
<1>4. Planned(n) \in Nat
  BY <1>1, <1>3, SlotsCard
<1>5. ASSUME NEW m \in tree.level, tree.place[n] < tree.place[m]
      PROVE  Planned(n) + tree.counts[n] <= Planned(m)
  <2>1. L(n) \in SUBSET L(m) /\ n \in L(m) /\ n \notin L(n)
    BY <1>2, <1>5
  <2>2. Cardinality(Slots(L(n), tree.counts)) + tree.counts[n] <= Cardinality(Slots(L(m), tree.counts))
    BY <1>3, <2>1, SlotsAfter
  <2> QED
    BY <1>1, <2>2
<1> QED
  BY <1>4, <1>5

LEMMA MaxMin ==
    ASSUME NEW a \in Int, NEW b \in Int
    PROVE  /\ Max({a, b}) = IF a >= b THEN a ELSE b
           /\ Min({a, b}) = IF a <= b THEN a ELSE b
<1>1. \E x \in {a, b} : \A y \in {a, b} : x >= y
  OBVIOUS
<1>2. \E x \in {a, b} : \A y \in {a, b} : x <= y
  OBVIOUS
<1>3. Max({a, b}) \in {a, b} /\ \A y \in {a, b} : Max({a, b}) >= y
  BY <1>1 DEF Max
<1>4. Min({a, b}) \in {a, b} /\ \A y \in {a, b} : Min({a, b}) <= y
  BY <1>2 DEF Min
<1> QED
  BY <1>3, <1>4

LEMMA TakeFacts ==
    ASSUME TreeListed, TreePlaced, CountsType, tree.pc \in {"read", "rest"}, NEW n \in tree.level
    PROVE  /\ Take(n) \in Nat /\ Take(n) <= tree.counts[n]
           /\ Take(n) > 0 => Take(n) + Planned(n) <= Nodes - tree.nodes
<1> DEFINE left == Nodes - tree.nodes - Planned(n)
           c == tree.counts[n]
<1>1. /\ Planned(n) \in Nat /\ c \in Nat /\ c \in Int /\ Nodes - tree.nodes \in Nat /\ left \in Int
      /\ tree.nodes \in Nat
  BY PlannedFacts, TreeNat DEF CountsType
<1>2. Take(n) = IF tree.depth = Depth THEN 0 ELSE Max({0, Min({c, left})})
  BY DEF Take
<1>3. Min({c, left}) = (IF c <= left THEN c ELSE left) /\ Min({c, left}) \in Int
  <2> HIDE DEF c, left
  <2> QED
    BY <1>1, MaxMin
<1>4. Max({0, Min({c, left})}) = IF 0 >= Min({c, left}) THEN 0 ELSE Min({c, left})
  <2> HIDE DEF c, left
  <2> QED
    BY <1>3, MaxMin
<1> QED
  BY <1>1, <1>2, <1>3, <1>4

\* No two of a set have as many of it above them.
LEMMA RankNat ==
    ASSUME NEW T \in SUBSET Nat, IsFiniteSet(T), NEW i \in T, NEW j \in T,
           Cardinality({x \in T : x > i}) = Cardinality({x \in T : x > j})
    PROVE  i = j
<1> DEFINE A(x) == {y \in T : y > x}
<1>1. ASSUME NEW a \in T, NEW b \in T, a > b PROVE Cardinality(A(a)) < Cardinality(A(b))
  <2>0. (\A y \in T : y > a => y > b) /\ ~(a > a)
    BY <1>1
  <2>1. A(a) \in SUBSET A(b) /\ a \in A(b) /\ a \notin A(a)
    BY <1>1, <2>0
  <2>2. A(b) \in SUBSET T
    OBVIOUS
  <2>3. IsFiniteSet(A(b)) /\ A(a) # A(b)
    BY <2>1, <2>2, SubsetCard
  <2> QED
    BY <2>1, <2>3, SubsetCard
<1>2. \A a \in T : Cardinality(A(a)) \in Nat
  <2>1. \A a \in T : A(a) \in SUBSET T
    OBVIOUS
  <2> QED
    BY <2>1, SubsetCard
<1>3. ~(i > j) /\ ~(j > i)
  <2>1. Cardinality(A(i)) = Cardinality(A(j)) /\ Cardinality(A(i)) \in Nat /\ Cardinality(A(j)) \in Nat
    BY <1>2
  <2> HIDE DEF A
  <2> QED
    BY <1>1, <2>1
<1> QED
  BY <1>3

\* Children, each of its parent and with fewer newer ones beside it than are
\* taken of them.
FitsAt(S, n) ==
    /\ S \in SUBSET Ids
    /\ \A i \in S : parent[i] = n /\ Cardinality({j \in S : j > i}) < Take(n)
Fit(K) == \A n \in tree.level : FitsAt(K[n], n)

\* They fit in what the budget leaves.
LEMMA FitsBudget ==
    ASSUME TreeListed, TreePlaced, CountsType, tree.pc \in {"read", "rest"}, NEW K, Fit(K)
    PROVE  LET next == UNION {K[n] : n \in tree.level}
           IN  IsFiniteSet(next) /\ next \in SUBSET Ids /\ Cardinality(next) <= Nodes - tree.nodes
<1> DEFINE next == UNION {K[n] : n \in tree.level}
           Newer(i) == {j \in K[parent[i]] : j > i}
           f == [i \in next |-> Planned(parent[i]) + Cardinality(Newer(i))]
           B == Nodes - tree.nodes
<1>1. next \in SUBSET Ids
  BY DEF Fit, FitsAt
<1>2. ASSUME NEW i \in next
      PROVE  /\ parent[i] \in tree.level /\ i \in K[parent[i]] /\ i \in Nat
             /\ IsFiniteSet(Newer(i)) /\ Cardinality(Newer(i)) \in Nat
             /\ Cardinality(Newer(i)) < Take(parent[i])
  <2>1. PICK n \in tree.level : i \in K[n]
    OBVIOUS
  <2>2. n = parent[i] /\ Cardinality(Newer(i)) < Take(parent[i])
    BY <2>1 DEF Fit, FitsAt
  <2>3. Newer(i) \in SUBSET Ids
    BY <2>1, <2>2 DEF Fit, FitsAt
  <2>4. i \in Nat
    BY <1>1, Params
  <2> QED
    BY <2>1, <2>2, <2>3, <2>4, Params, SubsetCard
<1>3. B \in Nat
  BY TreeNat
<1>4. ASSUME NEW i \in next
      PROVE  /\ f[i] \in Nat /\ f[i] < B /\ f[i] < Planned(parent[i]) + tree.counts[parent[i]]
             /\ f[i] >= Planned(parent[i])
  <2> DEFINE p == parent[i]
             r == Cardinality(Newer(i))
  <2>1. p \in tree.level /\ r \in Nat /\ r < Take(p) /\ f[i] = Planned(p) + r
    BY <1>2
  <2>2. Planned(p) \in Nat /\ tree.counts[p] \in Nat
    BY <2>1, PlannedFacts DEF CountsType
  <2>3. Take(p) \in Nat /\ Take(p) <= tree.counts[p] /\ (Take(p) > 0 => Take(p) + Planned(p) <= B)
    BY <2>1, TakeFacts
  <2> HIDE DEF p, r, f, B
  <2>4. f[i] \in Nat /\ f[i] < B /\ f[i] < Planned(p) + tree.counts[p] /\ f[i] >= Planned(p)
    BY <1>3, <2>1, <2>2, <2>3
  <2> QED
    BY <2>4 DEF p
<1>5. ASSUME NEW i \in next, NEW j \in next, f[i] = f[j] PROVE i = j
  <2>1. CASE parent[i] = parent[j]
    <3> DEFINE T == K[parent[i]]
    <3>1. Planned(parent[i]) \in Nat /\ Cardinality(Newer(i)) \in Nat /\ Cardinality(Newer(j)) \in Nat
      BY <1>2, PlannedFacts
    <3>2. f[i] = Planned(parent[i]) + Cardinality(Newer(i)) /\ f[j] = Planned(parent[i]) + Cardinality(Newer(j))
      BY <2>1
    <3>3. Cardinality(Newer(i)) = Cardinality(Newer(j))
      <4>1. \A a, b, c \in Nat : a + b = a + c => b = c
        OBVIOUS
      <4>2. Planned(parent[i]) + Cardinality(Newer(i)) = Planned(parent[i]) + Cardinality(Newer(j))
        BY <1>5, <3>2
      <4> HIDE DEF f, Newer
      <4> QED
        BY <3>1, <4>1, <4>2
    <3>4. T \in SUBSET Ids /\ i \in T /\ j \in T
      BY <1>2, <2>1 DEF Fit, FitsAt
    <3>5. T \in SUBSET Nat /\ IsFiniteSet(T)
      BY <3>4, Params, FS_Subset
    <3>6. Newer(i) = {x \in T : x > i} /\ Newer(j) = {x \in T : x > j}
      BY <2>1
    <3> HIDE DEF T, Newer
    <3> QED
      BY <3>3, <3>4, <3>5, <3>6, RankNat
  <2>2. ASSUME NEW a \in next, NEW b \in next, f[a] = f[b], tree.place[parent[a]] < tree.place[parent[b]] PROVE FALSE
    <3>1. Planned(parent[a]) + tree.counts[parent[a]] <= Planned(parent[b])
      BY <1>2, <2>2, PlannedFacts
    <3>2. Planned(parent[a]) \in Nat /\ tree.counts[parent[a]] \in Nat /\ Planned(parent[b]) \in Nat
      BY <1>2, PlannedFacts DEF CountsType
    <3>3. f[a] < Planned(parent[a]) + tree.counts[parent[a]] /\ f[b] >= Planned(parent[b]) /\ f[a] \in Nat
      BY <1>4
    <3> HIDE DEF f
    <3> QED
      BY <2>2, <3>1, <3>2, <3>3
  <2>3. CASE parent[i] # parent[j]
    <3>1. /\ tree.place[parent[i]] \in Nat /\ tree.place[parent[j]] \in Nat
          /\ tree.place[parent[i]] # tree.place[parent[j]]
      BY <1>2, <2>3 DEF TreePlaced
    <3>2. tree.place[parent[i]] < tree.place[parent[j]] \/ tree.place[parent[j]] < tree.place[parent[i]]
      BY <3>1
    <3> QED
      BY <1>5, <2>2, <3>2
  <2> QED
    BY <2>1, <2>3
<1>6. f \in Injection(next, 0..(B - 1))
  <2>1. f \in [next -> 0..(B - 1)]
    <3>1. ASSUME NEW i \in next PROVE f[i] \in 0..(B - 1)
      <4>1. f[i] \in Nat /\ f[i] < B
        BY <1>4
      <4> HIDE DEF f, B
      <4> QED
        BY <1>3, <4>1
    <3>2. f = [i \in next |-> f[i]]
      OBVIOUS
    <3> HIDE DEF f, B, next
    <3> QED
      BY <3>1, <3>2
  <2> HIDE DEF f
  <2> QED
    BY <1>5, <2>1 DEF Injection, IsInjective
<1>7. IsFiniteSet(0..(B - 1)) /\ Cardinality(0..(B - 1)) = B
  <2>1. 0 \in Int /\ B - 1 \in Int
    BY <1>3
  <2>2. IsFiniteSet(0..(B - 1)) /\ Cardinality(0..(B - 1)) = IF 0 > B - 1 THEN 0 ELSE (B - 1) - 0 + 1
    BY <2>1, FS_Interval
  <2> HIDE DEF B
  <2> QED
    BY <1>3, <2>2
<1> HIDE DEF f, next, B
<1>8. IsFiniteSet(next) /\ Cardinality(next) <= B
  BY <1>6, <1>7, FS_Injection
<1> QED
  BY <1>1, <1>8 DEF next, B

TreeCounts ==
    tree.pc \in {"read", "rest"} =>
        CountsType /\ (~grew => \A n \in tree.level : Cardinality(Kids(n)) <= tree.counts[n])
TreeRest == tree.pc = "rest" => Fit(tree.kids) /\ Cut
TreeSteady == \A j \in steady : rows[j].state \notin Absent

\* What is above the level that is read is listed whole.
TreeClosed ==
    ~tree.truncated /\ ~grew => \A j \in steady : parent[j] \in tree.listed \ tree.level => j \in tree.listed

TreeInv ==
    op = "tree" => TreeListed /\ TreePlaced /\ TreeCounts /\ TreeRest /\ TreeSteady /\ TreeClosed

\* The next level is in a strict order, and so placed one by one.
LEMMA NextPlaced ==
    ASSUME TreePlaced, tree.pc \in {"read", "rest"}, NEW next \in SUBSET Ids,
           \A i \in next : parent[i] \in tree.level,
           NEW i \in next, NEW j \in next
    PROVE  /\ Cardinality({x \in next : Sooner(x, i)}) \in Nat
           /\ Cardinality({x \in next : Sooner(x, i)}) = Cardinality({x \in next : Sooner(x, j)}) => i = j
<1> DEFINE A(y) == {x \in next : Sooner(x, y)}
<1>0. IsFiniteSet(next)
  BY Params, FS_Subset
<1>1. \A y \in next : IsFiniteSet(A(y)) /\ Cardinality(A(y)) \in Nat
  <2>1. \A y \in next : A(y) \in SUBSET next
    OBVIOUS
  <2> QED
    BY <1>0, <2>1, SubsetCard
<1>2. \A x \in next : x \in Nat /\ tree.place[parent[x]] \in Nat
  BY Params DEF TreePlaced
<1>3. \A x, y \in next : tree.place[parent[x]] = tree.place[parent[y]] => parent[x] = parent[y]
  BY DEF TreePlaced
<1>4. \A x, y \in next : x # y => Sooner(x, y) \/ Sooner(y, x)
  BY <1>2, <1>3 DEF Sooner
<1>5. \A x, y, z \in next : Sooner(x, y) /\ Sooner(y, z) => Sooner(x, z)
  BY <1>2 DEF Sooner
<1>6. \A x \in next : ~Sooner(x, x)
  BY <1>2 DEF Sooner
<1>7. ASSUME NEW x \in next, NEW y \in next, Sooner(x, y) PROVE Cardinality(A(x)) < Cardinality(A(y))
  <2>1. A(x) \in SUBSET A(y) /\ x \in A(y) /\ x \notin A(x)
    BY <1>5, <1>6, <1>7
  <2>2. A(x) # A(y)
    BY <2>1
  <2> QED
    BY <1>1, <2>1, <2>2, SubsetCard
<1>8. ASSUME Cardinality(A(i)) = Cardinality(A(j)) PROVE i = j
  <2>1. ~Sooner(i, j) /\ ~Sooner(j, i)
    <3>1. Cardinality(A(i)) \in Nat /\ Cardinality(A(j)) \in Nat
      BY <1>1
    <3> HIDE DEF A
    <3> QED
      BY <1>7, <1>8, <3>1
  <2> QED
    BY <1>4, <2>1
<1> QED
  BY <1>1, <1>8

LEMMA TreeDescends ==
    ASSUME Shape, op = "tree", TreeInv, tree.pc \in {"read", "rest"}, NEW K, Fit(K), tree' = Descended(K),
           ~Cut /\ ~grew => \A j \in steady : parent[j] \in tree.level => j \in K[parent[j]],
           UNCHANGED <<op, rows, parent, steady, grew>>
    PROVE  TreeInv'
<1> DEFINE all == UNION {K[n] : n \in tree.level}
           next == all \ tree.listed
<1>0. TreeListed /\ TreePlaced /\ CountsType /\ TreeSteady /\ TreeClosed
  BY DEF TreeInv, TreeCounts
<1>1. DOMAIN tree = TreeFields
  BY <1>0 DEF TreeListed
<1>2. /\ DOMAIN tree' = TreeFields /\ tree'.level = next /\ tree'.listed = tree.listed \cup next
      /\ tree'.pc = IF next = {} THEN "done" ELSE "count"
      /\ tree'.place = [i \in next |-> Cardinality({j \in next : Sooner(j, i)})]
      /\ tree'.nodes = tree.nodes + Cardinality(next)
      /\ tree'.truncated = (tree.truncated \/ Cut)
  <2> DEFINE D == Descended(K)
  <2>1. {"pc", "level", "place", "listed", "nodes", "truncated"} \subseteq DOMAIN tree
    BY <1>1 DEF TreeFields
  <2>2. /\ DOMAIN D = DOMAIN tree /\ D.level = next /\ D.listed = tree.listed \cup next
        /\ D.pc = IF next = {} THEN "done" ELSE "count"
        /\ D.place = [i \in next |-> Cardinality({j \in next : Sooner(j, i)})]
    BY <2>1 DEF Descended
  <2>3. D.nodes = tree.nodes + Cardinality(next)
    BY <2>1 DEF Descended
  <2>4. D.truncated = (tree.truncated \/ Cut)
    BY <2>1 DEF Descended
  <2> QED
    BY <1>1, <2>2, <2>3, <2>4
<1>3. IsFiniteSet(all) /\ all \in SUBSET Ids /\ Cardinality(all) <= Nodes - tree.nodes
  BY <1>0, FitsBudget
<1>4. /\ tree.listed \in SUBSET Ids /\ IsFiniteSet(tree.listed) /\ tree.nodes \in Nat /\ Nodes - tree.nodes \in Nat
      /\ tree.nodes = Cardinality(tree.listed)
  BY <1>0, TreeNat DEF TreeListed
<1>5. ASSUME NEW i \in all PROVE parent[i] \in tree.level
  <2>1. PICK n \in tree.level : i \in K[n]
    OBVIOUS
  <2> QED
    BY <2>1 DEF Fit, FitsAt
<1> HIDE DEF all
<1>6. /\ IsFiniteSet(next) /\ next \in SUBSET Ids /\ next \cap tree.listed = {}
      /\ Cardinality(next) \in Nat /\ Cardinality(next) <= Nodes - tree.nodes
  <2>1. next \in SUBSET all
    OBVIOUS
  <2>2. IsFiniteSet(next) /\ Cardinality(next) \in Nat /\ Cardinality(all) \in Nat /\ Cardinality(next) <= Cardinality(all)
    BY <1>3, <2>1, SubsetCard
  <2>3. Cardinality(next) <= Nodes - tree.nodes
    <3> HIDE DEF next
    <3> QED
      BY <1>3, <1>4, <2>2
  <2> QED
    BY <1>3, <2>2, <2>3
<1>7. \A i \in next : parent[i] \in tree.level
  BY <1>5
<1>8. \A j \in steady : parent[j] \in tree.level /\ j \in K[parent[j]] => j \in next \cup tree.listed
  BY DEF all
<1> HIDE DEF next
<1>9. TreeListed'
  <2>1. Cardinality(tree.listed \cup next) = tree.nodes + Cardinality(next)
    <3>1. Cardinality(tree.listed \cup next) = Cardinality(tree.listed) + Cardinality(next) - Cardinality(tree.listed \cap next)
      BY <1>4, <1>6, FS_Union
    <3>2. tree.listed \cap next = {}
      BY <1>6
    <3>3. Cardinality(tree.listed \cap next) = 0
      BY <3>2, FS_EmptySet
    <3> QED
      BY <1>4, <1>6, <3>1, <3>3
  <2>2. tree'.nodes <= Nodes
    BY <1>2, <1>4, <1>6, Params
  <2>3. tree'.truncated \in BOOLEAN
    BY <1>2
  <2>4. tree'.listed # {} => 1 \in tree'.listed
    <3>1. next # {} => tree.listed # {}
      BY <1>0, <1>7 DEF TreeListed
    <3> QED
      BY <1>0, <1>2, <3>1 DEF TreeListed
  <2> QED
    BY <1>2, <1>4, <1>6, <2>1, <2>2, <2>3, <2>4 DEF TreeListed
<1>10. TreePlaced'
  <2>1. ASSUME NEW m \in next, NEW n \in next
        PROVE  tree'.place[m] \in Nat /\ (tree'.place[m] = tree'.place[n] => m = n)
    <3>1. tree'.place[m] = Cardinality({x \in next : Sooner(x, m)}) /\ tree'.place[n] = Cardinality({x \in next : Sooner(x, n)})
      BY <1>2
    <3> QED
      BY <1>0, <1>6, <1>7, <3>1, NextPlaced
  <2> QED
    BY <1>2, <2>1 DEF TreePlaced
<1>11. TreeCounts' /\ TreeRest'
  BY <1>2 DEF TreeCounts, TreeRest
<1>12. TreeSteady'
  BY <1>0 DEF TreeSteady
<1>13. TreeClosed'
  <2>1. ASSUME ~tree'.truncated, ~grew, NEW j \in steady, parent[j] \in tree'.listed \ tree'.level
        PROVE  j \in tree'.listed
    <3>1. ~tree.truncated /\ ~Cut
      BY <1>2, <2>1
    <3>2. parent[j] \in tree.listed
      BY <1>2, <2>1
    <3>3. CASE parent[j] \in tree.level
      BY <1>2, <1>8, <2>1, <3>1, <3>3
    <3>4. CASE parent[j] \notin tree.level
      BY <1>0, <1>2, <2>1, <3>1, <3>2, <3>4 DEF TreeClosed
    <3> QED
      BY <3>3, <3>4
  <2> QED
    BY <2>1 DEF TreeClosed
<1> QED
  BY <1>9, <1>10, <1>11, <1>12, <1>13 DEF TreeInv

\* What is taken of a node's children, as they are now.
LEMMA NewestFits ==
    ASSUME NEW n, NEW t \in Nat
    PROVE  /\ Newest(Kids(n), t) \in SUBSET Ids /\ IsFiniteSet(Kids(n)) /\ Kids(n) \in SUBSET Ids
           /\ \A i \in Newest(Kids(n), t) : parent[i] = n /\ Cardinality({j \in Newest(Kids(n), t) : j > i}) < t
           /\ Cardinality(Kids(n)) <= t => Newest(Kids(n), t) = Kids(n)
<1> DEFINE S == Kids(n)
           T == Newest(S, t)
<1>1. S \in SUBSET Ids /\ \A i \in S : parent[i] = n
  BY DEF Kids
<1>2. IsFiniteSet(S) /\ Cardinality(S) \in Nat /\ S \in SUBSET Nat
  BY <1>1, Params, FS_Subset, CardType
<1> HIDE DEF S
<1>3. T \in SUBSET S
  BY DEF Newest
<1>4. ASSUME NEW i \in T PROVE Cardinality({j \in T : j > i}) < t
  <2>1. {j \in T : j > i} \in SUBSET {j \in S : j > i} /\ {j \in S : j > i} \in SUBSET S
    BY <1>3
  <2>2. Cardinality({j \in S : j > i}) < t
    BY DEF Newest
  <2>3. IsFiniteSet({j \in S : j > i}) /\ Cardinality({j \in S : j > i}) \in Nat
    BY <1>2, <2>1, SubsetCard
  <2>4. Cardinality({j \in T : j > i}) <= Cardinality({j \in S : j > i}) /\ Cardinality({j \in T : j > i}) \in Nat
    BY <2>1, <2>3, SubsetCard
  <2> QED
    BY <2>2, <2>3, <2>4
<1>5. ASSUME Cardinality(S) <= t PROVE T = S
  <2>1. ASSUME NEW i \in S PROVE Cardinality({j \in S : j > i}) < t
    <3>1. {j \in S : j > i} \in SUBSET S
      OBVIOUS
    <3>2. {j \in S : j > i} # S
      <4>1. ~(i > i)
        BY <1>2
      <4> QED
        BY <4>1
    <3>3. Cardinality({j \in S : j > i}) < Cardinality(S) /\ Cardinality({j \in S : j > i}) \in Nat
      BY <1>2, <3>1, <3>2, SubsetCard
    <3> QED
      BY <1>2, <1>5, <3>3
  <2> QED
    BY <2>1 DEF Newest
<1> QED
  BY <1>1, <1>2, <1>3, <1>4, <1>5 DEF S

LEMMA TreeRoot ==
    ASSUME Shape, TreeInv, FindRoot
    PROVE  TreeInv'
<1>0. op = "tree" /\ tree.pc = "root" /\ UNCHANGED <<op, rows, parent, steady, grew>>
  BY DEF FindRoot
<1>1. TreeListed /\ TreeSteady /\ DOMAIN tree = TreeFields /\ tree.listed = {} /\ tree.level = {}
  BY <1>0 DEF TreeInv, TreeListed
<1>2. TreeSteady'
  BY <1>0, <1>1 DEF TreeSteady
<1>3. CASE rows[1].state \in Absent
  <2>1. tree' = [tree EXCEPT !.pc = "done"]
    BY <1>3 DEF FindRoot
  <2>2. /\ DOMAIN tree' = TreeFields /\ tree'.pc = "done" /\ tree'.level = {} /\ tree'.listed = {}
        /\ tree'.nodes = tree.nodes /\ tree'.truncated = tree.truncated
    BY <1>1, <2>1 DEF TreeFields
  <2>3. TreeListed'
    BY <1>1, <2>2 DEF TreeListed
  <2>4. TreePlaced' /\ TreeCounts' /\ TreeRest' /\ TreeClosed'
    BY <2>2 DEF TreePlaced, TreeCounts, TreeRest, TreeClosed
  <2> QED
    BY <1>2, <2>3, <2>4 DEF TreeInv
<1>4. CASE rows[1].state \notin Absent
  <2>1. tree' = [tree EXCEPT !.pc = "count", !.level = {1}, !.place = [n \in {1} |-> 1], !.listed = {1}, !.nodes = 1]
    BY <1>4 DEF FindRoot
  <2>2. /\ DOMAIN tree' = TreeFields /\ tree'.pc = "count" /\ tree'.level = {1} /\ tree'.listed = {1}
        /\ tree'.nodes = 1 /\ tree'.truncated = tree.truncated /\ tree'.place = [n \in {1} |-> 1]
    BY <1>1, <2>1 DEF TreeFields
  <2>3. Cardinality({1}) = 1
    BY FS_Singleton
  <2>4. 1 <= Nodes /\ {1} \subseteq Ids
    BY Params
  <2>5. TreeListed'
    BY <1>1, <2>2, <2>3, <2>4 DEF TreeListed
  <2>6. TreePlaced'
    BY <2>2 DEF TreePlaced
  <2>7. TreeCounts' /\ TreeRest' /\ TreeClosed'
    BY <2>2 DEF TreeCounts, TreeRest, TreeClosed
  <2> QED
    BY <1>2, <2>5, <2>6, <2>7 DEF TreeInv
<1> QED
  BY <1>3, <1>4

LEMMA TreeCount ==
    ASSUME Shape, TreeInv, CountChildren
    PROVE  TreeInv'
<1>0. op = "tree" /\ tree.pc = "count" /\ UNCHANGED <<op, rows, parent, steady, grew>>
  BY DEF CountChildren
<1>1. TreeListed /\ TreePlaced /\ TreeSteady /\ TreeClosed /\ DOMAIN tree = TreeFields
  BY <1>0 DEF TreeInv, TreeListed
<1>2. /\ DOMAIN tree' = TreeFields /\ tree'.pc = "read" /\ tree'.level = tree.level /\ tree'.listed = tree.listed
      /\ tree'.nodes = tree.nodes /\ tree'.truncated = tree.truncated /\ tree'.place = tree.place
      /\ tree'.counts = [n \in tree.level |-> Cardinality(Kids(n))]
  BY <1>1 DEF CountChildren, TreeFields
<1>3. TreeListed' /\ TreePlaced'
  BY <1>0, <1>1, <1>2 DEF TreeListed, TreePlaced
<1>4. TreeSteady' /\ TreeClosed'
  BY <1>0, <1>1, <1>2 DEF TreeSteady, TreeClosed
<1>5. \A n : IsFiniteSet(Kids(n)) /\ Cardinality(Kids(n)) \in Nat
  <2>1. \A n : Kids(n) \in SUBSET Ids
    BY DEF Kids
  <2> QED
    BY <2>1, Params, SubsetCard
<1>6. \A n : Kids(n)' = Kids(n)
  BY <1>0 DEF Kids
<1>7. \A n \in tree.level : tree'.counts[n] \in Nat /\ Cardinality(Kids(n)') <= tree'.counts[n]
  BY <1>2, <1>5, <1>6
<1>8. TreeCounts' /\ TreeRest'
  BY <1>2, <1>7 DEF TreeCounts, TreeRest, CountsType
<1> QED
  BY <1>3, <1>4, <1>8 DEF TreeInv

\* A level that is not cut is read whole.
LEMMA WholeUnlessCut ==
    ASSUME TreeListed, TreePlaced, CountsType, tree.pc \in {"read", "rest"}, ~Cut, NEW n \in tree.level
    PROVE  Whole(n)
<1>1. Take(n) \in Nat /\ Take(n) <= tree.counts[n] /\ tree.counts[n] \in Nat
  BY TakeFacts DEF CountsType
<1> QED
  BY <1>1 DEF Cut, Whole

LEMMA TreeReadWhole ==
    ASSUME Shape, TreeInv, ReadWhole
    PROVE  TreeInv'
<1> DEFINE K == [n \in tree.level |-> IF Whole(n) THEN Read(n, TRUE) ELSE {}]
<1>0. op = "tree" /\ tree.pc = "read" /\ UNCHANGED <<op, rows, parent, steady, grew>>
  BY DEF ReadWhole
<1>1. /\ TreeListed /\ TreePlaced /\ CountsType /\ TreeSteady /\ TreeClosed /\ DOMAIN tree = TreeFields
      /\ ~grew => \A n \in tree.level : Cardinality(Kids(n)) <= tree.counts[n]
  BY <1>0 DEF TreeInv, TreeListed, TreeCounts
<1>2. tree' = IF \E n \in tree.level : Take(n) > 0 /\ ~Whole(n) THEN [tree EXCEPT !.pc = "rest", !.kids = K] ELSE Descended(K)
  BY DEF ReadWhole
<1>3. \A n \in tree.level : Take(n) \in Nat /\ Take(n) <= tree.counts[n] /\ tree.counts[n] \in Nat
  BY <1>0, <1>1, TakeFacts DEF CountsType
<1>4. \A n \in tree.level : K[n] = IF Whole(n) THEN Newest(Kids(n), Take(n)) ELSE {}
  BY DEF Read
<1>5. Fit(K)
  <2>1. ASSUME NEW n \in tree.level PROVE FitsAt(K[n], n)
    <3>1. FitsAt(Newest(Kids(n), Take(n)), n)
      BY <1>3, NewestFits DEF FitsAt
    <3>2. FitsAt({}, n)
      BY DEF FitsAt
    <3> HIDE DEF K
    <3> QED
      BY <1>4, <3>1, <3>2
  <2> QED
    BY <2>1 DEF Fit
<1>6. ASSUME ~Cut, ~grew, NEW j \in steady, parent[j] \in tree.level PROVE j \in K[parent[j]]
  <2> DEFINE n == parent[j]
  <2>1. Whole(n) /\ n \in tree.level
    BY <1>0, <1>1, <1>6, WholeUnlessCut
  <2>2. Take(n) = tree.counts[n] /\ Take(n) \in Nat
    BY <1>3, <2>1 DEF Whole
  <2>3. Cardinality(Kids(n)) <= Take(n)
    BY <1>1, <1>6, <2>1, <2>2
  <2>4. K[n] = Kids(n)
    BY <1>4, <2>1, <2>2, <2>3, NewestFits
  <2>5. j \in Kids(n)
    BY <1>1 DEF Kids, TreeSteady, Shape
  <2> QED
    BY <2>4, <2>5
<1> HIDE DEF K
<1>7. CASE \E n \in tree.level : Take(n) > 0 /\ ~Whole(n)
  <2>1. tree' = [tree EXCEPT !.pc = "rest", !.kids = K]
    BY <1>2, <1>7
  <2>2. /\ DOMAIN tree' = TreeFields /\ tree'.pc = "rest" /\ tree'.kids = K
        /\ tree'.level = tree.level /\ tree'.listed = tree.listed /\ tree'.nodes = tree.nodes
        /\ tree'.truncated = tree.truncated /\ tree'.place = tree.place
        /\ tree'.counts = tree.counts /\ tree'.depth = tree.depth
    BY <1>1, <2>1 DEF TreeFields
  <2>3. TreeListed' /\ TreePlaced'
    BY <1>0, <1>1, <2>2 DEF TreeListed, TreePlaced
  <2>4. TreeSteady' /\ TreeClosed'
    BY <1>0, <1>1, <2>2 DEF TreeSteady, TreeClosed
  <2>5. TreeCounts'
    <3>1. \A n : Kids(n)' = Kids(n)
      BY <1>0 DEF Kids
    <3> QED
      BY <1>0, <1>1, <2>2, <3>1 DEF TreeCounts, CountsType
  <2>6. \A n \in tree.level : Take(n)' = Take(n)
    BY <2>2 DEF Take, Planned
  <2>7. Fit(tree.kids)'
    BY <1>0, <1>5, <2>2, <2>6 DEF Fit, FitsAt
  <2>8. Cut'
    <3>1. PICK n \in tree.level : ~Whole(n)
      BY <1>7
    <3>2. Take(n) < tree.counts[n]
      BY <1>3, <3>1 DEF Whole
    <3>3. Take(n)' < tree'.counts[n] /\ n \in tree'.level
      BY <2>2, <2>6, <3>2
    <3> QED
      BY <3>3 DEF Cut
  <2> QED
    BY <2>3, <2>4, <2>5, <2>7, <2>8 DEF TreeInv, TreeRest
<1>8. CASE ~\E n \in tree.level : Take(n) > 0 /\ ~Whole(n)
  <2>1. tree' = Descended(K)
    BY <1>2, <1>8
  <2> QED
    BY <1>0, <1>5, <1>6, <2>1, TreeDescends
<1> QED
  BY <1>7, <1>8

LEMMA TreeReadPart ==
    ASSUME Shape, TreeInv, ReadPart
    PROVE  TreeInv'
<1> DEFINE K == [n \in tree.level |-> Read(n, FALSE)]
<1>0. op = "tree" /\ tree.pc = "rest" /\ UNCHANGED <<op, rows, parent, steady, grew>> /\ tree' = Descended(K)
  BY DEF ReadPart
<1>1. TreeListed /\ TreePlaced /\ CountsType /\ Fit(tree.kids) /\ Cut
  BY <1>0 DEF TreeInv, TreeCounts, TreeRest
<1>2. \A n \in tree.level : Take(n) \in Nat
  BY <1>0, <1>1, TakeFacts
<1>3. \A n \in tree.level : K[n] \in {Newest(Kids(n), Take(n)), tree.kids[n]}
  BY DEF Read
<1>4. Fit(K)
  <2>1. ASSUME NEW n \in tree.level PROVE FitsAt(K[n], n)
    <3>1. FitsAt(Newest(Kids(n), Take(n)), n)
      BY <1>2, NewestFits DEF FitsAt
    <3>2. FitsAt(tree.kids[n], n)
      BY <1>1 DEF Fit
    <3> HIDE DEF K
    <3> QED
      BY <1>3, <3>1, <3>2
  <2> QED
    BY <2>1 DEF Fit
<1> HIDE DEF K
<1> QED
  BY <1>0, <1>1, <1>4, TreeDescends

LEMMA RestKept ==
    ASSUME TreeRest, UNCHANGED <<tree, parent>>
    PROVE  TreeRest'
<1>1. \A n : Take(n)' = Take(n)
  BY DEF Take, Planned
<1>2. \A S, n : FitsAt(S, n) => FitsAt(S, n)'
  BY <1>1 DEF FitsAt
<1>3. Fit(tree.kids) => Fit(tree.kids)'
  BY <1>2 DEF Fit
<1>4. Cut => Cut'
  BY <1>1 DEF Cut
<1> QED
  BY <1>3, <1>4 DEF TreeRest

\* A writer inserts, which is told, or deletes.
LEMMA TreeWrite ==
    ASSUME Shape, TreeInv, NEW i \in Ids, Writing(i)
    PROVE  TreeInv'
<1>0. PICK row \in RowRecord : Changed(i, row)
  BY WritingChanges
<1>1. CASE op # "tree"
  BY <1>0, <1>1 DEF TreeInv, Changed
<1>2. CASE op = "tree"
  <2>1. rows' = [rows EXCEPT ![i] = row] /\ UNCHANGED <<op, parent, tree>> /\ rows \in [Ids -> RowRecord]
    BY <1>0 DEF Changed, Shape
  <2>2. steady' = steady \ {i} /\ grew' = (grew \/ rows[i].state = "none")
    BY <1>2, WriteUnsteadies
  <2>3. rows[i].state = "none" \/ rows'[i].state = "gone"
    <3>1. InsertJob(i) \/ DeleteJob(i)
      BY <1>2 DEF Writing, RescheduleJob, EndJob, RetryJob, AppendRow, StampRow, PruneRow, StampFinish, CommitFinish,
                  FinalizeFails, DeleteRun, JobLists, JobSorts, Growing, Stamped
    <3>2. CASE InsertJob(i)
      BY <3>2 DEF InsertJob
    <3>3. CASE DeleteJob(i)
      <4>1. rows' = [rows EXCEPT ![i] = Row("gone", 0)]
        BY <3>3 DEF DeleteJob, Write
      <4> QED
        BY <2>1, <4>1 DEF Row
    <3> QED
      BY <3>1, <3>2, <3>3
  <2>4. \A j \in Ids \ {i} : rows'[j] = rows[j]
    BY <2>1
  <2>5. TreeListed /\ TreePlaced /\ TreeCounts /\ TreeRest /\ TreeSteady /\ TreeClosed
    BY <1>2 DEF TreeInv
  <2>6. TreeListed' /\ TreePlaced'
    BY <2>1, <2>5 DEF TreeListed, TreePlaced
  <2>7. TreeSteady'
    BY <2>2, <2>4, <2>5 DEF TreeSteady, Shape
  <2>8. TreeClosed'
    BY <2>1, <2>2, <2>5 DEF TreeClosed
  <2>9. TreeRest'
    BY <2>1, <2>5, RestKept
  <2>10. TreeCounts'
    <3>1. SUFFICES ASSUME tree.pc \in {"read", "rest"}
                   PROVE  CountsType' /\ (~grew' => \A n \in tree.level : Cardinality(Kids(n)') <= tree.counts[n])
      BY <2>1 DEF TreeCounts
    <3>2. CountsType /\ (~grew => \A n \in tree.level : Cardinality(Kids(n)) <= tree.counts[n])
      BY <2>5, <3>1 DEF TreeCounts
    <3>3. CountsType'
      BY <2>1, <3>2 DEF CountsType
    <3>4. ASSUME ~grew', NEW n \in tree.level PROVE Cardinality(Kids(n)') <= tree.counts[n]
      <4>1. ~grew /\ rows'[i].state = "gone"
        BY <2>2, <2>3, <3>4
      <4>2. Kids(n)' \in SUBSET Kids(n)
        BY <2>1, <2>4, <4>1 DEF Kids, Absent
      <4>3. Kids(n) \in SUBSET Ids
        BY DEF Kids
      <4>4. IsFiniteSet(Kids(n)) /\ Cardinality(Kids(n)) \in Nat
        BY <4>3, Params, SubsetCard
      <4>5. Cardinality(Kids(n)') <= Cardinality(Kids(n)) /\ Cardinality(Kids(n)') \in Nat
        BY <4>2, <4>4, SubsetCard
      <4>6. Cardinality(Kids(n)) <= tree.counts[n] /\ tree.counts[n] \in Nat
        BY <3>2, <4>1 DEF CountsType
      <4> QED
        BY <4>4, <4>5, <4>6
    <3> QED
      BY <3>3, <3>4
  <2> QED
    BY <2>6, <2>7, <2>8, <2>9, <2>10 DEF TreeInv
<1> QED
  BY <1>1, <1>2

\* What does not touch the tree or the table keeps the invariant.
LEMMA TreeKept ==
    ASSUME TreeInv, UNCHANGED <<op, rows, parent, tree, steady, grew>>
    PROVE  TreeInv'
<1>1. CASE op # "tree"
  BY <1>1 DEF TreeInv
<1>2. CASE op = "tree"
  <2>1. TreeListed /\ TreePlaced /\ TreeCounts /\ TreeRest /\ TreeSteady /\ TreeClosed
    BY <1>2 DEF TreeInv
  <2>2. TreeListed' /\ TreePlaced' /\ TreeSteady' /\ TreeClosed'
    BY <2>1 DEF TreeListed, TreePlaced, TreeSteady, TreeClosed
  <2>3. \A n : Kids(n)' = Kids(n)
    BY DEF Kids
  <2>4. TreeCounts'
    BY <2>1, <2>3 DEF TreeCounts, CountsType
  <2>5. TreeRest'
    BY <2>1, RestKept
  <2> QED
    BY <2>2, <2>4, <2>5 DEF TreeInv
<1> QED
  BY <1>1, <1>2

LEMMA TreeGives ==
    ASSUME TreeInv
    PROVE  TreeWhole
<1>1. SUFFICES ASSUME op = "tree"
               PROVE  /\ tree.nodes <= Nodes /\ tree.nodes = Cardinality(tree.listed)
                      /\ tree.pc = "done" /\ tree.listed # {} /\ ~tree.truncated /\ ~grew =>
                           Descendants \subseteq tree.listed
  BY DEF TreeWhole
<1>2. TreeListed /\ TreeClosed
  BY <1>1 DEF TreeInv
<1>3. ASSUME tree.pc = "done", tree.listed # {}, ~tree.truncated, ~grew PROVE Descendants \subseteq tree.listed
  <2>1. tree.level = {} /\ 1 \in tree.listed /\ tree.listed \in SUBSET Ids
    BY <1>2, <1>3 DEF TreeListed
  <2>2. Closed(tree.listed)
    BY <1>2, <1>3, <2>1 DEF TreeClosed, Closed
  <2> QED
    BY <2>1, <2>2 DEF Descendants
<1> QED
  BY <1>2, <1>3 DEF TreeListed

----------------------------------------------------------------------------
(* The theorems. *)

Inv == Shape /\ WalkInv /\ FeedInv /\ TreeInv

LEMMA OpsApart ==
    /\ "feed" \notin Listings /\ "tree" \notin Listings
    /\ JobSorts \in SUBSET Listings
BY DEF Listings, JobLists, JobSorts, Growing, Stamped

LEMMA InitShape ==
    ASSUME Init
    PROVE  /\ Shape /\ reader.pc = "read" /\ reader.cursor = NoCursor /\ reader.page = {} /\ reader.stage = 1
           /\ reader.pages = <<>> /\ reader.from = NoCursor
<1>1. op \in Listings \cup {"tree", "feed"}
  BY DEF Init
<1>2. clock \in Int
  BY Params DEF Init
<1>3. rows \in [Ids -> RowRecord]
  <2>1. Contents(op) \subseteq RowRecord /\ rows \in [Ids -> Contents(op)]
    BY <1>1, ContentsType DEF Init
  <2> QED
    BY <2>1
<1>4. parent \in [Ids -> 0..MaxId]
  <2>1. Families \subseteq [Ids -> 0..MaxId]
    BY ReadsAssumption
  <2>2. [i \in Ids |-> 0] \in [Ids -> 0..MaxId]
    BY Params
  <2>3. parent \in Families \/ parent = [i \in Ids |-> 0]
    BY DEF Init
  <2> QED
    BY <2>1, <2>2, <2>3
<1>5. PICK t \in {0, Settle} : reader = [NewWalk EXCEPT !.since = t]
  BY DEF Init
<1>6. t \in Int
  BY Params
<1>7. reader \in Readers
  BY <1>5, <1>6, NewWalkType DEF Readers
<1>8. /\ reader.pc = "read" /\ reader.cursor = NoCursor /\ reader.page = {} /\ reader.stage = 1
      /\ reader.pages = <<>> /\ reader.from = NoCursor
  BY <1>5 DEF NewWalk
<1>9. steady \subseteq Ids
  BY DEF Init, InScopeNow
<1> QED
  BY <1>1, <1>2, <1>3, <1>4, <1>7, <1>8, <1>9 DEF Shape

LEMMA InitInv ==
    ASSUME Init
    PROVE  Inv
<1>1. /\ Shape /\ reader.pc = "read" /\ reader.cursor = NoCursor /\ reader.page = {} /\ reader.stage = 1
      /\ reader.pages = <<>> /\ reader.from = NoCursor
  BY InitShape
<1>2. RowsOf(reader.pages) = {}
  BY <1>1 DEF RowsOf
<1>3. ASSUME op \in Listings PROVE WalkedRows /\ WalkPassed /\ Scoped /\ PageOK(reader.page, Made)
  <2>1. WalkedRows
    BY <1>1, <1>2, <1>3, StagesType DEF WalkedRows, Sorted, NoCursor
  <2>2. WalkPassed
    BY <1>1 DEF WalkPassed, NoCursor
  <2>3. Scoped
    BY <1>3 DEF Init, Scoped, InScopeNow
  <2>4. Made = {}
    BY <1>1, <1>3, StagesType DEF Made
  <2>5. PageOK(reader.page, Made)
    BY <1>1, <2>4, FS_EmptySet DEF PageOK, PageKeys, Apart
  <2> QED
    BY <2>1, <2>2, <2>3, <2>5
<1>4. FeedInv
  <2>1. FeedCursor
    BY <1>1, <1>2 DEF FeedCursor, NoCursor
  <2>2. FeedRows
    BY <1>2 DEF FeedRows
  <2>3. FeedPassed
    <3>1. reader.cursor.sort # "feed"
      BY <1>1 DEF NoCursor
    <3> QED
      BY <3>1 DEF FeedPassed
  <2>4. Sorted(RowsOf(reader.pages), FALSE)
    BY <1>2 DEF Sorted
  <2> QED
    BY <2>1, <2>2, <2>3, <2>4 DEF FeedInv
<1>5. ASSUME op = "tree" PROVE TreeListed /\ TreePlaced /\ TreeCounts /\ TreeRest /\ TreeSteady /\ TreeClosed
  <2>1. tree = [Unread EXCEPT !.pc = "root"]
    BY <1>5 DEF Init
  <2>2. /\ DOMAIN tree = TreeFields /\ tree.pc = "root" /\ tree.level = {} /\ tree.listed = {} /\ tree.nodes = 0
        /\ tree.truncated = FALSE
    BY <2>1 DEF Unread, TreeFields
  <2>3. Cardinality({}) = 0 /\ 0 <= Nodes
    BY FS_EmptySet, Params
  <2>4. TreeListed
    BY <2>2, <2>3 DEF TreeListed
  <2>5. TreePlaced /\ TreeCounts /\ TreeRest /\ TreeClosed
    BY <2>2 DEF TreePlaced, TreeCounts, TreeRest, TreeClosed
  <2>6. TreeSteady
    BY <1>5, OpsApart DEF Init, TreeSteady
  <2> QED
    BY <2>4, <2>5, <2>6
<1> QED
  BY <1>1, <1>3, <1>4, <1>5 DEF Inv, WalkInv, TreeInv

LEMMA NextInv ==
    ASSUME Inv, [Next]_vars
    PROVE  Inv'
<1>0. Shape /\ WalkInv /\ FeedInv /\ TreeInv
  BY DEF Inv
<1>1. CASE ReadPage \/ ReadFails
  <2>1. Shape' /\ WalkInv'
    BY <1>0, <1>1, WalkReads, WalkFails
  <2>2. op \in Listings /\ UNCHANGED <<op, rows, parent, tree, steady, grew>>
    BY <1>1 DEF ReadPage, ReadFails
  <2>3. FeedInv'
    BY <2>2, OpsApart DEF FeedInv
  <2>4. TreeInv'
    BY <1>0, <2>2, TreeKept
  <2> QED
    BY <2>1, <2>3, <2>4 DEF Inv
<1>2. CASE Resort
  <2>1. Shape' /\ WalkInv'
    BY <1>0, <1>2, WalkResorts
  <2>2. op' \in Listings
    BY <1>2, OpsApart DEF Resort
  <2>3. FeedInv' /\ TreeInv'
    BY <2>2, OpsApart DEF FeedInv, TreeInv
  <2> QED
    BY <2>1, <2>3 DEF Inv
<1>3. CASE ListRunFinishes
  <2>1. Shape' /\ FeedInv'
    BY <1>0, <1>3, FeedPoll
  <2>2. op = "feed" /\ UNCHANGED <<op, rows, parent, tree, steady, grew>>
    BY <1>3 DEF ListRunFinishes
  <2>3. WalkInv'
    BY <2>2, OpsApart DEF WalkInv
  <2>4. TreeInv'
    BY <1>0, <2>2, TreeKept
  <2> QED
    BY <2>1, <2>3, <2>4 DEF Inv
<1>4. CASE FindRoot \/ CountChildren \/ ReadWhole \/ ReadPart
  <2>1. TreeInv'
    BY <1>0, <1>4, TreeRoot, TreeCount, TreeReadWhole, TreeReadPart
  <2>2. op = "tree" /\ UNCHANGED <<op, clock, rows, parent, reader, steady>>
    BY <1>4 DEF FindRoot, CountChildren, ReadWhole, ReadPart
  <2>3. Shape'
    BY <1>0, <2>2 DEF Shape
  <2>4. WalkInv' /\ FeedInv'
    BY <2>2, OpsApart DEF WalkInv, FeedInv
  <2> QED
    BY <2>1, <2>3, <2>4 DEF Inv
<1>5. CASE Tick
  <2>1. Shape' /\ UNCHANGED <<op, rows, parent, tree, steady, grew>>
    BY <1>0, <1>5, TickShape
  <2>2. WalkInv' /\ FeedInv' /\ TreeInv'
    BY <1>0, <1>5, <2>1, WalkTick, FeedTick, TreeKept
  <2> QED
    BY <2>1, <2>2 DEF Inv
<1>6. ASSUME NEW i \in Ids, Writing(i) PROVE Inv'
  <2>1. Shape'
    BY <1>0, <1>6, WritingChanges, ChangedShape
  <2>2. WalkInv' /\ FeedInv' /\ TreeInv'
    BY <1>0, <1>6, WalkWrite, FeedWrite, TreeWrite
  <2> QED
    BY <2>1, <2>2 DEF Inv
<1>7. CASE UNCHANGED vars
  <2>1. UNCHANGED <<op, clock, rows, parent, reader, tree, steady, grew>>
    BY <1>7 DEF vars
  <2>2. Shape'
    BY <1>0, <2>1 DEF Shape
  <2>3. TreeInv'
    BY <1>0, <2>1, TreeKept
  <2>4. clock \in Int /\ clock' \in Int /\ clock' >= clock /\ rows \in [Ids -> RowRecord]
    BY <1>0, <2>1 DEF Shape
  <2>5. FeedInv'
    <3>1. CASE op = "feed"
      <4>1. \A j \in Ids : FinishStep(j) /\ rows'[j].at \in Int
        BY <2>1, <2>4 DEF FinishStep, RowRecord
      <4> QED
        BY <1>0, <2>1, <2>4, <3>1, <4>1, FeedKept
    <3>2. CASE op # "feed"
      BY <2>1, <3>2 DEF FeedInv
    <3> QED
      BY <3>1, <3>2
  <2>6. WalkInv'
    <3>1. CASE op \in Listings
      <4>1. \A j \in Ids : JobStep(j)
        BY <2>1 DEF JobStep
      <4> QED
        BY <1>0, <2>1, <2>4, <3>1, <4>1, WalkKept
    <3>2. CASE op \notin Listings
      BY <2>1, <3>2 DEF WalkInv
    <3> QED
      BY <3>1, <3>2
  <2> QED
    BY <2>2, <2>3, <2>5, <2>6 DEF Inv
<1>8. CASE Next
  BY <1>1, <1>2, <1>3, <1>4, <1>5, <1>6, <1>8 DEF Next, Reading
<1> QED
  BY <1>7, <1>8

LEMMA ReadsInvariant == Spec => []Inv
<1>1. Init => Inv
  BY InitInv
<1>2. Inv /\ [Next]_vars => Inv'
  BY NextInv
<1> QED
  BY <1>1, <1>2, PTL DEF Spec

\* A caller that walks any listing by its cursor, whatever writers do meanwhile,
\* is given its rows in the listing's order and none twice at one place, and when
\* it comes to the end has once every row that was there and did not move
\* (QueryJobs, ListJobs, ListRuns and the other paged reads), for any page and any
\* table.
THEOREM ListingSafety == Spec => []ListingExact
<1>1. Inv => ListingExact
  BY WalkGives DEF Inv
<1> QED
  BY <1>1, ReadsInvariant, PTL

\* The cursor of ListRunFinishes never passes a finish that committed within
\* Settle of its stamp without returning it, once and in order, for any filter,
\* any page and any limit of the scan.
THEOREM FeedSafety == Spec => []FeedPassesNone
<1>1. Inv => FeedPassesNone
  BY FeedPasses DEF Inv
<1> QED
  BY <1>1, ReadsInvariant, PTL

\* A tree keeps to its node budget and lists no job twice, and one that JobTree
\* does not report as truncated has every descendant that was there all along,
\* unless a job was inserted meanwhile, for any family, depth and budget.
THEOREM TreeSafety == Spec => []TreeWhole
<1>1. Inv => TreeWhole
  BY TreeGives DEF Inv
<1> QED
  BY <1>1, ReadsInvariant, PTL
=============================================================================
