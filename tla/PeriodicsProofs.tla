-------------------------- MODULE PeriodicsProofs --------------------------
(***************************************************************************)
(* Proofs about Periodics, for any definitions, schedules, Schedulers,     *)
(* catch-up cap and history size.                                          *)
(*                                                                         *)
(* No fire is lost (NoFireLost): times are compared by their remainder     *)
(* modulo the schedule's n.  A tick that read the row since its schedule   *)
(* was last replaced agrees with it on the remainder, so what its last     *)
(* write skips is what it enqueued, what its cap dropped, or what was      *)
(* settled before it read the row.                                         *)
(*                                                                         *)
(* What an operator said stands (OperatorsWordStands): a Scheduler applies *)
(* a declaration only while it has not landed since the start.             *)
(***************************************************************************)
EXTENDS Periodics, Integers, FunctionTheorems, FiniteSetTheorems, SequenceTheorems, TLAPS

----------------------------------------------------------------------------
(* Division. *)

\* The quotient and the remainder of a time.
LEMMA DivMod ==
    ASSUME NEW a \in Nat, NEW n \in Nat \ {0}
    PROVE  /\ a \div n \in Nat /\ a % n \in 0..(n - 1)
           /\ a = n * (a \div n) + (a % n)
<1> DEFINE q == a \div n
           r == a % n
<1>1. a \in Int /\ n \in Int /\ n > 0
  OBVIOUS
<1>2. r = a - n * q
  BY <1>1, Z3
<1>3. q \in Int /\ q >= 0 /\ r \in 0..(n - 1)
  BY <1>1, Z3
<1> HIDE DEF q, r
<1>4. n * q \in Int
  BY <1>3, Z3
<1>5. q \in Nat /\ r \in 0..(n - 1) /\ a = n * q + r
  BY <1>2, <1>3, <1>4
<1>6. QED
  BY <1>5 DEF q, r

LEMMA DivModUnique ==
    ASSUME NEW a \in Nat, NEW n \in Nat \ {0}, NEW q \in Nat, NEW r \in 0..(n - 1), a = n * q + r
    PROVE  q = a \div n /\ r = a % n
  BY Z3

\* A number of periods later the remainder is the same.
LEMMA ModAdd ==
    ASSUME NEW a \in Nat, NEW n \in Nat \ {0}, NEW k \in Nat
    PROVE  k * n \in Nat /\ (a + k * n) % n = a % n
<1> DEFINE q == a \div n
           r == a % n
<1>1. q \in Nat /\ r \in 0..(n - 1) /\ a = n * q + r
  BY DivMod
<1> HIDE DEF q, r
<1>2. k * n \in Nat
  BY Z3
<1>3. a + k * n = n * (q + k) + r
  BY <1>1, Z3
<1>4. q + k \in Nat /\ a + k * n \in Nat
  BY <1>1, <1>2
<1>5. r = (a + k * n) % n
  BY <1>1, <1>3, <1>4, DivModUnique
<1>6. QED
  BY <1>2, <1>5 DEF r

\* Two times with one remainder are a number of periods apart.
LEMMA Periods ==
    ASSUME NEW a \in Nat, NEW b \in Nat, NEW n \in Nat \ {0}, a <= b, a % n = b % n
    PROVE  /\ (b - a) \div n \in Nat
           /\ b = a + ((b - a) \div n) * n
           /\ (b - a) % n = 0
           /\ a < b => a + n <= b
<1> DEFINE p == a \div n
           q == b \div n
           r == a % n
           k == q - p
<1>1. p \in Nat /\ q \in Nat /\ r \in 0..(n - 1) /\ a = n * p + r /\ b = n * q + r
  BY DivMod
<1> HIDE DEF p, q, r
<1>2. p <= q
  BY <1>1, Z3
<1>3. k \in Nat
  BY <1>1, <1>2
<1>4. b - a = n * k
  BY <1>1, <1>3, Z3
<1> HIDE DEF k
<1>5. k = (b - a) \div n /\ 0 = (b - a) % n
  <2>1. b - a \in Nat /\ 0 \in 0..(n - 1)
    OBVIOUS
  <2>2. b - a = n * k + 0
    BY <1>3, <1>4, Z3
  <2>3. QED
    BY <1>3, <2>1, <2>2, DivModUnique
<1>6. b = a + k * n
  BY <1>3, <1>4, Z3
<1>7. a < b => a + n <= b
  BY <1>3, <1>6, Z3
<1>8. QED
  BY <1>3, <1>5, <1>6, <1>7

\* The converse: times whose distance is a number of periods.
LEMMA SameRemainder ==
    ASSUME NEW a \in Nat, NEW b \in Nat, NEW n \in Nat \ {0}, a <= b, (b - a) % n = 0
    PROVE  a % n = b % n
<1> DEFINE k == (b - a) \div n
<1>1. b - a \in Nat
  OBVIOUS
<1>2. k \in Nat /\ b - a = n * k + 0
  BY <1>1, DivMod
<1> HIDE DEF k
<1>3. b = a + k * n
  BY <1>2, Z3
<1>4. (a + k * n) % n = a % n
  BY <1>2, ModAdd
<1>5. QED
  BY <1>3, <1>4

\* The first multiple after a time.
LEMMA MultipleAfter ==
    ASSUME NEW a \in Nat, NEW n \in Nat \ {0}
    PROVE  /\ Multiple(n, a) \in Nat /\ Multiple(n, a) > a
           /\ Multiple(n, a) % n = 0
           /\ a % n = 0 => Multiple(n, a) = a + n
<1> DEFINE q == a \div n
           r == a % n
<1>1. q \in Nat /\ r \in 0..(n - 1) /\ a = n * q + r
  BY DivMod
<1>2. Multiple(n, a) = (q + 1) * n
  BY DEF Multiple
<1> HIDE DEF q, r
<1>3. (q + 1) * n = n * q + n
  BY <1>1, Z3
<1>4. (q + 1) * n = n * (q + 1) + 0
  BY <1>1, Z3
<1>5. n * q \in Nat
  BY <1>1, Z3
<1>6. (q + 1) * n \in Nat /\ (q + 1) * n > a
  BY <1>1, <1>3, <1>5
<1>7. 0 = ((q + 1) * n) % n
  <2>1. q + 1 \in Nat /\ 0 \in 0..(n - 1)
    BY <1>1
  <2>2. QED
    BY <1>4, <1>6, <2>1, DivModUnique
<1>8. r = 0 => (q + 1) * n = a + n
  BY <1>1, <1>3, <1>5
<1>9. QED
  BY <1>2, <1>6, <1>7, <1>8 DEF r

----------------------------------------------------------------------------
(* The catch-up of a definition that is due. *)

\* The times of the schedule from start to t.
Times(start, n, t) == {u \in start..t : u % n = start % n}

\* What the buckets b promise: the next time is the first after t, and every
\* time up to t is a bucket, or the cap's worth of later ones are there.
CatchesUp(b, start, n, t) ==
    /\ b.next \in Nat /\ t < b.next /\ b.next <= t + n /\ b.next % n = start % n
    /\ \A u \in Times(start, n, t) :
          \/ \E i \in DOMAIN b.buckets : b.buckets[i] = u
          \/ Cardinality({v \in Times(start, n, t) : v > u}) >= BackfillCap

LEMMA CapType == BackfillCap \in Nat \ {0}
  BY PeriodicsAssumption

\* The times after the j-th of k + 1.
LEMMA TimesAfter ==
    ASSUME NEW start \in Nat, NEW n \in Nat \ {0}, NEW t \in Nat, NEW j \in Nat, NEW k \in Nat,
           j <= k, start + k * n <= t
    PROVE  Cardinality({v \in Times(start, n, t) : v > start + j * n}) >= k - j
<1> DEFINE V == {v \in Times(start, n, t) : v > start + j * n}
           I == (j + 1)..k
           f == [i \in I |-> start + i * n]
<1>1. IsFiniteSet(V)
  <2>1. V \in SUBSET (start..t)
    BY DEF Times
  <2>2. IsFiniteSet(start..t)
    BY FS_Interval
  <2>3. QED
    BY <2>1, <2>2, FS_Subset
<1>2. ASSUME NEW i \in I
      PROVE  f[i] \in V
  <2>1. i \in Nat /\ j < i /\ i <= k
    OBVIOUS
  <2>2. i * n \in Nat /\ (start + i * n) % n = start % n
    BY <2>1, ModAdd
  <2>3. i * n <= k * n /\ j * n + n <= i * n /\ j * n \in Nat /\ k * n \in Nat
    BY <2>1, Z3
  <2>4. start + i * n \in start..t /\ start + i * n > start + j * n
    BY <2>2, <2>3
  <2>5. QED
    BY <2>2, <2>4 DEF Times
<1>3. ASSUME NEW i \in I, NEW h \in I, f[i] = f[h]
      PROVE  i = h
  <2>1. i * n \in Nat /\ h * n \in Nat /\ i \in Nat /\ h \in Nat
    BY ModAdd
  <2>2. i * n = h * n
    BY <1>3, <2>1
  <2>3. QED
    BY <2>1, <2>2, Z3
<1>4. f \in Injection(I, V)
  BY <1>2, <1>3 DEF Injection, IsInjective
<1>5. Cardinality(I) = k - j
  <2> DEFINE lo == j + 1
  <2>1. lo \in Int /\ lo = j + 1
    OBVIOUS
  <2> HIDE DEF lo
  <2>2. Cardinality(lo..k) = IF lo > k THEN 0 ELSE k - lo + 1
    BY <2>1, FS_Interval
  <2>3. QED
    BY <2>1, <2>2
<1>6. QED
  BY <1>1, <1>4, <1>5, FS_Injection

\* intervalBuckets.
LEMMA IntervalCatchesUp ==
    ASSUME NEW start \in Nat, NEW n \in Nat \ {0}, NEW t \in Nat, start <= t
    PROVE  CatchesUp(IntervalBuckets(start, n, t), start, n, t)
<1> DEFINE k == (t - start) \div n
           first == IF k + 1 > BackfillCap THEN k + 1 - BackfillCap ELSE 0
           b == IntervalBuckets(start, n, t)
<1>1. k \in Nat /\ start + k * n <= t /\ t < start + (k + 1) * n /\ start + (k + 1) * n <= t + n
  <2> DEFINE r == (t - start) % n
  <2>1. t - start \in Nat
    OBVIOUS
  <2>2. k \in Nat /\ r \in 0..(n - 1) /\ t - start = n * k + r
    BY <2>1, DivMod
  <2> HIDE DEF k, r
  <2>3. (k + 1) * n = k * n + n /\ n * k = k * n /\ k * n \in Nat
    BY <2>2, Z3
  <2>4. QED
    BY <2>2, <2>3
<1>2. first \in Nat /\ first <= k /\ (first > 0 => first = k + 1 - BackfillCap)
  BY <1>1, CapType
<1>3. /\ b.buckets = [i \in 1..(k - first + 1) |-> start + (first + i - 1) * n]
      /\ b.next = start + (k + 1) * n
  BY DEF IntervalBuckets
<1> HIDE DEF k, first, b
<1>4. b.next \in Nat /\ b.next % n = start % n
  <2> DEFINE m == k + 1
  <2>1. m \in Nat /\ b.next = start + m * n
    BY <1>1, <1>3
  <2> HIDE DEF m
  <2>2. m * n \in Nat /\ (start + m * n) % n = start % n
    BY <2>1, ModAdd
  <2>3. QED
    BY <2>1, <2>2
<1>5. ASSUME NEW u \in Times(start, n, t)
      PROVE  \/ \E i \in DOMAIN b.buckets : b.buckets[i] = u
             \/ Cardinality({v \in Times(start, n, t) : v > u}) >= BackfillCap
  <2>1. u \in Nat /\ start <= u /\ u <= t /\ start % n = u % n
    BY DEF Times
  <2> DEFINE j == (u - start) \div n
  <2>2. j \in Nat /\ u = start + j * n
    BY <2>1, Periods
  <2> HIDE DEF j
  <2>3. j <= k
    <3>1. j * n < (k + 1) * n
      <4>1. j * n \in Nat /\ (k + 1) * n \in Nat
        BY <1>1, <2>2, Z3
      <4>2. QED
        BY <1>1, <2>1, <2>2, <4>1
    <3>2. QED
      BY <1>1, <2>2, <3>1, Z3
  <2>4. CASE j >= first
    <3> DEFINE i == j - first + 1
    <3>1. i \in 1..(k - first + 1) /\ first + i - 1 = j
      BY <1>1, <1>2, <2>2, <2>3, <2>4
    <3>2. i \in DOMAIN b.buckets /\ b.buckets[i] = u
      BY <1>3, <2>2, <3>1
    <3>3. QED
      BY <3>2
  <2>5. CASE j < first
    <3>1. Cardinality({v \in Times(start, n, t) : v > start + j * n}) >= k - j
      BY <1>1, <2>2, <2>3, TimesAfter
    <3>2. k - j >= BackfillCap
      BY <1>1, <1>2, <2>2, <2>5, CapType
    <3> DEFINE c == Cardinality({v \in Times(start, n, t) : v > start + j * n})
    <3>3. c \in Nat
      <4>1. IsFiniteSet(start..t)
        BY FS_Interval
      <4>2. {v \in Times(start, n, t) : v > start + j * n} \in SUBSET (start..t)
        BY DEF Times
      <4>3. QED
        BY <4>1, <4>2, FS_Subset, FS_CardinalityType
    <3>4. c >= k - j
      BY <3>1
    <3> HIDE DEF c
    <3>5. c >= BackfillCap
      BY <1>1, <2>2, <3>2, <3>3, <3>4, CapType
    <3>6. QED
      BY <2>2, <3>5 DEF c
  <2>6. QED
    BY <1>2, <2>2, <2>4, <2>5
<1>6. QED
  BY <1>1, <1>3, <1>4, <1>5 DEF CatchesUp, b

\* On a cron's own times its walk is that of an interval.
LEMMA CronIsInterval ==
    ASSUME NEW start \in Nat, NEW n \in Nat \ {0}, NEW t \in Nat, start <= t, start % n = 0
    PROVE  CronBuckets(start, n, t) = IntervalBuckets(start, n, t)
<1> DEFINE second == Multiple(n, start)
           k == IF second > t THEN 0 ELSE (t - second) \div n + 1
           h == (t - start) \div n
           first == IF k + 1 > BackfillCap THEN k + 1 - BackfillCap ELSE 0
           B == [i \in 1..(k - first + 1) |->
                   IF first + i = 1 THEN start ELSE second + (first + i - 2) * n]
           C == [i \in 1..(k - first + 1) |-> start + (first + i - 1) * n]
<1>1. second = start + n
  BY MultipleAfter
<1>2. k = h /\ k \in Nat
  <2>1. CASE second > t
    <3>1. t - start \in 0..(n - 1) /\ t - start = n * 0 + (t - start)
      BY <1>1, <2>1
    <3>2. h = 0
      BY <3>1, DivModUnique, 0 \in Nat
    <3>3. QED
      BY <2>1, <3>2
  <2>2. CASE ~(second > t)
    <3> DEFINE q == (t - second) \div n
               r == (t - second) % n
    <3>1. t - second \in Nat
      BY <1>1, <2>2
    <3>2. q \in Nat /\ r \in 0..(n - 1) /\ t - second = n * q + r
      BY <3>1, DivMod
    <3> HIDE DEF q, r
    <3>3. n * (q + 1) = n * q + n /\ n * q \in Nat
      BY <3>2, Z3
    <3>4. t - start = n * (q + 1) + r /\ t - start \in Nat /\ q + 1 \in Nat
      BY <1>1, <3>1, <3>2, <3>3
    <3>5. q + 1 = h
      <4> DEFINE m == q + 1
                 d == t - start
      <4>1. d \in Nat /\ m \in Nat /\ d = n * m + r
        BY <3>4
      <4> HIDE DEF m, d
      <4>2. m = d \div n
        BY <3>2, <4>1, DivModUnique
      <4>3. QED
        BY <4>2 DEF m, d
    <3>6. QED
      BY <2>2, <3>4, <3>5 DEF q
  <2>3. QED
    BY <2>1, <2>2
<1>3. CronBuckets(start, n, t) = [buckets |-> B, next |-> second + k * n]
  BY DEF CronBuckets
<1>4. IntervalBuckets(start, n, t) = [buckets |-> C, next |-> start + (k + 1) * n]
  BY <1>2 DEF IntervalBuckets
<1> HIDE DEF second, k, h
<1>5. first \in Nat /\ first <= k
  BY <1>2, CapType
<1> HIDE DEF first
<1>6. ASSUME NEW i \in 1..(k - first + 1)
      PROVE  B[i] = C[i]
  <2>1. i \in Nat /\ i >= 1
    BY <1>2, <1>5
  <2>2. CASE first + i = 1
    <3>1. first + i - 1 = 0 /\ 0 * n = 0
      BY <2>2, <1>5, <2>1
    <3>2. QED
      BY <2>2, <3>1
  <2>3. CASE first + i # 1
    <3> DEFINE m == first + i - 2
    <3>1. m \in Nat /\ first + i - 1 = m + 1
      BY <1>5, <2>1, <2>3
    <3> HIDE DEF m
    <3>2. (m + 1) * n = m * n + n /\ m * n \in Nat
      BY <3>1, Z3
    <3>3. second + m * n = start + (m + 1) * n
      BY <1>1, <3>2
    <3>4. QED
      BY <2>3, <3>1, <3>3 DEF m
  <2>4. QED
    BY <2>2, <2>3
<1>7. B = C
  BY <1>6
<1>8. second + k * n = start + (k + 1) * n
  <2>1. (k + 1) * n = k * n + n /\ k * n \in Nat
    BY <1>2, Z3
  <2>2. QED
    BY <1>1, <2>1
<1>9. QED
  BY <1>3, <1>4, <1>7, <1>8

----------------------------------------------------------------------------
(* The invariant. *)

Callers == Schedulers \cup {Operator}

FireSet == [at : Nat, manual : BOOLEAN]
RowSet == [id : Nat, cron : BOOLEAN, n : Nat \ {0}, active : BOOLEAN, next : Nat, paused : BOOLEAN,
           recent : Seq(FireSet), era : Nat]
CopySet == [slug : Slugs, id : Nat, cron : BOOLEAN, n : Nat \ {0}, next : Nat, era : Nat]
TickSet == [at : Nat, due : SUBSET CopySet, def : CopySet, todo : Seq(Nat), next : Nat, fires : Seq(FireSet)]
RecSet == [pc : {"idle", "apply", "read", "insert"}, left : SUBSET Slugs, failed : SUBSET Slugs, at : Nat]
SeenSet == [id : Nat, cron : BOOLEAN, n : Nat \ {0}, paused : BOOLEAN]
CallSet == [pc : {"insert", "reload", "update"}, slug : Slugs, spec : SpecSet, at : Nat,
            seen : SeenSet \cup {NoRow}]

TableOK ==
    /\ now \in Nat
    /\ row \in [Slugs -> RowSet \cup {NoRow}]
    /\ ids \in [Slugs -> Nat]
    /\ owed \in [Slugs -> SUBSET Nat]
    /\ crossed \in [Slugs -> BOOLEAN]

CallsOK ==
    /\ pending \in [Schedulers -> SUBSET Slugs]
    /\ rec \in [Schedulers -> RecSet]
    /\ up \in [Callers -> CallSet \cup {Idle}]
    /\ \A u \in Callers : up[u] # Idle /\ up[u].pc = "update" => up[u].seen \in SeenSet
    /\ landed \in [Schedulers -> SUBSET Slugs]

ProcsOK == CallsOK /\ tick \in [Schedulers -> TickSet \cup {Idle}]

\* A cron's cursor is one of its times.
Aligned(r) == r.cron => r.next % r.n = 0

\* A row whose cursor is its own schedule's: a fire that was owed is enqueued,
\* or still ahead of the cursor.
SlugOK(g) ==
    row[g] # NoRow =>
        /\ row[g].id <= ids[g]
        /\ ~crossed[g] =>
             /\ Aligned(row[g])
             /\ \A t \in owed[g] : KeyHeld(g, t) \/ t \in Times(row[g].next, row[g].n, now)

\* The row a tick read is there yet, with the schedule it had.
Current(d) ==
    LET g == d.slug
    IN  row[g] # NoRow /\ row[g].id = d.id /\ row[g].era = d.era /\ ~crossed[g]

\* A copy d read at the time at: while it is current the row's cursor, however
\* other ticks moved it, is on the copy's times, and what was owed before the
\* copy's own cursor is enqueued.
CopyOK(d, at) ==
    LET g == d.slug
    IN  /\ d.next <= at /\ d.id <= ids[g]
        /\ row[g] # NoRow /\ row[g].id = d.id => d.era <= row[g].era
        /\ Current(d) =>
             /\ row[g].cron = d.cron /\ row[g].n = d.n
             /\ row[g].next % d.n = d.next % d.n
             /\ \A t \in owed[g] : t < d.next => KeyHeld(g, t)

\* The times the fire of T stands for: enqueued, still to be enqueued, or
\* dropped by the cap.
FiringOK(T) ==
    LET d == T.def
        times == Times(d.next, d.n, T.at)
    IN  /\ T.at < T.next /\ T.next <= T.at + d.n /\ T.next % d.n = d.next % d.n
        /\ \A u \in times :
              \/ KeyHeld(d.slug, u)
              \/ \E i \in DOMAIN T.todo : T.todo[i] = u
              \/ Cardinality({v \in times : v > u}) >= BackfillCap

TickOK(T) ==
    /\ T.at <= now
    /\ CopyOK(T.def, T.at)
    /\ \A d \in T.due : CopyOK(d, T.at)
    /\ Aligned(T.def) => FiringOK(T)

\* What a Scheduler has still to apply has not landed since it started.
ApplyOK(s) ==
    /\ pending[s] \cup rec[s].left \cup rec[s].failed \subseteq DOMAIN Declared[s]
    /\ up[s] # Idle => rec[s].pc = "apply" /\ up[s].slug \in rec[s].left
    /\ rec[s].pc = "apply" =>
         /\ (rec[s].left \cup rec[s].failed) \cap landed[s] = {}
         /\ rec[s].left \cap rec[s].failed = {}
    /\ rec[s].pc # "apply" => pending[s] \cap landed[s] = {}

FiresKept == \A g \in Slugs : SlugOK(g)
TicksTrue == \A s \in Schedulers : tick[s] # Idle => TickOK(tick[s])
AppliesOnce == \A s \in Schedulers : ApplyOK(s)

Inv == TableOK /\ ProcsOK /\ FiresKept /\ TicksTrue /\ AppliesOnce

----------------------------------------------------------------------------
(* The operators, on rows and copies. *)

\* FiresUpTo, of a row whose cursor is one of its times.
LEMMA FiresAreTimes ==
    ASSUME NEW r, NEW t \in Nat, r.n \in Nat \ {0}, r.next \in Nat, Aligned(r)
    PROVE  FiresUpTo(r, t) = Times(r.next, r.n, t)
<1>1. ASSUME NEW u \in r.next..t
      PROVE  (u = r.next \/ (IF r.cron THEN u % r.n = 0 ELSE (u - r.next) % r.n = 0))
                <=> u % r.n = r.next % r.n
  <2>1. u \in Nat /\ r.next <= u
    OBVIOUS
  <2>2. CASE r.cron
    <3>1. r.next % r.n = 0
      BY <2>2 DEF Aligned
    <3>2. QED
      BY <2>2, <3>1
  <2>3. CASE ~r.cron
    <3>1. (u - r.next) % r.n = 0 => r.next % r.n = u % r.n
      BY <2>1, SameRemainder
    <3>2. r.next % r.n = u % r.n => (u - r.next) % r.n = 0
      BY <2>1, Periods
    <3>3. QED
      BY <2>3, <3>1, <3>2
  <2>4. QED
    BY <2>2, <2>3
<1>2. QED
  BY <1>1 DEF FiresUpTo, Times

\* Whatever the row, its buckets are times.
LEMMA BucketsType ==
    ASSUME NEW d \in CopySet, NEW t \in Nat, d.next <= t
    PROVE  Buckets(d, t).buckets \in Seq(Nat) /\ Buckets(d, t).next \in Nat
<1> DEFINE start == d.next
           n == d.n
<1>1. start \in Nat /\ n \in Nat \ {0} /\ start <= t
  BY DEF CopySet
<1> HIDE DEF start, n
<1>2. IntervalBuckets(start, n, t).buckets \in Seq(Nat) /\ IntervalBuckets(start, n, t).next \in Nat
  <2> DEFINE k == (t - start) \div n
             first == IF k + 1 > BackfillCap THEN k + 1 - BackfillCap ELSE 0
             m == k - first + 1
             f == [i \in 1..m |-> start + (first + i - 1) * n]
  <2>1. k \in Nat
    <3>1. t - start \in Nat
      BY <1>1
    <3>2. QED
      BY <1>1, <3>1, DivMod
  <2>2. /\ IntervalBuckets(start, n, t).buckets = f
        /\ IntervalBuckets(start, n, t).next = start + (k + 1) * n
    BY DEF IntervalBuckets
  <2> HIDE DEF k
  <2>3. first \in Nat /\ m \in Nat
    BY <2>1, CapType
  <2> HIDE DEF first, m
  <2>4. ASSUME NEW i \in 1..m
        PROVE  start + (first + i - 1) * n \in Nat
    <3> DEFINE j == first + i - 1
    <3>1. j \in Nat
      BY <2>3
    <3> HIDE DEF j
    <3>2. j * n \in Nat
      BY <1>1, <3>1, ModAdd
    <3>3. QED
      BY <1>1, <3>2 DEF j
  <2>5. f \in Seq(Nat)
    BY <2>3, <2>4, SeqDef
  <2>6. start + (k + 1) * n \in Nat
    <3> DEFINE j == k + 1
    <3>1. j \in Nat
      BY <2>1
    <3> HIDE DEF j
    <3>2. j * n \in Nat
      BY <1>1, <3>1, ModAdd
    <3>3. QED
      BY <1>1, <3>2 DEF j
  <2>7. QED
    BY <2>2, <2>5, <2>6
<1>3. CronBuckets(start, n, t).buckets \in Seq(Nat) /\ CronBuckets(start, n, t).next \in Nat
  <2> DEFINE second == Multiple(n, start)
             k == IF second > t THEN 0 ELSE (t - second) \div n + 1
             first == IF k + 1 > BackfillCap THEN k + 1 - BackfillCap ELSE 0
             m == k - first + 1
             f == [i \in 1..m |->
                     IF first + i = 1 THEN start ELSE second + (first + i - 2) * n]
  <2>0. second \in Nat
    BY <1>1, MultipleAfter
  <2>1. k \in Nat
    <3>1. second <= t => t - second \in Nat
      BY <2>0
    <3>2. second <= t => (t - second) \div n \in Nat
      BY <1>1, <3>1, DivMod
    <3>3. QED
      BY <2>0, <3>2
  <2>2. /\ CronBuckets(start, n, t).buckets = f
        /\ CronBuckets(start, n, t).next = second + k * n
    BY DEF CronBuckets
  <2> HIDE DEF second, k
  <2>3. first \in Nat /\ m \in Nat
    BY <2>1, CapType
  <2> HIDE DEF first, m
  <2>4. ASSUME NEW i \in 1..m
        PROVE  (IF first + i = 1 THEN start ELSE second + (first + i - 2) * n) \in Nat
    <3> DEFINE j == first + i - 2
    <3>1. first + i # 1 => j \in Nat
      BY <2>3
    <3> HIDE DEF j
    <3>2. first + i # 1 => j * n \in Nat
      BY <1>1, <3>1, ModAdd
    <3>3. QED
      BY <1>1, <2>0, <3>2 DEF j
  <2>5. f \in Seq(Nat)
    BY <2>3, <2>4, SeqDef
  <2>6. k * n \in Nat
    BY <1>1, <2>1, ModAdd
  <2>7. QED
    BY <2>0, <2>2, <2>5, <2>6
<1>4. QED
  BY <1>2, <1>3 DEF Buckets, start, n

\* fire, when it starts.
LEMMA FiringStarts ==
    ASSUME NEW d \in CopySet, NEW t \in Nat, d.next <= t, NEW due \in SUBSET CopySet
    PROVE  LET T == Firing(t, due, d)
           IN  /\ T \in TickSet
               /\ T.at = t /\ T.due \subseteq due /\ T.def = d
               /\ Aligned(d) => FiringOK(T)
<1> DEFINE b == Buckets(d, t)
           T == Firing(t, due, d)
<1>1. b.buckets \in Seq(Nat) /\ b.next \in Nat
  BY BucketsType
<1>2. /\ T.at = t /\ T.due = due \ {d} /\ T.def = d
      /\ T.todo = b.buckets /\ T.next = b.next
  BY DEF Firing
<1>3. T = [at |-> t, due |-> due \ {d}, def |-> d, todo |-> b.buckets, next |-> b.next, fires |-> <<>>]
  BY DEF Firing
<1>4. ASSUME Aligned(d)
      PROVE  FiringOK(T)
  <2>1. d.next \in Nat /\ d.n \in Nat \ {0}
    BY DEF CopySet
  <2>2. CatchesUp(b, d.next, d.n, t)
    <3>1. CatchesUp(IntervalBuckets(d.next, d.n, t), d.next, d.n, t)
      BY <2>1, IntervalCatchesUp
    <3>2. d.cron => CronBuckets(d.next, d.n, t) = IntervalBuckets(d.next, d.n, t)
      BY <1>4, <2>1, CronIsInterval DEF Aligned
    <3>3. QED
      BY <3>1, <3>2 DEF Buckets
  <2> HIDE DEF b, T
  <2>3. QED
    BY <1>2, <2>2 DEF CatchesUp, FiringOK
<1> HIDE DEF b
<1>5. T \in TickSet
  <2>1. <<>> \in Seq(FireSet)
    OBVIOUS
  <2>2. QED
    BY <1>1, <1>3, <2>1 DEF TickSet
<1>6. QED
  BY <1>2, <1>4, <1>5

\* nextFireAfter, and the cursor of a new schedule.
LEMMA NextFireType ==
    ASSUME NEW sp \in SpecSet, NEW t \in Nat
    PROVE  /\ NextFireAfter(sp, t) \in Nat
           /\ sp.cron => NextFireAfter(sp, t) % sp.n = 0
<1>1. sp.n \in Nat \ {0}
  BY DEF SpecSet
<1>2. Multiple(sp.n, t) \in Nat /\ Multiple(sp.n, t) % sp.n = 0
  BY <1>1, MultipleAfter
<1>3. QED
  BY <1>1, <1>2 DEF NextFireAfter

\* resumedNextRun stays on the times of the schedule.
LEMMA ResumeOnTime ==
    ASSUME NEW r \in RowSet, NEW t \in Nat
    PROVE  /\ ResumedNextRun(r, t) \in Nat
           /\ Aligned(r) => ResumedNextRun(r, t) % r.n = r.next % r.n
<1>1. r.n \in Nat \ {0} /\ r.next \in Nat
  BY DEF RowSet
<1>2. CASE r.next > t
  BY <1>1, <1>2 DEF ResumedNextRun
<1>3. CASE ~(r.next > t) /\ r.cron
  <2>1. Multiple(r.n, t) \in Nat /\ Multiple(r.n, t) % r.n = 0
    BY <1>1, MultipleAfter
  <2>2. ResumedNextRun(r, t) = Multiple(r.n, t)
    BY <1>3 DEF ResumedNextRun
  <2>3. QED
    BY <1>3, <2>1, <2>2 DEF Aligned
<1>4. CASE ~(r.next > t) /\ ~r.cron
  <2> DEFINE k == (t - r.next) \div r.n + 1
  <2>1. k \in Nat
    <3>1. t - r.next \in Nat
      BY <1>1, <1>4
    <3>2. (t - r.next) \div r.n \in Nat
      BY <1>1, <3>1, DivMod
    <3>3. QED
      BY <3>2
  <2>2. ResumedNextRun(r, t) = r.next + k * r.n
    BY <1>4 DEF ResumedNextRun
  <2> HIDE DEF k
  <2>3. k * r.n \in Nat /\ (r.next + k * r.n) % r.n = r.next % r.n
    BY <1>1, <2>1, ModAdd
  <2>4. QED
    BY <1>1, <2>2, <2>3
<1>5. QED
  BY <1>2, <1>3, <1>4

\* prependFires.
LEMMA PrependType ==
    ASSUME NEW recent \in Seq(FireSet), NEW fires \in Seq(FireSet)
    PROVE  PrependFires(recent, fires) \in Seq(FireSet)
<1> DEFINE back == [i \in 1..Len(fires) |-> fires[Len(fires) + 1 - i]]
           all == back \o recent
           last == IF Len(all) > HistorySize THEN HistorySize ELSE Len(all)
<1>1. Len(fires) \in Nat /\ \A i \in 1..Len(fires) : fires[i] \in FireSet
  BY ElementOfSeq, LenProperties
<1>2. \A i \in 1..Len(fires) : back[i] \in FireSet
  BY <1>1
<1>3. back \in Seq(FireSet)
  BY <1>1, <1>2, SeqDef
<1>4. all \in Seq(FireSet)
  BY <1>3, ConcatProperties
<1> HIDE DEF back, all
<1>5. last \in 0..Len(all)
  BY <1>4, LenProperties, PeriodicsAssumption
<1> HIDE DEF last
<1>6. SubSeq(all, 1, last) \in Seq(FireSet)
  <2>1. Len(all) \in Nat /\ \A i \in 1..Len(all) : all[i] \in FireSet
    BY <1>4, ElementOfSeq, LenProperties
  <2>2. 1 \in Int /\ last \in Int /\ \A i \in 1..last : all[i] \in FireSet
    BY <1>5, <2>1
  <2>3. QED
    BY <2>2, SubSeqProperties
<1>7. QED
  BY <1>6 DEF PrependFires, all, back, last

----------------------------------------------------------------------------
(* How the table moves under the ticks. *)

\* A row goes, is another, gets another schedule, or stays on its times and
\* owes nothing new of the past.
Follows(g) ==
    \/ row'[g] = NoRow
    \/ row'[g].id > ids[g]
    \/ /\ row[g] # NoRow /\ row'[g].id = row[g].id /\ row'[g].era >= row[g].era
       /\ row'[g].era = row[g].era /\ ~crossed'[g] =>
            /\ ~crossed[g]
            /\ row'[g].cron = row[g].cron /\ row'[g].n = row[g].n
            /\ row'[g].next % row[g].n = row[g].next % row[g].n
            /\ \A t \in owed'[g] : t \in owed[g] \/ t > now

Forward == now' >= now /\ jobs \subseteq jobs' /\ \A g \in Slugs : ids'[g] >= ids[g]

Tabled == TableOK' /\ Forward /\ \A g \in Slugs : SlugOK(g)' /\ Follows(g)

LEMMA CopyKept ==
    ASSUME TableOK, Tabled, NEW d \in CopySet, NEW at \in Nat, at <= now, CopyOK(d, at)
    PROVE  CopyOK(d, at)'
<1> DEFINE g == d.slug
<1>1. /\ g \in Slugs /\ d.id \in Nat /\ d.era \in Nat /\ d.next \in Nat
      /\ ids[g] \in Nat /\ ids'[g] \in Nat /\ ids'[g] >= ids[g]
      /\ row'[g] # NoRow => row'[g] \in RowSet
      /\ row[g] # NoRow => row[g] \in RowSet
      /\ owed[g] \subseteq Nat /\ owed'[g] \subseteq Nat
  BY DEF CopySet, TableOK, Tabled, Forward
<1>2. Follows(g)
  BY <1>1 DEF Tabled
<1>3. /\ d.next <= at /\ d.id <= ids[g]
      /\ row[g] # NoRow /\ row[g].id = d.id => d.era <= row[g].era
  BY DEF CopyOK
<1>4. \A t : KeyHeld(g, t) => KeyHeld(g, t)'
  BY DEF KeyHeld, Tabled, Forward
<1> HIDE DEF g
<1>5. d.next <= at /\ d.id <= ids'[g]
  BY <1>1, <1>3
<1>6. ASSUME row'[g] # NoRow, row'[g].id = d.id
      PROVE  /\ row[g] # NoRow /\ row[g].id = d.id /\ row'[g].era >= row[g].era
             /\ row'[g].era = row[g].era /\ ~crossed'[g] =>
                  /\ ~crossed[g]
                  /\ row'[g].cron = row[g].cron /\ row'[g].n = row[g].n
                  /\ row'[g].next % row[g].n = row[g].next % row[g].n
                  /\ \A t \in owed'[g] : t \in owed[g] \/ t > now
  <2>1. ~(row'[g].id > ids[g])
    BY <1>1, <1>3, <1>6
  <2>2. QED
    BY <1>2, <1>6, <2>1 DEF Follows
<1>7. ASSUME row'[g] # NoRow, row'[g].id = d.id
      PROVE  d.era <= row'[g].era
  <2>1. row'[g].era \in Nat /\ row[g].era \in Nat
    BY <1>1, <1>6, <1>7 DEF RowSet
  <2>2. QED
    BY <1>1, <1>3, <1>6, <1>7, <2>1
<1>8. ASSUME row'[g] # NoRow, row'[g].id = d.id, row'[g].era = d.era, ~crossed'[g]
      PROVE  /\ row'[g].cron = d.cron /\ row'[g].n = d.n
             /\ row'[g].next % d.n = d.next % d.n
             /\ \A t \in owed'[g] : t < d.next => KeyHeld(g, t)'
  <2>1. row'[g].era \in Nat /\ row[g].era \in Nat
    BY <1>1, <1>6, <1>8 DEF RowSet
  <2>2. row'[g].era = row[g].era
    BY <1>1, <1>3, <1>6, <1>8, <2>1
  <2>3. Current(d)
    BY <1>6, <1>8, <2>2 DEF Current, g
  <2>4. /\ row[g].cron = d.cron /\ row[g].n = d.n
        /\ row[g].next % d.n = d.next % d.n
        /\ \A t \in owed[g] : t < d.next => KeyHeld(g, t)
    BY <2>3 DEF CopyOK, g
  <2>5. ASSUME NEW t \in owed'[g], t < d.next
        PROVE  KeyHeld(g, t)'
    <3>1. t \in Nat /\ now \in Nat
      BY <1>1 DEF TableOK
    <3>2. ~(t > now)
      BY <1>1, <1>3, <2>5, <3>1
    <3>3. t \in owed[g]
      BY <1>6, <1>8, <2>2, <3>2
    <3>4. QED
      BY <1>4, <2>4, <2>5, <3>3
  <2>6. QED
    BY <1>6, <1>8, <2>2, <2>4, <2>5
<1>9. QED
  BY <1>5, <1>7, <1>8 DEF CopyOK, Current, g

LEMMA TickKept ==
    ASSUME TableOK, Tabled, NEW T \in TickSet, TickOK(T)
    PROVE  TickOK(T)'
<1>1. T.at \in Nat /\ T.def \in CopySet /\ T.due \subseteq CopySet /\ T.at <= now
  BY DEF TickSet, TickOK
<1>2. now \in Nat /\ now' \in Nat /\ now' >= now
  BY DEF TableOK, Tabled, Forward
<1>3. T.at <= now'
  BY <1>1, <1>2
<1>4. CopyOK(T.def, T.at)'
  BY <1>1, CopyKept DEF TickOK
<1>5. ASSUME NEW d \in T.due
      PROVE  CopyOK(d, T.at)'
  BY <1>1, CopyKept DEF TickOK
<1>6. ASSUME Aligned(T.def)
      PROVE  FiringOK(T)'
  <2>1. FiringOK(T)
    BY <1>6 DEF TickOK
  <2>2. \A g, u : KeyHeld(g, u) => KeyHeld(g, u)'
    BY SMTT(40) DEF KeyHeld, Tabled, Forward
  <2>3. QED
    BY <2>1, <2>2 DEF FiringOK
<1>7. QED
  BY <1>3, <1>4, <1>5, <1>6 DEF TickOK, Aligned

\* What holds of a value holds of the tick that has it.
LEMMA TickNamed ==
    ASSUME NEW q \in Schedulers, NEW U, U = tick'[q], TickOK(U)'
    PROVE  TickOK(tick[q])'
BY DEF TickOK, CopyOK, Current, FiringOK, KeyHeld, Aligned

LEMMA TicksStill ==
    ASSUME Inv, Tabled, tick' = tick
    PROVE  TicksTrue'
<1>1. ASSUME NEW s \in Schedulers, tick'[s] # Idle
      PROVE  TickOK(tick[s])'
  <2>1. tick[s] \in TickSet /\ TickOK(tick[s])
    BY <1>1 DEF Inv, ProcsOK, TicksTrue
  <2> DEFINE T == tick[s]
  <2>2. \A U \in TickSet : TickOK(U) => TickOK(U)'
    BY TickKept DEF Inv
  <2>3. PICK U \in TickSet : U = tick[s]
    BY <2>1
  <2>4. TickOK(U)'
    BY <2>1, <2>2, <2>3
  <2>5. U = tick'[s]
    BY <2>3
  <2>6. QED
    BY <2>4, <2>5, TickNamed
<1>2. QED
  BY <1>1 DEF TicksTrue

\* One Scheduler's tick moves.
LEMMA TicksMove ==
    ASSUME Inv, Tabled, NEW s \in Schedulers, NEW T, tick' = [tick EXCEPT ![s] = T],
           T = Idle \/ (T \in TickSet /\ TickOK(T)')
    PROVE  TicksTrue' /\ tick' \in [Schedulers -> TickSet \cup {Idle}]
<1>1. tick \in [Schedulers -> TickSet \cup {Idle}]
  BY DEF Inv, ProcsOK
<1>2. tick' \in [Schedulers -> TickSet \cup {Idle}]
  BY <1>1
<1>3. ASSUME NEW q \in Schedulers, tick'[q] # Idle
      PROVE  TickOK(tick[q])'
  <2>1. PICK U \in TickSet : U = tick'[q]
    BY <1>2, <1>3
  <2>2. TickOK(U)'
    <3>1. CASE q = s
      <4>1. U = T /\ T # Idle
        BY <1>1, <1>3, <2>1, <3>1
      <4>2. TickOK(T)'
        BY <4>1
      <4>3. QED
        BY <4>1, <4>2
    <3>2. CASE q # s
      <4>1. U = tick[q] /\ tick[q] # Idle
        BY <1>1, <1>3, <2>1, <3>2
      <4>2. TickOK(U)
        BY <4>1 DEF Inv, TicksTrue
      <4>3. QED
        BY <4>2, TickKept DEF Inv
    <3>3. QED
      BY <3>1, <3>2
  <2>3. QED
    BY <2>1, <2>2, TickNamed
<1>4. QED
  BY <1>2, <1>3 DEF TicksTrue

\* The tick goes on to the next of the definitions it read.
LEMMA OnwardKept ==
    ASSUME Inv, Tabled, NEW s \in Schedulers, tick[s] # Idle, Onward(s)
    PROVE  TicksTrue' /\ tick' \in [Schedulers -> TickSet \cup {Idle}]
<1>1. PICK U \in TickSet : U = tick[s]
  BY DEF Inv, ProcsOK
<1>2. TickOK(U)
  BY <1>1 DEF Inv, TicksTrue
<1>3. TickOK(U)'
  BY <1>2, TickKept DEF Inv
<1>4. CASE tick' = [tick EXCEPT ![s] = Idle]
  BY <1>4, TicksMove
<1>5. CASE \E d \in U.due : tick' = [tick EXCEPT ![s] = Firing(U.at, U.due, d)]
  <2>1. PICK d \in U.due : tick' = [tick EXCEPT ![s] = Firing(U.at, U.due, d)]
    BY <1>5
  <2>2. d \in CopySet /\ U.at \in Nat /\ U.due \in SUBSET CopySet /\ CopyOK(d, U.at)
    BY <1>2 DEF TickSet, TickOK
  <2>3. d.next <= U.at
    BY <2>2 DEF CopyOK
  <2> DEFINE T == Firing(U.at, U.due, d)
  <2>4. /\ T \in TickSet /\ T.at = U.at /\ T.due \subseteq U.due /\ T.def = d
        /\ Aligned(d) => FiringOK(T)
    BY <2>2, <2>3, FiringStarts
  <2> HIDE DEF T
  <2>5. \A g, u : KeyHeld(g, u) => KeyHeld(g, u)'
    BY DEF KeyHeld, Tabled, Forward
  <2>6. Aligned(d) => FiringOK(T)'
    BY <2>4, <2>5 DEF FiringOK
  <2>7. U.at <= now' /\ \A e \in U.due : CopyOK(e, U.at)'
    BY <1>3 DEF TickOK
  <2>8. TickOK(T)'
    BY <2>4, <2>6, <2>7 DEF TickOK
  <2>9. QED
    BY <2>1, <2>4, <2>8, TicksMove DEF T
<1>6. QED
  BY <1>1, <1>4, <1>5 DEF Onward

----------------------------------------------------------------------------
(* What each statement does to the table. *)

LEMMA SlugStill ==
    ASSUME TableOK, TableOK', NEW g \in Slugs, SlugOK(g), Forward, now' = now, row'[g] = row[g],
           owed'[g] = owed[g], crossed'[g] = crossed[g]
    PROVE  SlugOK(g)' /\ Follows(g)
<1>1. /\ row[g] # NoRow => row[g] \in RowSet
      /\ ids[g] \in Nat /\ ids'[g] \in Nat /\ ids'[g] >= ids[g]
  BY DEF TableOK, Forward
<1>2. \A t : KeyHeld(g, t) => KeyHeld(g, t)'
  BY DEF KeyHeld, Forward
<1>3. row[g] # NoRow => row[g].id \in Nat /\ row[g].era \in Nat
  BY <1>1 DEF RowSet
<1>4. SlugOK(g)'
  <2>1. row[g] # NoRow => row[g].id <= ids'[g]
    BY <1>1, <1>3 DEF SlugOK
  <2>2. QED
    BY <1>2, <2>1 DEF SlugOK, Aligned
<1>5. Follows(g)
  BY <1>3 DEF Follows
<1>6. QED
  BY <1>4, <1>5

\* A step that writes no definition.
LEMMA TableStill ==
    ASSUME Inv, UNCHANGED <<now, row, ids, owed, crossed>>, jobs \subseteq jobs'
    PROVE  Tabled
<1>1. TableOK /\ TableOK'
  BY DEF Inv, TableOK
<1>2. Forward
  BY <1>1 DEF TableOK, Forward
<1>3. ASSUME NEW g \in Slugs
      PROVE  SlugOK(g)' /\ Follows(g)
  BY <1>1, <1>2, SlugStill DEF Inv, FiresKept
<1>4. QED
  BY <1>1, <1>2, <1>3 DEF Tabled

\* A step that writes one definition.
LEMMA TableMoves ==
    ASSUME Inv, NEW g \in Slugs, now' = now, jobs \subseteq jobs', TableOK',
           ids'[g] >= ids[g],
           \A h \in Slugs \ {g} : /\ row'[h] = row[h] /\ ids'[h] = ids[h]
                                  /\ owed'[h] = owed[h] /\ crossed'[h] = crossed[h],
           SlugOK(g)', Follows(g)
    PROVE  Tabled
<1>1. TableOK
  BY DEF Inv
<1>2. Forward
  BY <1>1 DEF TableOK, Forward
<1>3. ASSUME NEW h \in Slugs
      PROVE  SlugOK(h)' /\ Follows(h)
  <2>1. CASE h = g
    BY <2>1
  <2>2. CASE h # g
    BY <1>1, <1>2, <2>2, SlugStill DEF Inv, FiresKept
  <2>3. QED
    BY <2>1, <2>2
<1>4. QED
  BY <1>2, <1>3 DEF Tabled

LEMMA InsertTabled ==
    ASSUME Inv, NEW g \in Slugs, NEW sp \in SpecSet, NEW t \in Nat, row[g] = NoRow,
           Insert(g, sp, t), now' = now
    PROVE  Tabled
<1> DEFINE r == PeriodicRow(g, sp, t)
<1>1. TableOK
  BY DEF Inv
<1>2. ids[g] \in Nat
  BY <1>1 DEF TableOK
<1>3. NextFireAfter(sp, t) \in Nat /\ (sp.cron => NextFireAfter(sp, t) % sp.n = 0)
  BY NextFireType
<1>4. r \in RowSet /\ r.id = ids[g] + 1 /\ Aligned(r)
  <2>1. <<>> \in Seq(FireSet)
    OBVIOUS
  <2>2. QED
    BY <1>2, <1>3, <2>1 DEF PeriodicRow, RowSet, SpecSet, Aligned
<1> HIDE DEF r
<1>5. /\ row' = [row EXCEPT ![g] = r] /\ ids' = [ids EXCEPT ![g] = ids[g] + 1]
      /\ owed' = [owed EXCEPT ![g] = {}] /\ crossed' = [crossed EXCEPT ![g] = FALSE] /\ jobs' = jobs
  BY DEF Insert, r
<1>6. TableOK'
  BY <1>1, <1>2, <1>4, <1>5 DEF TableOK
<1>7. row'[g] = r /\ ids'[g] = ids[g] + 1 /\ owed'[g] = {}
  BY <1>1, <1>5 DEF TableOK
<1>8. SlugOK(g)' /\ Follows(g) /\ ids'[g] >= ids[g]
  <2>1. r.id <= ids[g] + 1 /\ r.id > ids[g] /\ ids[g] + 1 >= ids[g]
    BY <1>2, <1>4
  <2>2. Aligned(row[g])'
    BY <1>4, <1>7 DEF Aligned
  <2>3. QED
    BY <1>7, <2>1, <2>2 DEF SlugOK, Follows
<1>9. \A h \in Slugs \ {g} : /\ row'[h] = row[h] /\ ids'[h] = ids[h]
                             /\ owed'[h] = owed[h] /\ crossed'[h] = crossed[h]
  BY <1>1, <1>5 DEF TableOK
<1>10. QED
  BY <1>5, <1>6, <1>8, <1>9, TableMoves

\* A write that leaves schedule, cursor and era alone.
LEMMA FlagTabled ==
    ASSUME Inv, NEW g \in Slugs, row[g] # NoRow, NEW r \in RowSet, row' = [row EXCEPT ![g] = r],
           r.id = row[g].id, r.era = row[g].era, r.cron = row[g].cron, r.n = row[g].n,
           r.next = row[g].next, UNCHANGED <<now, ids, jobs, owed, crossed>>
    PROVE  Tabled
<1>1. TableOK /\ row[g] \in RowSet
  BY DEF Inv, TableOK
<1>2. TableOK' /\ row'[g] = r
  BY <1>1 DEF TableOK
<1>3. row[g].id \in Nat /\ row[g].era \in Nat /\ ids[g] \in Nat
  BY <1>1 DEF TableOK, RowSet
<1>4. SlugOK(g)
  BY DEF Inv, FiresKept
<1>5. Aligned(row[g]) => Aligned(row[g])'
  BY <1>2 DEF Aligned
<1>6. SlugOK(g)'
  <2>1. \A t : KeyHeld(g, t) => KeyHeld(g, t)'
    BY DEF KeyHeld
  <2>2. QED
    BY <1>2, <1>4, <1>5, <2>1 DEF SlugOK
<1>7. Follows(g) /\ ids'[g] >= ids[g]
  BY <1>2, <1>3 DEF Follows
<1>8. \A h \in Slugs \ {g} : /\ row'[h] = row[h] /\ ids'[h] = ids[h]
                             /\ owed'[h] = owed[h] /\ crossed'[h] = crossed[h]
  BY <1>1 DEF TableOK
<1>9. QED
  BY <1>2, <1>6, <1>7, <1>8, TableMoves

\* The clock: what comes due now is ahead of every cursor a tick read.
LEMMA ClockTabled ==
    ASSUME Inv, ClockTicks
    PROVE  Tabled
<1>1. TableOK /\ now \in Nat /\ now' = now + 1 /\ UNCHANGED <<row, ids, jobs, crossed>>
  BY DEF Inv, TableOK, ClockTicks, table
<1>2. ASSUME NEW g \in Slugs
      PROVE  /\ owed'[g] \subseteq Nat
             /\ \A t \in owed'[g] : t \in owed[g] \/ (t = now' /\ Fires(row[g]) /\ t \in FiresUpTo(row[g], now'))
  BY <1>1 DEF ClockTicks, TableOK
<1>3. TableOK'
  <2>1. owed' \in [Slugs -> SUBSET Nat]
    BY <1>1, <1>2 DEF ClockTicks, TableOK
  <2>2. QED
    BY <1>1, <2>1 DEF TableOK
<1>4. Forward
  BY <1>1 DEF Forward, TableOK
<1>5. ASSUME NEW g \in Slugs
      PROVE  SlugOK(g)' /\ Follows(g)
  <2>1. SlugOK(g)
    BY DEF Inv, FiresKept
  <2>2. row[g] # NoRow => row[g] \in RowSet /\ row[g].n \in Nat \ {0} /\ row[g].next \in Nat
                          /\ row[g].id \in Nat /\ row[g].era \in Nat
    BY <1>1 DEF TableOK, RowSet
  <2>3. Follows(g)
    BY <1>1, <1>2, <2>2 DEF Follows
  <2>4. ASSUME row[g] # NoRow, ~crossed[g], NEW t \in owed'[g]
        PROVE  KeyHeld(g, t)' \/ t \in Times(row[g].next, row[g].n, now')
    <3>1. CASE t \in owed[g]
      <4>1. KeyHeld(g, t) \/ t \in Times(row[g].next, row[g].n, now)
        BY <2>1, <2>4, <3>1 DEF SlugOK
      <4>2. KeyHeld(g, t) => KeyHeld(g, t)'
        BY <1>1 DEF KeyHeld
      <4>3. t \in Times(row[g].next, row[g].n, now) => t \in Times(row[g].next, row[g].n, now')
        BY <1>1, <2>2, <2>4 DEF Times
      <4>4. QED
        BY <4>1, <4>2, <4>3
    <3>2. CASE t \in FiresUpTo(row[g], now')
      <4>1. Aligned(row[g]) /\ now' \in Nat
        BY <1>1, <2>1, <2>4 DEF SlugOK
      <4>2. PICK r : r = row[g]
        OBVIOUS
      <4>u. PICK u \in Nat : u = now'
        BY <4>1
      <4> r.n \in Nat \ {0} /\ r.next \in Nat /\ Aligned(r)
        BY <2>2, <2>4, <4>1, <4>2 DEF Aligned
      <4>3. FiresUpTo(r, u) = Times(r.next, r.n, u)
        BY FiresAreTimes
      <4>4. t \in FiresUpTo(r, u)
        BY <3>2, <4>2, <4>u DEF FiresUpTo
      <4>5. QED
        BY <4>2, <4>u, <4>3, <4>4
    <3>3. QED
      BY <1>2, <3>1, <3>2
  <2>5. SlugOK(g)'
    BY <1>1, <2>1, <2>4 DEF SlugOK, Aligned
  <2>6. QED
    BY <2>3, <2>5
<1>6. QED
  BY <1>3, <1>4, <1>5 DEF Tabled

\* fire's last write: what it skips is enqueued, dropped by the cap, or was
\* settled before the tick read the row.
LEMMA AdvanceTabled ==
    ASSUME Inv, NEW s \in Schedulers, Advance(s)
    PROVE  Tabled
<1>1. TableOK /\ tick[s] # Idle
  BY DEF Inv, Advance
<1> DEFINE T == tick[s]
<1>2. T \in TickSet
  BY <1>1 DEF Inv, ProcsOK
<1>3. TickOK(T)
  BY <1>1, <1>2 DEF Inv, TicksTrue
<1>g. PICK g \in Slugs : g = T.def.slug
  BY <1>2 DEF TickSet, CopySet
<1> DEFINE d == T.def
           hit == row[g] # NoRow /\ row[g].id = d.id
<1>4. /\ d \in CopySet /\ g \in Slugs /\ d.n \in Nat \ {0} /\ d.next \in Nat /\ d.era \in Nat
      /\ T.at \in Nat /\ T.next \in Nat /\ T.fires \in Seq(FireSet)
  BY <1>2 DEF TickSet, CopySet
<1>5. /\ T.todo = <<>>
      /\ UNCHANGED <<now, ids, jobs>>
      /\ ~hit => UNCHANGED <<row, owed, crossed>>
      /\ hit => /\ row' = [row EXCEPT ![g].next = T.next, ![g].recent = PrependFires(@, T.fires)]
                /\ owed' = [owed EXCEPT ![g] = owed[g] \ {u \in FiresUpTo(d, T.at) :
                       Cardinality({v \in FiresUpTo(d, T.at) : v > u}) >= BackfillCap}]
                /\ crossed' = IF row[g].era # d.era THEN [crossed EXCEPT ![g] = TRUE] ELSE crossed
  <2> DEFINE h == T.def.slug
             h_hit == row[h] # NoRow /\ row[h].id = d.id
  <2>1. /\ T.todo = <<>>
        /\ UNCHANGED <<now, ids, jobs>>
        /\ ~h_hit => UNCHANGED <<row, owed, crossed>>
        /\ h_hit => /\ row' = [row EXCEPT ![h].next = T.next, ![h].recent = PrependFires(@, T.fires)]
                    /\ owed' = [owed EXCEPT ![h] = owed[h] \ {u \in FiresUpTo(d, T.at) :
                           Cardinality({v \in FiresUpTo(d, T.at) : v > u}) >= BackfillCap}]
                    /\ crossed' = IF row[h].era # d.era THEN [crossed EXCEPT ![h] = TRUE] ELSE crossed
    BY DEF Advance
  <2>2. h = g
    BY <1>g
  <2> HIDE DEF h
  <2>3. QED
    BY <2>1, <2>2, SMTT(40)
<1> HIDE DEF T
<1>d. d.slug = g
  BY <1>g
<1> HIDE DEF d
<1>6. CASE ~hit
  BY <1>5, <1>6, TableStill
<1>7. CASE hit
  <2> DEFINE dropped == {u \in FiresUpTo(d, T.at) :
                           Cardinality({v \in FiresUpTo(d, T.at) : v > u}) >= BackfillCap}
             r == [row[g] EXCEPT !.next = T.next, !.recent = PrependFires(row[g].recent, T.fires)]
  <2>1. row[g] \in RowSet
    BY <1>1, <1>4, <1>7 DEF TableOK
  <2>2. PrependFires(row[g].recent, T.fires) \in Seq(FireSet)
    <3>1. PICK q \in Seq(FireSet) : q = row[g].recent
      BY <2>1 DEF RowSet
    <3>2. QED
      BY <1>4, <3>1, PrependType
  <2>3. /\ r \in RowSet /\ r.id = row[g].id /\ r.era = row[g].era /\ r.cron = row[g].cron
        /\ r.n = row[g].n /\ r.next = T.next
    BY <1>4, <2>1, <2>2 DEF RowSet
  <2>4. /\ row' = [row EXCEPT ![g] = r] /\ owed' = [owed EXCEPT ![g] = owed[g] \ dropped]
    BY <1>5, <1>7
  <2> HIDE DEF r, dropped
  <2>5. /\ row'[g] = r /\ owed'[g] = owed[g] \ dropped
        /\ crossed'[g] = IF row[g].era # d.era THEN TRUE ELSE crossed[g]
    BY <1>1, <1>4, <1>5, <1>7, <2>4 DEF TableOK
  <2>6. TableOK'
    <3>1. owed[g] \ dropped \in SUBSET Nat /\ crossed' \in [Slugs -> BOOLEAN]
      BY <1>1, <1>4, <1>5, <1>7 DEF TableOK
    <3>2. QED
      BY <1>1, <1>4, <1>5, <2>3, <2>4, <3>1 DEF TableOK
  <2>7. row[g].id \in Nat /\ row[g].era \in Nat /\ row[g].n \in Nat \ {0} /\ row[g].next \in Nat
        /\ ids[g] \in Nat /\ now \in Nat /\ owed[g] \subseteq Nat
    BY <1>1, <1>4, <2>1 DEF TableOK, RowSet
  <2>8. SlugOK(g)
    BY <1>4 DEF Inv, FiresKept
  <2>9. ASSUME ~crossed'[g]
        PROVE  /\ ~crossed[g] /\ Aligned(d) /\ Aligned(row[g])
               /\ row[g].n = d.n /\ row[g].cron = d.cron
               /\ row[g].next % d.n = d.next % d.n
               /\ T.next % d.n = d.next % d.n
               /\ \A t \in owed[g] : t < d.next => KeyHeld(g, t)
               /\ FiringOK(T)
    <3>1. ~crossed[g] /\ row[g].era = d.era
      BY <2>5, <2>9
    <3>2. Current(d)
      BY <1>7, <3>1, <1>d DEF Current, d
    <3>3. CopyOK(d, T.at)
      BY <1>3 DEF TickOK, d
    <3>4. /\ row[g].cron = d.cron /\ row[g].n = d.n
          /\ row[g].next % d.n = d.next % d.n
          /\ \A t \in owed[g] : t < d.next => KeyHeld(g, t)
      BY <3>2, <3>3, <1>d DEF CopyOK, d
    <3>5. Aligned(row[g])
      BY <1>7, <2>8, <3>1 DEF SlugOK
    <3>6. Aligned(d)
      BY <3>4, <3>5 DEF Aligned
    <3>7. FiringOK(T)
      BY <1>3, <3>6 DEF TickOK, d
    <3>8. T.next % d.n = d.next % d.n
      BY <3>7 DEF FiringOK, d
    <3>9. QED
      BY <3>1, <3>4, <3>5, <3>6, <3>7, <3>8
  <2>10. Follows(g)
    <3>1. ~crossed'[g] => r.next % row[g].n = row[g].next % row[g].n
      BY <2>3, <2>9
    <3>2. QED
      BY <1>7, <2>3, <2>5, <2>7, <2>9, <3>1 DEF Follows
  <2>11. ASSUME ~crossed'[g], NEW t \in owed'[g]
         PROVE  KeyHeld(g, t) \/ t \in Times(T.next, d.n, now)
    <3>1. t \in owed[g] /\ t \notin dropped /\ t \in Nat
      BY <2>5, <2>7, <2>11
    <3>2. KeyHeld(g, t) \/ t \in Times(row[g].next, row[g].n, now)
      BY <1>7, <2>8, <2>9, <2>11, <3>1 DEF SlugOK
    <3>3. SUFFICES ASSUME ~KeyHeld(g, t)
                   PROVE  t \in Times(T.next, d.n, now)
      OBVIOUS
    <3>4. t \in row[g].next..now /\ t % d.n = T.next % d.n
      BY <2>9, <2>11, <3>2, <3>3 DEF Times
    <3>5. CASE t >= T.next
      BY <1>4, <2>7, <3>1, <3>4, <3>5 DEF Times
    <3>6. CASE t < T.next
      <4>1. t + d.n <= T.next
        BY <1>4, <3>1, <3>4, <3>6, Periods
      <4>2. T.next <= T.at + d.n
        BY <2>9, <2>11 DEF FiringOK, d
      <4>3. t <= T.at
        BY <1>4, <3>1, <4>1, <4>2
      <4>4. ~(t < d.next)
        BY <2>9, <2>11, <3>1, <3>3
      <4>5. t \in Times(d.next, d.n, T.at)
        BY <1>4, <2>9, <2>11, <3>1, <3>4, <4>3, <4>4 DEF Times
      <4>6. FiresUpTo(d, T.at) = Times(d.next, d.n, T.at)
        BY <1>4, <2>9, <2>11, FiresAreTimes
      <4>7. ~(Cardinality({v \in Times(d.next, d.n, T.at) : v > t}) >= BackfillCap)
        BY <3>1, <4>5, <4>6 DEF dropped
      <4>8. \E i \in DOMAIN T.todo : T.todo[i] = t
        BY <2>9, <2>11, <3>3, <4>5, <4>7, <1>d DEF FiringOK, d
      <4>9. DOMAIN T.todo = {}
        BY <1>5
      <4>10. QED
        BY <4>8, <4>9
    <3>7. QED
      BY <1>4, <3>1, <3>5, <3>6
  <2>12. SlugOK(g)'
    <3>1. r.id <= ids'[g]
      BY <1>5, <1>7, <2>3, <2>8 DEF SlugOK
    <3>2. ~crossed'[g] => Aligned(r)
      BY <2>3, <2>9 DEF Aligned
    <3>3. ~crossed'[g] => \A t \in owed'[g] : KeyHeld(g, t)' \/ t \in Times(r.next, r.n, now')
      BY <1>5, <2>3, <2>9, <2>11 DEF KeyHeld
    <3>4. QED
      BY <2>5, <3>1, <3>2, <3>3 DEF SlugOK, Aligned
  <2>13. \A h \in Slugs \ {g} : /\ row'[h] = row[h] /\ ids'[h] = ids[h]
                                /\ owed'[h] = owed[h] /\ crossed'[h] = crossed[h]
    BY <1>1, <1>4, <1>5, <1>7, <2>4 DEF TableOK
  <2>14. ids'[g] >= ids[g] /\ now' = now /\ jobs \subseteq jobs'
    BY <1>5, <2>7
  <2>15. QED
    BY <1>4, <2>6, <2>10, <2>12, <2>13, <2>14, TableMoves
<1>8. QED
  BY <1>6, <1>7

\* updatePeriodic: a schedule the call found changed starts anew; one it found
\* the same stays, or is mixed with the row's.
LEMMA UpdateTabled ==
    ASSUME Inv, NEW u \in Callers, UpsertUpdates(u)
    PROVE  Tabled
<1>1. TableOK /\ up[u] # Idle /\ up[u].pc = "update"
  BY DEF Inv, UpsertUpdates
<1>2. up[u] \in CallSet /\ up[u].seen \in SeenSet
  BY <1>1 DEF Inv, ProcsOK, CallsOK
<1>3. PICK c \in CallSet : c = up[u]
  BY <1>2
<1>4. PICK g \in Slugs : g = c.slug
  BY DEF CallSet
<1> DEFINE hit == row[g] # NoRow /\ row[g].id = c.seen.id
           same == SameSchedule(c.seen, c.spec)
           r == Updated(row[g], c)
<1>5. /\ UNCHANGED <<now, ids, jobs>>
      /\ ~hit => UNCHANGED <<row, owed, crossed>>
      /\ hit => /\ row' = [row EXCEPT ![g] = r]
                /\ owed' = IF same THEN owed ELSE [owed EXCEPT ![g] = {}]
                /\ crossed' = [crossed EXCEPT ![g] =
                       IF same THEN crossed[g] \/ ~SameSchedule(row[g], c.spec) ELSE FALSE]
  BY <1>3, <1>4 DEF UpsertUpdates
<1>6. CASE ~hit
  BY <1>5, <1>6, TableStill
<1>7. CASE hit
  <2>1. row[g] \in RowSet
    BY <1>1, <1>7 DEF TableOK
  <2>2. c.spec \in SpecSet /\ c.at \in Nat
    BY DEF CallSet
  <2>3. NextFireAfter(c.spec, c.at) \in Nat
        /\ (c.spec.cron => NextFireAfter(c.spec, c.at) % c.spec.n = 0)
    BY <2>2, NextFireType
  <2>4. /\ r \in RowSet /\ r.id = row[g].id
        /\ r.cron = c.spec.cron /\ r.n = c.spec.n
        /\ r.next = IF same THEN row[g].next ELSE NextFireAfter(c.spec, c.at)
        /\ r.era = IF same THEN row[g].era ELSE row[g].era + 1
    <3> DEFINE nx == IF same THEN row[g].next ELSE NextFireAfter(c.spec, c.at)
               er == IF same THEN row[g].era ELSE row[g].era + 1
    <3>1. r = [row[g] EXCEPT !.cron = c.spec.cron, !.n = c.spec.n, !.active = c.spec.active,
                             !.next = nx, !.era = er]
      BY DEF Updated
    <3>2. nx \in Nat /\ er \in Nat
      BY <2>1, <2>3 DEF RowSet
    <3> HIDE DEF nx, er, r
    <3>3. c.spec.cron \in BOOLEAN /\ c.spec.n \in Nat \ {0} /\ c.spec.active \in BOOLEAN
      BY <2>2 DEF SpecSet
    <3>4. /\ r \in RowSet /\ r.id = row[g].id
          /\ r.cron = c.spec.cron /\ r.n = c.spec.n /\ r.next = nx /\ r.era = er
      BY <2>1, <3>1, <3>2, <3>3 DEF RowSet
    <3>5. QED
      BY <3>4 DEF nx, er
  <2> HIDE DEF r, same
  <2>5. TableOK' /\ row'[g] = r
    BY <1>1, <1>5, <1>7, <2>4 DEF TableOK
  <2>6. row[g].id \in Nat /\ row[g].era \in Nat /\ ids[g] \in Nat
    BY <1>1, <2>1 DEF TableOK, RowSet
  <2>7. SlugOK(g)
    BY DEF Inv, FiresKept
  <2>8. r.id <= ids'[g]
    BY <1>5, <1>7, <2>4, <2>7 DEF SlugOK
  <2>9. ASSUME same
        PROVE  SlugOK(g)' /\ Follows(g)
    <3>1. owed'[g] = owed[g]
      BY <1>5, <1>7, <2>9
    <3>2. ASSUME ~crossed'[g]
          PROVE  ~crossed[g] /\ r.cron = row[g].cron /\ r.n = row[g].n /\ r.next = row[g].next
      <4>1. crossed'[g] = (crossed[g] \/ ~SameSchedule(row[g], c.spec))
        BY <1>1, <1>5, <1>7, <2>9 DEF TableOK
      <4>2. QED
        BY <2>4, <2>9, <3>2, <4>1 DEF SameSchedule
    <3>3. Follows(g)
      BY <1>7, <2>4, <2>5, <2>6, <2>9, <3>1, <3>2 DEF Follows
    <3>4. ~crossed'[g] => Aligned(r)
      BY <1>7, <2>7, <3>2 DEF SlugOK, Aligned
    <3>5. ~crossed'[g] => \A t \in owed'[g] : KeyHeld(g, t)' \/ t \in Times(r.next, r.n, now')
      BY <1>5, <1>7, <2>7, <3>1, <3>2 DEF SlugOK, KeyHeld
    <3>6. SlugOK(g)'
      BY <2>5, <2>8, <3>4, <3>5 DEF SlugOK, Aligned
    <3>7. QED
      BY <3>3, <3>6
  <2>10. ASSUME ~same
         PROVE  SlugOK(g)' /\ Follows(g)
    <3>1. owed'[g] = {}
      BY <1>1, <1>5, <1>7, <2>10 DEF TableOK
    <3>2. r.era = row[g].era + 1 /\ Aligned(r)
      BY <2>3, <2>4, <2>10 DEF Aligned
    <3>3. Follows(g)
      BY <1>7, <2>4, <2>5, <2>6, <3>2 DEF Follows
    <3>4. SlugOK(g)'
      BY <2>5, <2>8, <3>1, <3>2 DEF SlugOK, Aligned
    <3>5. QED
      BY <3>3, <3>4
  <2>11. SlugOK(g)' /\ Follows(g)
    BY <2>9, <2>10
  <2>12. \A h \in Slugs \ {g} : /\ row'[h] = row[h] /\ ids'[h] = ids[h]
                                /\ owed'[h] = owed[h] /\ crossed'[h] = crossed[h]
    BY <1>1, <1>5, <1>7 DEF TableOK
  <2>13. ids'[g] >= ids[g] /\ now' = now /\ jobs \subseteq jobs'
    BY <1>5, <2>6
  <2>14. QED
    BY <2>5, <2>11, <2>12, <2>13, TableMoves
<1>8. QED
  BY <1>6, <1>7

LEMMA ResumeTabled ==
    ASSUME Inv, NEW g \in Slugs, Resume(g)
    PROVE  Tabled
<1> DEFINE r == [row[g] EXCEPT !.paused = FALSE, !.next = ResumedNextRun(row[g], now)]
<1>1. TableOK /\ row[g] # NoRow /\ row[g] \in RowSet /\ now \in Nat
  BY DEF Inv, TableOK, Resume, Control
<1>2. /\ ResumedNextRun(row[g], now) \in Nat
      /\ Aligned(row[g]) => ResumedNextRun(row[g], now) % row[g].n = row[g].next % row[g].n
  BY <1>1, ResumeOnTime
<1>3. /\ r \in RowSet /\ r.id = row[g].id /\ r.era = row[g].era /\ r.cron = row[g].cron
      /\ r.n = row[g].n /\ r.next = ResumedNextRun(row[g], now)
  BY <1>1, <1>2 DEF RowSet
<1>4. /\ row' = [row EXCEPT ![g] = r] /\ owed' = [owed EXCEPT ![g] = {}]
      /\ UNCHANGED <<now, ids, jobs, crossed>>
  BY DEF Resume
<1> HIDE DEF r
<1>5. TableOK' /\ row'[g] = r /\ owed'[g] = {}
  BY <1>1, <1>3, <1>4 DEF TableOK
<1>6. row[g].id \in Nat /\ row[g].era \in Nat /\ ids[g] \in Nat
  BY <1>1 DEF TableOK, RowSet
<1>7. SlugOK(g)
  BY DEF Inv, FiresKept
<1>8. ~crossed[g] => Aligned(row[g]) /\ r.next % row[g].n = row[g].next % row[g].n
  BY <1>1, <1>2, <1>3, <1>7 DEF SlugOK
<1>9. SlugOK(g)'
  <2>1. ~crossed[g] => Aligned(r)
    BY <1>3, <1>8 DEF Aligned
  <2>2. QED
    BY <1>1, <1>3, <1>4, <1>5, <1>7, <2>1 DEF SlugOK, Aligned
<1>10. Follows(g) /\ ids'[g] >= ids[g]
  BY <1>1, <1>3, <1>4, <1>5, <1>6, <1>8 DEF Follows
<1>11. \A h \in Slugs \ {g} : /\ row'[h] = row[h] /\ ids'[h] = ids[h]
                              /\ owed'[h] = owed[h] /\ crossed'[h] = crossed[h]
  BY <1>1, <1>4 DEF TableOK
<1>12. QED
  BY <1>4, <1>5, <1>9, <1>10, <1>11, TableMoves

LEMMA DeleteTabled ==
    ASSUME Inv, NEW g \in Slugs, DeletePeriodic(g)
    PROVE  Tabled
<1>1. TableOK
  BY DEF Inv
<1>2. /\ row' = [row EXCEPT ![g] = NoRow] /\ owed' = [owed EXCEPT ![g] = {}]
      /\ crossed' = [crossed EXCEPT ![g] = FALSE] /\ UNCHANGED <<now, ids, jobs>>
  BY DEF DeletePeriodic
<1>3. TableOK' /\ row'[g] = NoRow /\ ids[g] \in Nat
  BY <1>1, <1>2 DEF TableOK
<1>4. SlugOK(g)' /\ Follows(g) /\ ids'[g] >= ids[g]
  BY <1>2, <1>3 DEF SlugOK, Follows
<1>5. \A h \in Slugs \ {g} : /\ row'[h] = row[h] /\ ids'[h] = ids[h]
                             /\ owed'[h] = owed[h] /\ crossed'[h] = crossed[h]
  BY <1>1, <1>2 DEF TableOK
<1>6. QED
  BY <1>2, <1>3, <1>4, <1>5, TableMoves

\* The other controls.
LEMMA ControlTabled ==
    ASSUME Inv, NEW g \in Slugs,
           Pause(g) \/ Trigger(g) \/ \E active \in BOOLEAN : SetPeriodicActive(g, active)
    PROVE  Tabled
<1>1. row[g] # NoRow /\ row[g] \in RowSet /\ now \in Nat
  BY DEF Inv, TableOK, Pause, Trigger, SetPeriodicActive, Control
<1>2. UNCHANGED <<now, ids, jobs, owed, crossed>>
  BY DEF Pause, Trigger, SetPeriodicActive, history
<1>3. CASE Pause(g)
  <2> DEFINE r == [row[g] EXCEPT !.paused = TRUE]
  <2>1. /\ r \in RowSet /\ r.id = row[g].id /\ r.era = row[g].era /\ r.cron = row[g].cron
        /\ r.n = row[g].n /\ r.next = row[g].next
    BY <1>1 DEF RowSet
  <2>2. row' = [row EXCEPT ![g] = r]
    BY <1>3 DEF Pause
  <2> HIDE DEF r
  <2>3. QED
    BY <1>1, <1>2, <2>1, <2>2, FlagTabled
<1>4. CASE Trigger(g)
  <2> DEFINE r == [row[g] EXCEPT !.recent = PrependFires(row[g].recent, <<Fire(now, TRUE)>>)]
  <2>1. PrependFires(row[g].recent, <<Fire(now, TRUE)>>) \in Seq(FireSet)
    <3>1. Fire(now, TRUE) \in FireSet
      BY <1>1 DEF Fire, FireSet
    <3>2. PICK f \in FireSet : f = Fire(now, TRUE)
      BY <3>1
    <3>3. PICK q \in Seq(FireSet) : q = row[g].recent
      BY <1>1 DEF RowSet
    <3>4. <<f>> \in Seq(FireSet)
      OBVIOUS
    <3>5. QED
      BY <3>2, <3>3, <3>4, PrependType
  <2>2. /\ r \in RowSet /\ r.id = row[g].id /\ r.era = row[g].era /\ r.cron = row[g].cron
        /\ r.n = row[g].n /\ r.next = row[g].next
    BY <1>1, <2>1 DEF RowSet
  <2>3. row' = [row EXCEPT ![g] = r]
    BY <1>1, <1>4 DEF Trigger, Inv, TableOK
  <2> HIDE DEF r
  <2>4. QED
    BY <1>1, <1>2, <2>2, <2>3, FlagTabled
<1>5. CASE \E active \in BOOLEAN : SetPeriodicActive(g, active)
  <2>1. PICK active \in BOOLEAN : SetPeriodicActive(g, active)
    BY <1>5
  <2> DEFINE r == [row[g] EXCEPT !.active = active]
  <2>2. /\ r \in RowSet /\ r.id = row[g].id /\ r.era = row[g].era /\ r.cron = row[g].cron
        /\ r.n = row[g].n /\ r.next = row[g].next
    BY <1>1 DEF RowSet
  <2>3. row' = [row EXCEPT ![g] = r]
    BY <2>1 DEF SetPeriodicActive
  <2> HIDE DEF r
  <2>4. QED
    BY <1>1, <1>2, <2>2, <2>3, FlagTabled
<1>6. QED
  BY <1>3, <1>4, <1>5

----------------------------------------------------------------------------
(* What each step does to the Schedulers and the calls. *)

Applied == CallsOK' /\ AppliesOnce'

LEMMA InvStep ==
    ASSUME Inv, Tabled, Applied, TicksTrue', tick' \in [Schedulers -> TickSet \cup {Idle}]
    PROVE  Inv'
  BY DEF Tabled, Applied, Inv, ProcsOK, FiresKept

\* A step of the table alone.
LEMMA StillStep ==
    ASSUME Inv, Tabled, UNCHANGED <<pending, rec, up, landed, tick>>
    PROVE  Inv'
<1>1. TicksTrue'
  BY TicksStill
<1>2. Applied
  BY DEF Applied, Inv, ProcsOK, CallsOK, AppliesOnce, ApplyOK
<1>3. tick' \in [Schedulers -> TickSet \cup {Idle}]
  BY DEF Inv, ProcsOK
<1>4. QED
  BY <1>1, <1>2, <1>3, InvStep

\* A step of the calls.
LEMMA CallStep ==
    ASSUME Inv, Tabled, Applied, tick' = tick
    PROVE  Inv'
<1>1. TicksTrue'
  BY TicksStill
<1>2. tick' \in [Schedulers -> TickSet \cup {Idle}]
  BY DEF Inv, ProcsOK
<1>3. QED
  BY <1>1, <1>2, InvStep

\* A call begins: it loads the row.
LEMMA CallType ==
    ASSUME TableOK, NEW g \in Slugs, NEW sp \in SpecSet
    PROVE  /\ Call(g, sp) \in CallSet /\ Call(g, sp).slug = g
           /\ Call(g, sp).pc = "update" => Call(g, sp).seen \in SeenSet
<1>1. now \in Nat /\ (row[g] # NoRow => row[g] \in RowSet)
  BY DEF TableOK
<1>2. Seen(g) \in SeenSet \cup {NoRow} /\ (row[g] # NoRow => Seen(g) \in SeenSet)
  BY <1>1 DEF Seen, SeenSet, RowSet
<1>3. QED
  BY <1>1, <1>2 DEF Call, CallSet

\* One Scheduler's apply moves.
LEMMA ApplyMoves ==
    ASSUME Inv, NEW s \in Schedulers,
           \A q \in Schedulers \ {s} :
              rec'[q] = rec[q] /\ up'[q] = up[q] /\ landed'[q] = landed[q] /\ pending'[q] = pending[q],
           ApplyOK(s)'
    PROVE  AppliesOnce'
<1>1. ASSUME NEW q \in Schedulers, q # s
      PROVE  ApplyOK(q)'
  BY <1>1 DEF Inv, AppliesOnce, ApplyOK
<1>2. QED
  BY <1>1 DEF AppliesOnce

\* A call returns: its declaration landed, or is to be tried again.
LEMMA ReturnApplied ==
    ASSUME Inv, NEW u \in Callers, up[u] # Idle, NEW ok \in BOOLEAN, UpsertReturns(u, ok),
           pending' = pending
    PROVE  Applied
<1>1. CallsOK
  BY DEF Inv, ProcsOK
<1>2. PICK g \in Slugs : g = up[u].slug
  BY <1>1 DEF CallsOK, CallSet
<1>3. /\ up' = [up EXCEPT ![u] = Idle]
      /\ u = Operator => rec' = rec /\ landed' = landed
      /\ u # Operator =>
           /\ rec' = [rec EXCEPT ![u].left = @ \ {g}, ![u].failed = IF ok THEN @ ELSE @ \cup {g}]
           /\ landed' = IF ok THEN [landed EXCEPT ![u] = @ \cup {g}] ELSE landed
  BY <1>2 DEF UpsertReturns
<1>4. CASE u = Operator
  <2>1. CallsOK'
    BY <1>1, <1>3, <1>4 DEF CallsOK, Callers
  <2>2. \A s \in Schedulers : up'[s] = up[s]
    BY <1>1, <1>3, <1>4, PeriodicsAssumption DEF CallsOK, Callers
  <2>3. AppliesOnce'
    BY <1>3, <1>4, <2>2 DEF Inv, AppliesOnce, ApplyOK
  <2>4. QED
    BY <2>1, <2>3 DEF Applied
<1>5. CASE u # Operator
  <2>1. u \in Schedulers
    BY <1>5 DEF Callers
  <2>2. rec[u] \in RecSet /\ ApplyOK(u)
    BY <1>1, <2>1 DEF CallsOK, Inv, AppliesOnce
  <2> DEFINE r == [rec[u] EXCEPT !.left = rec[u].left \ {g},
                                 !.failed = IF ok THEN rec[u].failed ELSE rec[u].failed \cup {g}]
  <2>3. /\ r \in RecSet /\ r.pc = rec[u].pc /\ r.left = rec[u].left \ {g}
        /\ r.failed = IF ok THEN rec[u].failed ELSE rec[u].failed \cup {g}
    BY <2>2 DEF RecSet
  <2>4. rec' = [rec EXCEPT ![u] = r]
    BY <1>1, <1>3, <1>5, <2>1 DEF CallsOK
  <2> HIDE DEF r
  <2>5. CallsOK'
    BY <1>1, <1>3, <1>5, <2>1, <2>3, <2>4 DEF CallsOK, Callers
  <2>6. /\ rec'[u] = r /\ up'[u] = Idle /\ pending'[u] = pending[u]
        /\ landed'[u] = IF ok THEN landed[u] \cup {g} ELSE landed[u]
    BY <1>1, <1>3, <1>5, <2>1, <2>4 DEF CallsOK
  <2>7. rec[u].pc = "apply" /\ g \in rec[u].left
    BY <1>2, <2>2 DEF ApplyOK
  <2>8. ApplyOK(u)'
    BY <2>2, <2>3, <2>6, <2>7 DEF ApplyOK
  <2>9. \A q \in Schedulers \ {u} :
           rec'[q] = rec[q] /\ up'[q] = up[q] /\ landed'[q] = landed[q] /\ pending'[q] = pending[q]
    BY <1>1, <1>3, <1>5, <2>1, <2>4 DEF CallsOK, Callers
  <2>10. QED
    BY <2>1, <2>5, <2>8, <2>9, ApplyMoves DEF Applied
<1>6. QED
  BY <1>4, <1>5

\* A call goes on.
LEMMA GoOnApplied ==
    ASSUME Inv, NEW u \in Callers, up[u] # Idle, NEW c \in CallSet, up' = [up EXCEPT ![u] = c],
           c.slug = up[u].slug, c.pc = "update" => c.seen \in SeenSet,
           UNCHANGED <<pending, rec, landed>>
    PROVE  Applied
<1>1. CallsOK
  BY DEF Inv, ProcsOK
<1>2. CallsOK'
  BY <1>1 DEF CallsOK
<1>3. ASSUME NEW s \in Schedulers
      PROVE  ApplyOK(s)'
  <2>1. ApplyOK(s) /\ s \in Callers
    BY DEF Inv, AppliesOnce, Callers
  <2>2. up'[s] # Idle => up[s] # Idle /\ up'[s].slug = up[s].slug
    BY <1>1, <2>1 DEF CallsOK
  <2>3. QED
    BY <2>1, <2>2 DEF ApplyOK
<1>4. QED
  BY <1>2, <1>3 DEF Applied, AppliesOnce

LEMMA UpsertStepInv ==
    ASSUME Inv, NEW u \in Callers, UpsertStep(u) \/ UpsertFails(u)
    PROVE  Inv'
<1>0. TableOK /\ up[u] # Idle /\ up[u] \in CallSet
  BY DEF Inv, ProcsOK, CallsOK, UpsertStep, UpsertFails, UpsertReloads, UpsertInserts, UpsertUpdates
<1>1. tick' = tick /\ pending' = pending
  BY DEF UpsertStep, UpsertFails, UpsertReloads, UpsertInserts, UpsertUpdates
<1>2. PICK c \in CallSet : c = up[u]
  BY <1>0
<1>3. PICK g \in Slugs : g = c.slug
  BY DEF CallSet
<1>4. CASE UpsertReloads(u)
  <2>1. Tabled
    <3>1. UNCHANGED <<now, row, ids, owed, crossed, jobs>>
      BY <1>4 DEF UpsertReloads, table
    <3>2. QED
      BY <3>1, TableStill
  <2>2. CASE row[g] = NoRow
    <3>1. UpsertReturns(u, FALSE)
      BY <1>2, <1>3, <1>4, <2>2 DEF UpsertReloads
    <3>2. QED
      BY <1>0, <1>1, <2>1, <3>1, ReturnApplied, CallStep
  <2>3. CASE row[g] # NoRow
    <3> DEFINE d == [c EXCEPT !.pc = "update", !.seen = Seen(g)]
    <3>1. row[g] \in RowSet
      BY <1>0, <2>3 DEF TableOK
    <3>2. Seen(g) \in SeenSet
      BY <2>3, <3>1 DEF Seen, SeenSet, RowSet
    <3>3. d \in CallSet /\ d.slug = c.slug /\ d.seen \in SeenSet
      BY <3>2 DEF CallSet
    <3>4. up' = [up EXCEPT ![u] = d] /\ UNCHANGED <<rec, landed>>
      BY <1>2, <1>3, <1>4, <2>3 DEF UpsertReloads
    <3>5. PICK e \in CallSet : e = d
      BY <3>3
    <3> HIDE DEF d
    <3>6. Applied
      BY <1>0, <1>1, <1>2, <3>3, <3>4, <3>5, GoOnApplied
    <3>7. QED
      BY <1>1, <2>1, <3>6, CallStep
  <2>4. QED
    BY <2>2, <2>3
<1>5. CASE UpsertInserts(u)
  <2>1. now' = now
    BY <1>5 DEF UpsertInserts
  <2>2. CASE row[g] = NoRow
    <3>1. Insert(g, c.spec, c.at) /\ UpsertReturns(u, TRUE)
      BY <1>2, <1>3, <1>5, <2>2 DEF UpsertInserts
    <3>2. c.spec \in SpecSet /\ c.at \in Nat
      BY DEF CallSet
    <3>3. Tabled
      BY <2>1, <2>2, <3>1, <3>2, InsertTabled
    <3>4. QED
      BY <1>0, <1>1, <3>1, <3>3, ReturnApplied, CallStep
  <2>3. CASE row[g] # NoRow
    <3> DEFINE d == [c EXCEPT !.pc = "reload"]
    <3>1. d \in CallSet /\ d.slug = c.slug /\ d.pc # "update"
      BY DEF CallSet
    <3>2. up' = [up EXCEPT ![u] = d] /\ UNCHANGED <<row, ids, jobs, rec, landed, owed, crossed>>
      BY <1>2, <1>3, <1>5, <2>3 DEF UpsertInserts, table
    <3> HIDE DEF d
    <3>3. Tabled
      BY <2>1, <3>2, TableStill
    <3>4. Applied
      BY <1>0, <1>1, <1>2, <3>1, <3>2, GoOnApplied
    <3>5. QED
      BY <1>1, <3>3, <3>4, CallStep
  <2>4. QED
    BY <2>2, <2>3
<1>6. CASE UpsertUpdates(u)
  <2>1. Tabled
    BY <1>6, UpdateTabled
  <2>2. UpsertReturns(u, TRUE)
    BY <1>6 DEF UpsertUpdates
  <2>3. QED
    BY <1>0, <1>1, <2>1, <2>2, ReturnApplied, CallStep
<1>7. CASE UpsertFails(u)
  <2>1. UNCHANGED <<now, row, ids, owed, crossed, jobs>> /\ UpsertReturns(u, FALSE)
    BY <1>7 DEF UpsertFails, table
  <2>2. Tabled
    BY <2>1, TableStill
  <2>3. QED
    BY <1>0, <1>1, <2>1, <2>2, ReturnApplied, CallStep
<1>8. QED
  BY <1>4, <1>5, <1>6, <1>7 DEF UpsertStep

\* The operator.
LEMMA OperatorInv ==
    ASSUME Inv, OperatorActs
    PROVE  Inv'
<1>1. PICK g \in Edited :
        \/ Pause(g) \/ Resume(g) \/ Trigger(g) \/ DeletePeriodic(g)
        \/ \E active \in BOOLEAN : SetPeriodicActive(g, active)
        \/ \E sp \in Specs : OperatorUpserts(g, sp)
  BY DEF OperatorActs
<1>2. g \in Slugs
  BY PeriodicsAssumption
<1>3. CASE Pause(g) \/ Trigger(g) \/ \E active \in BOOLEAN : SetPeriodicActive(g, active)
  <2>1. Tabled
    BY <1>2, <1>3, ControlTabled
  <2>2. UNCHANGED <<pending, rec, up, landed, tick>>
    BY <1>3 DEF Pause, Trigger, SetPeriodicActive, procs, history
  <2>3. QED
    BY <2>1, <2>2, StillStep
<1>4. CASE Resume(g)
  <2>1. Tabled
    BY <1>2, <1>4, ResumeTabled
  <2>2. UNCHANGED <<pending, rec, up, landed, tick>>
    BY <1>4 DEF Resume, procs
  <2>3. QED
    BY <2>1, <2>2, StillStep
<1>5. CASE DeletePeriodic(g)
  <2>1. Tabled
    BY <1>2, <1>5, DeleteTabled
  <2>2. UNCHANGED <<pending, rec, up, landed, tick>>
    BY <1>5 DEF DeletePeriodic, procs
  <2>3. QED
    BY <2>1, <2>2, StillStep
<1>6. CASE \E sp \in Specs : OperatorUpserts(g, sp)
  <2>1. PICK sp \in Specs : OperatorUpserts(g, sp)
    BY <1>6
  <2>2. sp \in SpecSet
    BY PeriodicsAssumption
  <2>3. /\ UNCHANGED <<now, row, ids, owed, crossed, jobs, pending, rec, landed, tick>>
        /\ up' = [up EXCEPT ![Operator] = Call(g, sp)]
    BY <2>1 DEF OperatorUpserts, table, history
  <2>4. Tabled
    BY <2>3, TableStill
  <2>5. /\ Call(g, sp) \in CallSet
        /\ Call(g, sp).pc = "update" => Call(g, sp).seen \in SeenSet
    BY <1>2, <2>2, CallType DEF Inv
  <2>6. CallsOK
    BY DEF Inv, ProcsOK
  <2>7. CallsOK'
    BY <2>3, <2>5, <2>6 DEF CallsOK, Callers
  <2>8. \A s \in Schedulers : up'[s] = up[s]
    BY <2>3, <2>6, PeriodicsAssumption DEF CallsOK, Callers
  <2>9. AppliesOnce'
    BY <2>3, <2>8 DEF Inv, AppliesOnce, ApplyOK
  <2>10. QED
    BY <2>3, <2>4, <2>7, <2>9, CallStep DEF Applied
<1>7. QED
  BY <1>1, <1>3, <1>4, <1>5, <1>6

\* One Scheduler's apply, reconcile, call and pending declarations are r, p, l
\* and c.
LEMMA RecApplied ==
    ASSUME Inv, NEW s \in Schedulers, NEW r \in RecSet, NEW p \in SUBSET Slugs,
           NEW l \in SUBSET Slugs, NEW c,
           rec' = [rec EXCEPT ![s] = r], pending' = [pending EXCEPT ![s] = p],
           landed' = [landed EXCEPT ![s] = l], up' = [up EXCEPT ![s] = c],
           \/ c = Idle
           \/ /\ c \in CallSet /\ r.pc = "apply" /\ c.slug \in r.left
              /\ c.pc = "update" => c.seen \in SeenSet,
           p \cup r.left \cup r.failed \subseteq DOMAIN Declared[s],
           r.pc = "apply" => (r.left \cup r.failed) \cap l = {} /\ r.left \cap r.failed = {},
           r.pc # "apply" => p \cap l = {}
    PROVE  Applied
<1>1. CallsOK /\ s \in Callers
  BY DEF Inv, ProcsOK, Callers
<1>2. CallsOK'
  BY <1>1 DEF CallsOK
<1>3. rec'[s] = r /\ up'[s] = c /\ pending'[s] = p /\ landed'[s] = l
  BY <1>1 DEF CallsOK
<1>4. ApplyOK(s)'
  BY <1>3 DEF ApplyOK
<1>5. \A q \in Schedulers \ {s} :
         rec'[q] = rec[q] /\ up'[q] = up[q] /\ landed'[q] = landed[q] /\ pending'[q] = pending[q]
  BY <1>1 DEF CallsOK, Callers
<1>6. QED
  BY <1>2, <1>4, <1>5, ApplyMoves DEF Applied

\* What the start-up apply and the reconcile have of one Scheduler.
LEMMA RecFacts ==
    ASSUME Inv, NEW s \in Schedulers
    PROVE  /\ rec[s] \in RecSet /\ pending[s] \subseteq Slugs /\ landed[s] \subseteq Slugs
           /\ up[s] # Idle => up[s] \in CallSet /\ (up[s].pc = "update" => up[s].seen \in SeenSet)
           /\ rec = [rec EXCEPT ![s] = rec[s]] /\ pending = [pending EXCEPT ![s] = pending[s]]
           /\ landed = [landed EXCEPT ![s] = landed[s]] /\ up = [up EXCEPT ![s] = up[s]]
           /\ ApplyOK(s)
           /\ DOMAIN Declared[s] \subseteq Slugs
           /\ \A g \in DOMAIN Declared[s] : Declared[s][g] \in SpecSet
<1>1. CallsOK /\ s \in Callers
  BY DEF Inv, ProcsOK, Callers
<1>2. ApplyOK(s)
  BY DEF Inv, AppliesOnce
<1>3. /\ DOMAIN Declared[s] \subseteq Slugs
      /\ \A g \in DOMAIN Declared[s] : Declared[s][g] \in SpecSet
  BY PeriodicsAssumption
<1>4. QED
  BY <1>1, <1>2, <1>3 DEF CallsOK

LEMMA LifeInv ==
    ASSUME Inv, NEW s \in Schedulers, Starts(s) \/ Dies(s)
    PROVE  Inv'
<1>1. UNCHANGED <<now, row, ids, jobs, owed, crossed>>
  BY DEF Starts, Dies, table, history
<1>2. Tabled
  BY <1>1, TableStill
<1>3. CASE Starts(s)
  <2>0. UNCHANGED tick
    BY <1>3 DEF Starts
  <2>1. /\ rec' = [rec EXCEPT ![s] = [NoRec EXCEPT !.pc = "apply", !.left = DOMAIN Declared[s]]]
        /\ pending' = [pending EXCEPT ![s] = DOMAIN Declared[s]]
        /\ landed' = [landed EXCEPT ![s] = {}] /\ up' = up
    BY <1>3 DEF Starts
  <2> DEFINE r == [NoRec EXCEPT !.pc = "apply", !.left = DOMAIN Declared[s]]
  <2>2. r \in RecSet /\ r.pc = "apply" /\ r.left = DOMAIN Declared[s] /\ r.failed = {}
    BY RecFacts DEF NoRec, RecSet
  <2> HIDE DEF r
  <2>3. \/ up[s] = Idle
        \/ /\ up[s] \in CallSet /\ r.pc = "apply" /\ up[s].slug \in r.left
           /\ up[s].pc = "update" => up[s].seen \in SeenSet
    BY <2>2, RecFacts DEF ApplyOK
  <2>4. rec' = [rec EXCEPT ![s] = r] /\ up' = [up EXCEPT ![s] = up[s]]
    BY <2>1, RecFacts DEF r
  <2>5. PICK D \in SUBSET Slugs : D = DOMAIN Declared[s]
    BY RecFacts
  <2>6. PICK L \in SUBSET Slugs : L = {}
    OBVIOUS
  <2>7. /\ pending' = [pending EXCEPT ![s] = D] /\ landed' = [landed EXCEPT ![s] = L]
        /\ D \cup r.left \cup r.failed \subseteq DOMAIN Declared[s]
        /\ (r.left \cup r.failed) \cap L = {} /\ r.left \cap r.failed = {}
    BY <2>1, <2>2, <2>5, <2>6
  <2>8. Applied
    BY <2>2, <2>3, <2>4, <2>7, RecApplied
  <2>9. QED
    BY <1>2, <2>0, <2>8, CallStep
<1>4. CASE Dies(s)
  <2>1. /\ rec' = [rec EXCEPT ![s] = NoRec] /\ pending' = [pending EXCEPT ![s] = {}]
        /\ landed' = landed /\ up' = [up EXCEPT ![s] = Idle] /\ tick' = [tick EXCEPT ![s] = Idle]
    BY <1>4 DEF Dies, history
  <2>2. NoRec \in RecSet /\ NoRec.pc # "apply" /\ NoRec.left = {} /\ NoRec.failed = {}
    BY DEF NoRec, RecSet
  <2>3. landed' = [landed EXCEPT ![s] = landed[s]] /\ landed[s] \in SUBSET Slugs
    BY <2>1, RecFacts
  <2>4. Applied
    BY <2>1, <2>2, <2>3, RecApplied
  <2>5. QED
    BY <1>2, <2>1, <2>4, TicksMove, InvStep
<1>5. QED
  BY <1>3, <1>4

LEMMA ApplyInv ==
    ASSUME Inv, NEW s \in Schedulers, ApplyStep(s)
    PROVE  Inv'
<1>1. CASE ApplyEnds(s)
  <2>1. UNCHANGED <<now, row, ids, jobs, owed, crossed, landed, tick, up>>
    BY <1>1 DEF ApplyEnds, table, history
  <2>2. Tabled
    BY <2>1, TableStill
  <2>3. PICK x \in {"idle", "read"} : rec' = [rec EXCEPT ![s] = [NoRec EXCEPT !.pc = x]]
    BY <1>1 DEF ApplyEnds
  <2> DEFINE r == [NoRec EXCEPT !.pc = x]
  <2>4. r \in RecSet /\ r.pc # "apply" /\ r.left = {} /\ r.failed = {}
    BY DEF NoRec, RecSet
  <2>5. pending' = [pending EXCEPT ![s] = rec[s].failed] /\ up[s] = Idle /\ rec[s].pc = "apply"
    BY <1>1 DEF ApplyEnds, StillPending
  <2>6. rec[s].failed \subseteq Slugs
    BY RecFacts DEF RecSet
  <2> HIDE DEF r
  <2>7. rec[s].failed \cap landed[s] = {} /\ rec[s].failed \subseteq DOMAIN Declared[s]
    BY <2>5, RecFacts DEF ApplyOK
  <2>8. /\ rec' = [rec EXCEPT ![s] = r] /\ up' = [up EXCEPT ![s] = up[s]]
        /\ landed' = [landed EXCEPT ![s] = landed[s]] /\ landed[s] \in SUBSET Slugs
    BY <2>1, <2>3, RecFacts DEF r
  <2>9. Applied
    BY <2>4, <2>5, <2>6, <2>7, <2>8, RecApplied
  <2>10. QED
    BY <2>1, <2>2, <2>9, CallStep
<1>2. CASE \E g \in rec[s].left : AppliesNext(s, g)
  <2>1. PICK g \in rec[s].left : AppliesNext(s, g)
    BY <1>2
  <2>2. UNCHANGED <<now, row, ids, jobs, owed, crossed, landed, tick, rec, pending>>
    BY <2>1 DEF AppliesNext, table, history
  <2>3. Tabled
    BY <2>2, TableStill
  <2>4. g \in DOMAIN Declared[s] /\ g \in Slugs /\ rec[s].pc = "apply"
    BY <2>1, RecFacts DEF ApplyOK, AppliesNext
  <2>5. Declared[s][g] \in SpecSet
    BY <2>4, RecFacts
  <2> DEFINE c == Call(g, Declared[s][g])
  <2>6. c \in CallSet /\ c.slug = g /\ (c.pc = "update" => c.seen \in SeenSet)
    BY <2>4, <2>5, CallType DEF Inv
  <2>7. up' = [up EXCEPT ![s] = c]
    BY <2>1 DEF AppliesNext
  <2> HIDE DEF c
  <2>8. /\ rec' = [rec EXCEPT ![s] = rec[s]] /\ rec[s] \in RecSet
        /\ landed' = [landed EXCEPT ![s] = landed[s]] /\ landed[s] \in SUBSET Slugs
        /\ pending' = [pending EXCEPT ![s] = pending[s]] /\ pending[s] \in SUBSET Slugs
    BY <2>2, RecFacts
  <2>9. /\ pending[s] \cup rec[s].left \cup rec[s].failed \subseteq DOMAIN Declared[s]
        /\ (rec[s].left \cup rec[s].failed) \cap landed[s] = {}
        /\ rec[s].left \cap rec[s].failed = {}
    BY <2>4, RecFacts DEF ApplyOK
  <2>10. Applied
    BY <2>1, <2>4, <2>6, <2>7, <2>8, <2>9, RecApplied
  <2>11. QED
    BY <2>2, <2>3, <2>10, CallStep
<1>3. QED
  BY <1>1, <1>2 DEF ApplyStep

LEMMA ReconcileInv ==
    ASSUME Inv, NEW s \in Schedulers, ReconcileStep(s) \/ ReconcileFails(s)
    PROVE  Inv'
<1>1. UNCHANGED <<pending, landed, up, tick, now>>
  BY DEF ReconcileStep, ReconcileFails, RetriesPending, ReconcileReads, ReconcileInserts, history
<1>2. /\ landed' = [landed EXCEPT ![s] = landed[s]] /\ landed[s] \in SUBSET Slugs
      /\ pending' = [pending EXCEPT ![s] = pending[s]] /\ pending[s] \in SUBSET Slugs
      /\ up' = [up EXCEPT ![s] = up[s]]
      /\ rec[s] \in RecSet /\ DOMAIN Declared[s] \in SUBSET Slugs
  BY <1>1, RecFacts
<1>3. rec[s].pc # "apply"
  BY DEF ReconcileStep, ReconcileFails, RetriesPending, ReconcileReads, ReconcileInserts
<1>4. /\ up[s] = Idle /\ pending[s] \cap landed[s] = {}
      /\ pending[s] \cup rec[s].left \cup rec[s].failed \subseteq DOMAIN Declared[s]
  BY <1>3, RecFacts DEF ApplyOK
<1>5. ASSUME NEW r \in RecSet, rec' = [rec EXCEPT ![s] = r],
             r.left \cup r.failed \subseteq DOMAIN Declared[s],
             r.pc = "apply" => r.left = pending[s] /\ r.failed = {}
      PROVE  Applied
  <2>1. /\ pending[s] \cup r.left \cup r.failed \subseteq DOMAIN Declared[s]
        /\ r.pc = "apply" => (r.left \cup r.failed) \cap landed[s] = {} /\ r.left \cap r.failed = {}
    BY <1>4, <1>5
  <2>2. QED
    BY <1>2, <1>4, <1>5, <2>1, RecApplied
<1>6. NoRec \in RecSet /\ NoRec.pc # "apply" /\ NoRec.left = {} /\ NoRec.failed = {}
  BY DEF NoRec, RecSet
<1>7. ASSUME NEW left \in SUBSET rec[s].left,
             rec' = [rec EXCEPT ![s] = NoRec] \/ rec' = [rec EXCEPT ![s] = [rec[s] EXCEPT !.left = left]]
      PROVE  Applied
  <2>1. CASE rec' = [rec EXCEPT ![s] = NoRec]
    BY <1>5, <1>6, <2>1
  <2>2. CASE rec' = [rec EXCEPT ![s] = [rec[s] EXCEPT !.left = left]]
    <3> DEFINE r == [rec[s] EXCEPT !.left = left]
    <3>1. r \in RecSet /\ r.pc = rec[s].pc /\ r.left = left /\ r.failed = rec[s].failed
      BY <1>2 DEF RecSet
    <3> HIDE DEF r
    <3>2. rec' = [rec EXCEPT ![s] = r]
      BY <2>2 DEF r
    <3>3. QED
      BY <1>3, <1>4, <1>5, <3>1, <3>2
  <2>3. QED
    BY <1>7, <2>1, <2>2
<1>8. CASE RetriesPending(s)
  <2> DEFINE r == [NoRec EXCEPT !.pc = "apply", !.left = pending[s]]
  <2>1. /\ r \in RecSet /\ r.left = pending[s] /\ r.failed = {}
    BY <1>2 DEF NoRec, RecSet
  <2>2. rec' = [rec EXCEPT ![s] = r] /\ UNCHANGED <<row, ids, jobs, owed, crossed>>
    BY <1>8 DEF RetriesPending, table, history
  <2> HIDE DEF r
  <2>3. Applied
    BY <1>4, <1>5, <2>1, <2>2
  <2>4. QED
    BY <1>1, <2>2, <2>3, TableStill, CallStep
<1>9. CASE ReconcileReads(s)
  <2>1. UNCHANGED <<row, ids, jobs, owed, crossed>>
    BY <1>9 DEF ReconcileReads, table, history
  <2>2. Applied
    <3>1. CASE rec' = [rec EXCEPT ![s] = NoRec]
      BY <1>5, <1>6, <3>1
    <3>2. CASE rec' = [rec EXCEPT ![s] = [NoRec EXCEPT !.pc = "insert", !.left = Missing(s), !.at = now]]
      <4> DEFINE r == [NoRec EXCEPT !.pc = "insert", !.left = Missing(s), !.at = now]
      <4>1. Missing(s) \subseteq DOMAIN Declared[s] /\ now \in Nat
        BY DEF Missing, Inv, TableOK
      <4>2. r \in RecSet /\ r.pc = "insert" /\ r.left = Missing(s) /\ r.failed = {}
        BY <1>2, <4>1 DEF NoRec, RecSet
      <4>3. rec' = [rec EXCEPT ![s] = r]
        BY <3>2
      <4> HIDE DEF r
      <4>4. QED
        BY <1>5, <4>1, <4>2, <4>3
    <3>3. QED
      BY <1>9, <3>1, <3>2 DEF ReconcileReads
  <2>3. QED
    BY <1>1, <2>1, <2>2, TableStill, CallStep
<1>10. CASE \E g \in rec[s].left : ReconcileInserts(s, g)
  <2>1. PICK g \in rec[s].left : ReconcileInserts(s, g)
    BY <1>10
  <2>2. g \in DOMAIN Declared[s] /\ g \in Slugs /\ rec[s].at \in Nat
    BY <1>2, <1>4 DEF RecSet
  <2>3. Declared[s][g] \in SpecSet
    BY <2>2, RecFacts
  <2>4. Tabled
    <3>1. CASE row[g] = NoRow
      <4>1. Insert(g, Declared[s][g], rec[s].at)
        BY <2>1, <3>1 DEF ReconcileInserts
      <4>2. QED
        BY <1>1, <2>2, <2>3, <3>1, <4>1, InsertTabled
    <3>2. CASE row[g] # NoRow
      <4>1. UNCHANGED <<row, ids, jobs, owed, crossed>>
        BY <2>1, <3>2 DEF ReconcileInserts, table
      <4>2. QED
        BY <1>1, <4>1, TableStill
    <3>3. QED
      BY <3>1, <3>2
  <2>5. Applied
    <3>1. PICK left \in SUBSET rec[s].left : left = rec[s].left \ {g}
      OBVIOUS
    <3>2. rec' = [rec EXCEPT ![s] = NoRec] \/ rec' = [rec EXCEPT ![s] = [rec[s] EXCEPT !.left = left]]
      BY <2>1, <3>1 DEF ReconcileInserts
    <3>3. QED
      BY <1>7, <3>2
  <2>6. QED
    BY <1>1, <2>4, <2>5, CallStep
<1>11. CASE ReconcileFails(s)
  <2>1. UNCHANGED <<row, ids, jobs, owed, crossed>>
    BY <1>11 DEF ReconcileFails, table, history
  <2>2. Applied
    <3>1. PICK g : rec' = [rec EXCEPT ![s] = IF rec[s].left \subseteq {g} THEN NoRec
                                             ELSE [rec[s] EXCEPT !.left = rec[s].left \ {g}]]
      BY <1>11 DEF ReconcileFails
    <3>2. PICK left \in SUBSET rec[s].left : left = rec[s].left \ {g}
      OBVIOUS
    <3>3. rec' = [rec EXCEPT ![s] = NoRec] \/ rec' = [rec EXCEPT ![s] = [rec[s] EXCEPT !.left = left]]
      BY <3>1, <3>2
    <3>4. QED
      BY <1>7, <3>3
  <2>3. QED
    BY <1>1, <2>1, <2>2, TableStill, CallStep
<1>12. QED
  BY <1>8, <1>9, <1>10, <1>11 DEF ReconcileStep

\* A step that leaves the calls, the applies and the reconciles alone.
LEMMA AppliedStill ==
    ASSUME Inv, UNCHANGED <<pending, rec, up, landed>>
    PROVE  Applied
  BY DEF Applied, Inv, ProcsOK, CallsOK, AppliesOnce, ApplyOK

\* A definition that is due, as the tick reads it.
LEMMA CopyReads ==
    ASSUME Inv, NEW g \in Slugs, Due(row[g], now)
    PROVE  Copy(g) \in CopySet /\ CopyOK(Copy(g), now)
<1>1. TableOK /\ SlugOK(g)
  BY DEF Inv, FiresKept
<1>2. row[g] # NoRow /\ row[g] \in RowSet /\ row[g].next <= now /\ now \in Nat
  BY <1>1 DEF Due, Fires, TableOK
<1>3. PICK d : d = Copy(g)
  OBVIOUS
<1>4. /\ d \in CopySet /\ d.slug = g /\ d.id = row[g].id /\ d.cron = row[g].cron
      /\ d.n = row[g].n /\ d.next = row[g].next /\ d.era = row[g].era
  BY <1>2, <1>3 DEF Copy, CopySet, RowSet
<1>5. d.next \in Nat /\ d.era \in Nat /\ owed[g] \subseteq Nat
  BY <1>1, <1>4 DEF CopySet, TableOK
<1>6. ASSUME ~crossed[g], NEW t \in owed[g], t < d.next
      PROVE  KeyHeld(g, t)
  <2>1. KeyHeld(g, t) \/ t \in Times(row[g].next, row[g].n, now)
    BY <1>1, <1>2, <1>6 DEF SlugOK
  <2>2. t \notin Times(row[g].next, row[g].n, now)
    BY <1>2, <1>4, <1>5, <1>6 DEF Times
  <2>3. QED
    BY <2>1, <2>2
<1>7. CopyOK(d, now)
  <2>1. d.next <= now /\ d.id <= ids[g] /\ d.era <= row[g].era
    BY <1>1, <1>2, <1>4, <1>5 DEF SlugOK
  <2>2. QED
    BY <1>4, <1>6, <2>1 DEF CopyOK, Current
<1>8. QED
  BY <1>3, <1>4, <1>7

\* The bucket at the head of the list has its job.
LEMMA FiringGoesOn ==
    ASSUME NEW U \in TickSet, NEW V \in TickSet, U.todo # <<>>,
           V.at = U.at, V.def = U.def, V.next = U.next, V.todo = Tail(U.todo),
           <<U.def.slug, Head(U.todo)>> \in jobs', FiringOK(U)'
    PROVE  FiringOK(V)'
<1> DEFINE d == U.def
           times == Times(d.next, d.n, U.at)
<1>1. U.todo \in Seq(Nat)
  BY DEF TickSet
<1>2. ASSUME NEW i \in DOMAIN U.todo
      PROVE  U.todo[i] = Head(U.todo) \/ \E j \in DOMAIN Tail(U.todo) : Tail(U.todo)[j] = U.todo[i]
  <2>1. CASE i = 1
    BY <1>1, <2>1
  <2>2. CASE i # 1
    <3>1. i - 1 \in DOMAIN Tail(U.todo) /\ Tail(U.todo)[i - 1] = U.todo[i]
      BY <1>1, <2>2, SMTT(40)
    <3>2. QED
      BY <3>1
  <2>3. QED
    BY <2>1, <2>2
<1>3. ASSUME NEW u \in times
      PROVE  \/ KeyHeld(d.slug, u)'
             \/ \E i \in DOMAIN V.todo : V.todo[i] = u
             \/ Cardinality({v \in times : v > u}) >= BackfillCap
  <2>1. \/ KeyHeld(d.slug, u)'
        \/ \E i \in DOMAIN U.todo : U.todo[i] = u
        \/ Cardinality({v \in times : v > u}) >= BackfillCap
    BY <1>3 DEF FiringOK
  <2>2. QED
    BY <1>2, <2>1 DEF KeyHeld
<1>4. QED
  BY <1>3 DEF FiringOK

LEMMA TickInv ==
    ASSUME Inv, NEW s \in Schedulers, TickStep(s) \/ FireFails(s)
    PROVE  Inv'
<1>1. Applied
  <2>1. UNCHANGED <<pending, rec, up, landed>>
    BY DEF TickStep, TickReads, EnqueueBucket, Advance, FireFails, history
  <2>2. QED
    BY <2>1, AppliedStill
<1>2. CASE TickReads(s)
  <2>1. UNCHANGED <<now, row, ids, jobs, owed, crossed>>
    BY <1>2 DEF TickReads, table, history
  <2>2. Tabled
    BY <2>1, TableStill
  <2> DEFINE copies == {Copy(g) : g \in {h \in Slugs : Due(row[h], now)}}
  <2>3. PICK d \in copies : tick' = [tick EXCEPT ![s] = Firing(now, copies, d)]
    BY <1>2 DEF TickReads
  <2>4. ASSUME NEW e \in copies
        PROVE  e \in CopySet /\ CopyOK(e, now)
    BY CopyReads
  <2>5. PICK C \in SUBSET CopySet : C = copies
    BY <2>4
  <2> HIDE DEF copies
  <2>6. PICK t \in Nat : t = now
    BY DEF Inv, TableOK
  <2>7. d \in CopySet /\ d.next <= t
    BY <2>3, <2>4, <2>6 DEF CopyOK
  <2>8. ASSUME NEW e \in C
        PROVE  CopyOK(e, t)'
    <3>1. e \in CopySet /\ CopyOK(e, t) /\ t <= now
      BY <2>4, <2>5, <2>6
    <3>2. QED
      BY <2>2, <3>1, CopyKept DEF Inv
  <2> DEFINE T == Firing(t, C, d)
  <2>9. T \in TickSet /\ T.at = t /\ T.due \subseteq C /\ T.def = d /\ (Aligned(d) => FiringOK(T))
    BY <2>7, FiringStarts
  <2>10. tick' = [tick EXCEPT ![s] = T]
    BY <2>3, <2>5, <2>6
  <2> HIDE DEF T
  <2>11. Aligned(d) => FiringOK(T)'
    BY <2>1, <2>9 DEF FiringOK, KeyHeld
  <2>12. TickOK(T)'
    BY <2>1, <2>3, <2>5, <2>6, <2>8, <2>9, <2>11 DEF TickOK
  <2>13. QED
    BY <1>1, <2>2, <2>9, <2>10, <2>12, TicksMove, InvStep
<1>3. CASE EnqueueBucket(s)
  <2>1. UNCHANGED <<now, row, ids, owed, crossed>> /\ jobs \subseteq jobs' /\ tick[s] # Idle
    BY <1>3 DEF EnqueueBucket, history
  <2>2. Tabled
    BY <2>1, TableStill
  <2>3. PICK U \in TickSet : U = tick[s]
    BY <2>1 DEF Inv, ProcsOK
  <2>4. TickOK(U)'
    BY <2>1, <2>2, <2>3, TickKept DEF Inv, TicksTrue
  <2>5. /\ U.todo # <<>> /\ U.todo \in Seq(Nat) /\ U.fires \in Seq(FireSet)
        /\ Head(U.todo) \in Nat /\ Tail(U.todo) \in Seq(Nat)
    <3>1. U.todo # <<>> /\ U.todo \in Seq(Nat) /\ U.fires \in Seq(FireSet)
      BY <1>3, <2>3 DEF EnqueueBucket, TickSet
    <3>2. QED
      BY <3>1
  <2> DEFINE b == Head(U.todo)
             fires == IF KeyHeld(U.def.slug, b) THEN U.fires ELSE Append(U.fires, Fire(b, FALSE))
             V == [U EXCEPT !.todo = Tail(U.todo), !.fires = fires]
  <2>6. fires \in Seq(FireSet)
    <3>1. PICK f \in FireSet : f = Fire(b, FALSE)
      BY <2>5 DEF Fire, FireSet
    <3>2. Append(U.fires, f) \in Seq(FireSet)
      BY <2>5
    <3>3. QED
      BY <2>5, <3>1, <3>2
  <2>7. tick' = [tick EXCEPT ![s] = V] /\ <<U.def.slug, b>> \in jobs'
    BY <1>3, <2>3 DEF EnqueueBucket
  <2> HIDE DEF fires
  <2>8. /\ V \in TickSet /\ V.at = U.at /\ V.due = U.due /\ V.def = U.def
        /\ V.next = U.next /\ V.todo = Tail(U.todo)
    BY <2>5, <2>6 DEF TickSet
  <2>9. PICK W \in TickSet : W = V
    BY <2>8
  <2> HIDE DEF V
  <2>10. Aligned(U.def) => FiringOK(W)'
    <3>1. Aligned(U.def) => FiringOK(U)'
      BY <2>4 DEF TickOK, Aligned
    <3>2. QED
      BY <2>5, <2>7, <2>8, <2>9, <3>1, FiringGoesOn
  <2>11. TickOK(W)'
    BY <2>4, <2>8, <2>9, <2>10 DEF TickOK
  <2>12. QED
    BY <1>1, <2>2, <2>7, <2>9, <2>11, TicksMove, InvStep
<1>4. CASE Advance(s)
  <2>1. Tabled
    BY <1>4, AdvanceTabled
  <2>2. Onward(s) /\ tick[s] # Idle
    BY <1>4 DEF Advance
  <2>3. QED
    BY <1>1, <2>1, <2>2, OnwardKept, InvStep
<1>5. CASE FireFails(s)
  <2>1. UNCHANGED <<now, row, ids, jobs, owed, crossed>> /\ Onward(s) /\ tick[s] # Idle
    BY <1>5 DEF FireFails, table, history
  <2>2. Tabled
    BY <2>1, TableStill
  <2>3. QED
    BY <1>1, <2>1, <2>2, OnwardKept, InvStep
<1>6. QED
  BY <1>2, <1>3, <1>4, <1>5 DEF TickStep

----------------------------------------------------------------------------
(* The theorems. *)

LEMMA InitInv == Init => Inv
<1> SUFFICES ASSUME Init
             PROVE  Inv
  OBVIOUS
<1>1. TableOK
  BY DEF Init, TableOK
<1>2. NoRec \in RecSet /\ NoRec.pc = "idle" /\ NoRec.left = {} /\ NoRec.failed = {}
  BY DEF NoRec, RecSet
<1>3. ProcsOK
  BY <1>2 DEF Init, ProcsOK, CallsOK, Callers
<1>4. FiresKept /\ TicksTrue
  BY DEF Init, FiresKept, TicksTrue, SlugOK
<1>5. ASSUME NEW s \in Schedulers
      PROVE  ApplyOK(s)
  BY <1>2 DEF Init, ApplyOK
<1>6. QED
  BY <1>1, <1>3, <1>4, <1>5 DEF Inv, AppliesOnce

LEMMA NextInv == Inv /\ [Next]_vars => Inv'
<1> SUFFICES ASSUME Inv, [Next]_vars
             PROVE  Inv'
  OBVIOUS
<1>1. CASE ClockTicks
  <2>1. UNCHANGED <<pending, rec, up, landed, tick>>
    BY <1>1 DEF ClockTicks, procs
  <2>2. QED
    BY <1>1, <2>1, ClockTabled, StillStep
<1>2. CASE OperatorActs
  BY <1>2, OperatorInv
<1>3. CASE \E u \in Callers : UpsertStep(u) \/ UpsertFails(u)
  BY <1>3, UpsertStepInv
<1>4. ASSUME NEW s \in Schedulers,
             \/ Starts(s) \/ Dies(s) \/ TickStep(s) \/ FireFails(s)
             \/ ApplyStep(s) \/ ReconcileStep(s) \/ ReconcileFails(s)
      PROVE  Inv'
  BY <1>4, LifeInv, TickInv, ApplyInv, ReconcileInv
<1>5. CASE UNCHANGED vars
  <2>1. UNCHANGED <<now, row, ids, owed, crossed, jobs, pending, rec, up, landed, tick>>
    BY <1>5 DEF vars, table, procs, history
  <2>2. QED
    BY <2>1, TableStill, StillStep
<1>6. QED
  BY <1>1, <1>2, <1>3, <1>4, <1>5 DEF Next, Callers

LEMMA AlwaysInv == Spec => []Inv
  BY InitInv, NextInv, PTL DEF Spec

\* No fire is lost, for any definitions, Schedulers and cap: Scheduler.fire
\* enqueues a time a definition came due at before its cursor passes it,
\* whatever ticks, upserts and controls run meanwhile.
THEOREM NoFireLostSafety == Spec => []NoFireLost
<1>1. Inv => NoFireLost
  <2> SUFFICES ASSUME Inv, NEW g \in Slugs, row[g] # NoRow, ~crossed[g], NEW t \in owed[g]
               PROVE  KeyHeld(g, t) \/ t \in FiresUpTo(row[g], now)
    BY DEF NoFireLost
  <2>1. TableOK /\ SlugOK(g)
    BY DEF Inv, FiresKept
  <2>2. now \in Nat /\ row[g].n \in Nat \ {0} /\ row[g].next \in Nat
    BY <2>1 DEF TableOK, RowSet
  <2>3. Aligned(row[g]) /\ (KeyHeld(g, t) \/ t \in Times(row[g].next, row[g].n, now))
    BY <2>1 DEF SlugOK
  <2>4. FiresUpTo(row[g], now) = Times(row[g].next, row[g].n, now)
    BY <2>2, <2>3, FiresAreTimes
  <2>5. QED
    BY <2>3, <2>4
<1>2. QED
  BY <1>1, AlwaysInv, PTL

\* What a step does to the flags of a definition that is there before and
\* after it.
LEMMA FlagsMove ==
    ASSUME Inv, [Next]_vars, NEW g \in Slugs, row[g] # NoRow, row'[g] # NoRow
    PROVE  /\ row[g].paused /\ ~row'[g].paused => Resume(g)
           /\ ~row[g].active /\ row'[g].active =>
                \/ SetPeriodicActive(g, TRUE)
                \/ \E u \in Callers : UpsertUpdates(u) /\ up[u].slug = g
<1> DEFINE Goal == /\ row[g].paused /\ ~row'[g].paused => Resume(g)
                   /\ ~row[g].active /\ row'[g].active =>
                        \/ SetPeriodicActive(g, TRUE)
                        \/ \E u \in Callers : UpsertUpdates(u) /\ up[u].slug = g
<1>1. row \in [Slugs -> RowSet \cup {NoRow}] /\ row[g] \in RowSet
  BY DEF Inv, TableOK
<1>2. row[g] = [row[g] EXCEPT !.paused = row[g].paused] /\ row[g].paused \in BOOLEAN /\ row[g].active \in BOOLEAN
  BY <1>1 DEF RowSet
<1>3. ASSUME row'[g] = row[g]
      PROVE  Goal
  BY <1>3
<1>4. ASSUME NEW h \in Slugs, NEW sp, NEW t, Insert(h, sp, t), row[h] = NoRow
      PROVE  Goal
  <2>1. row'[g] = row[g]
    BY <1>1, <1>4 DEF Insert
  <2>2. QED
    BY <1>3, <2>1
<1>5. ASSUME NEW h \in Slugs, Pause(h) \/ Trigger(h) \/ DeletePeriodic(h)
      PROVE  Goal
  <2>1. h # g => row'[g] = row[g]
    BY <1>1, <1>5 DEF Pause, Trigger, DeletePeriodic
  <2>2. CASE h = g /\ Pause(g)
    <3>1. row'[g] = [row[g] EXCEPT !.paused = TRUE]
      BY <1>1, <2>2 DEF Pause
    <3>2. row'[g].paused = TRUE /\ row'[g].active = row[g].active
      BY <1>1, <3>1 DEF RowSet
    <3>3. QED
      BY <3>2
  <2>3. CASE h = g /\ Trigger(g)
    <3>1. PICK x : row'[g] = [row[g] EXCEPT !.recent = x]
      BY <1>1, <2>3 DEF Trigger
    <3>2. row'[g].paused = row[g].paused /\ row'[g].active = row[g].active
      BY <1>1, <3>1 DEF RowSet
    <3>3. QED
      BY <3>2
  <2>4. CASE h = g /\ DeletePeriodic(g)
    BY <1>1, <2>4 DEF DeletePeriodic
  <2>5. QED
    BY <1>3, <1>5, <2>1, <2>2, <2>3, <2>4
<1>6. ASSUME NEW h \in Slugs, Resume(h)
      PROVE  Goal
  <2>1. h # g => row'[g] = row[g]
    BY <1>1, <1>6 DEF Resume
  <2>2. CASE h = g
    <3>1. PICK x : row'[g] = [row[g] EXCEPT !.paused = FALSE, !.next = x]
      BY <1>1, <1>6, <2>2 DEF Resume
    <3>2. row'[g].active = row[g].active
      BY <1>1, <3>1 DEF RowSet
    <3>3. QED
      BY <1>6, <2>2, <3>2
  <2>3. QED
    BY <1>3, <2>1, <2>2
<1>7. ASSUME NEW h \in Slugs, NEW a \in BOOLEAN, SetPeriodicActive(h, a)
      PROVE  Goal
  <2>1. h # g => row'[g] = row[g]
    BY <1>1, <1>7 DEF SetPeriodicActive
  <2>2. CASE h = g
    <3>1. row'[g] = [row[g] EXCEPT !.active = a]
      BY <1>1, <1>7, <2>2 DEF SetPeriodicActive
    <3>2. row'[g].active = a /\ row'[g].paused = row[g].paused
      BY <1>1, <3>1 DEF RowSet
    <3>3. CASE a = TRUE
      BY <1>7, <2>2, <3>2, <3>3
    <3>4. CASE a = FALSE
      BY <3>2, <3>4
    <3>5. QED
      BY <1>7, <3>3, <3>4
  <2>3. QED
    BY <1>3, <2>1, <2>2
<1>8. ASSUME NEW u \in Callers, UpsertUpdates(u)
      PROVE  Goal
  <2>1. CASE up[u].slug = g
    <3>1. \/ row' = row
          \/ row'[g] = Updated(row[g], up[u])
      BY <1>1, <1>8, <2>1 DEF UpsertUpdates
    <3>2. row'[g].paused = row[g].paused
      BY <1>1, <3>1 DEF Updated, RowSet
    <3>3. QED
      BY <1>8, <2>1, <3>2
  <2>2. CASE up[u].slug # g
    <3>1. row'[g] = row[g]
      BY <1>1, <1>8, <2>2 DEF UpsertUpdates
    <3>2. QED
      BY <1>3, <3>1
  <2>3. QED
    BY <2>1, <2>2
<1>9. ASSUME NEW s \in Schedulers, Advance(s)
      PROVE  Goal
  <2>1. \/ row'[g] = row[g]
        \/ \E x, y : row'[g] = [row[g] EXCEPT !.next = x, !.recent = y]
    BY <1>1, <1>9 DEF Advance
  <2>2. row'[g].paused = row[g].paused /\ row'[g].active = row[g].active
    BY <1>1, <2>1 DEF RowSet
  <2>3. QED
    BY <2>2
<1>10. ASSUME NEW u \in Callers, UpsertStep(u) \/ UpsertFails(u)
       PROVE  Goal
  <2>1. CASE UpsertReloads(u) \/ UpsertFails(u)
    <3>1. row' = row
      BY <2>1 DEF UpsertReloads, UpsertFails, table
    <3>2. QED
      BY <1>3, <3>1
  <2>2. CASE UpsertInserts(u)
    <3>1. up[u].slug \in Slugs
      BY <2>2 DEF UpsertInserts, Inv, ProcsOK, CallsOK, CallSet
    <3>2. CASE row[up[u].slug] = NoRow
      BY <1>4, <2>2, <3>1, <3>2 DEF UpsertInserts
    <3>3. CASE row[up[u].slug] # NoRow
      BY <1>3, <2>2, <3>3 DEF UpsertInserts, table
    <3>4. QED
      BY <3>2, <3>3
  <2>3. QED
    BY <1>8, <1>10, <2>1, <2>2 DEF UpsertStep
<1>11. ASSUME OperatorActs
       PROVE  Goal
  <2>1. PICK h \in Edited :
          \/ Pause(h) \/ Resume(h) \/ Trigger(h) \/ DeletePeriodic(h)
          \/ \E a \in BOOLEAN : SetPeriodicActive(h, a)
          \/ \E sp \in Specs : OperatorUpserts(h, sp)
    BY <1>11 DEF OperatorActs
  <2>2. h \in Slugs
    BY PeriodicsAssumption
  <2>3. ASSUME NEW sp \in Specs, OperatorUpserts(h, sp)
        PROVE  Goal
    BY <1>3, <2>3 DEF OperatorUpserts, table
  <2>4. QED
    BY <1>5, <1>6, <1>7, <2>1, <2>2, <2>3
<1>12. ASSUME NEW s \in Schedulers,
              \/ Starts(s) \/ Dies(s) \/ TickStep(s) \/ FireFails(s)
              \/ ApplyStep(s) \/ ReconcileStep(s) \/ ReconcileFails(s)
       PROVE  Goal
  <2>1. CASE Advance(s)
    BY <1>9, <2>1
  <2>2. CASE \E h \in rec[s].left : ReconcileInserts(s, h)
    <3>1. PICK h \in rec[s].left : ReconcileInserts(s, h)
      BY <2>2
    <3>2. h \in Slugs
      BY RecFacts DEF ApplyOK
    <3>3. CASE row[h] = NoRow
      BY <1>4, <3>1, <3>2, <3>3 DEF ReconcileInserts
    <3>4. CASE row[h] # NoRow
      BY <1>3, <3>1, <3>4 DEF ReconcileInserts, table
    <3>5. QED
      BY <3>3, <3>4
  <2>3. CASE \/ Starts(s) \/ Dies(s) \/ TickReads(s) \/ EnqueueBucket(s) \/ FireFails(s)
             \/ ApplyStep(s) \/ RetriesPending(s) \/ ReconcileReads(s) \/ ReconcileFails(s)
    <3>1. row' = row
      BY <2>3 DEF Starts, Dies, TickReads, EnqueueBucket, FireFails, ApplyStep, ApplyEnds, AppliesNext,
                  RetriesPending, ReconcileReads, ReconcileFails, table
    <3>2. QED
      BY <1>3, <3>1
  <2>4. QED
    BY <1>12, <2>1, <2>2, <2>3 DEF TickStep, ReconcileStep
<1>13. ASSUME ClockTicks \/ UNCHANGED vars
       PROVE  Goal
  <2>1. row' = row
    BY <1>13 DEF ClockTicks, vars, table
  <2>2. QED
    BY <1>3, <2>1
<1>14. QED
  BY <1>10, <1>11, <1>12, <1>13 DEF Next, Callers

\* A declaration is applied once after a start.
LEMMA LandsOnce ==
    ASSUME Inv, NEW s \in Schedulers, UpsertUpdates(s)
    PROVE  up[s].slug \notin landed[s] /\ up[s].slug \in landed'[s]
<1>1. up[s] # Idle /\ UpsertReturns(s, TRUE) /\ s # Operator
  BY PeriodicsAssumption DEF UpsertUpdates
<1>2. up[s].slug \notin landed[s]
  BY <1>1, RecFacts DEF ApplyOK
<1>3. landed' = [landed EXCEPT ![s] = @ \cup {up[s].slug}]
  BY <1>1 DEF UpsertReturns
<1>4. landed \in [Schedulers -> SUBSET Slugs]
  BY DEF Inv, ProcsOK, CallsOK
<1>5. QED
  BY <1>2, <1>3, <1>4

\* What an operator said of a schedule stands: only ResumePeriodic lifts a
\* pause, and what SetPeriodicActive turned off only an operator, or a
\* declaration's first apply after a start, turns on again, for any
\* definitions, Schedulers, failures and restarts.
THEOREM WordSafety == Spec => OperatorsWordStands
<1> DEFINE Pauses == \A g \in Slugs :
               row[g] # NoRow /\ row[g].paused /\ row'[g] # NoRow /\ ~row'[g].paused
               => Resume(g) \/ row'[g].id # row[g].id
           Deactivations == \A g \in Slugs :
               /\ row[g] # NoRow /\ row'[g] # NoRow /\ row[g].id = row'[g].id
               /\ ~row[g].active /\ row'[g].active
               => \/ SetPeriodicActive(g, TRUE)
                  \/ UpsertUpdates(Operator)
                  \/ \E s \in Schedulers : g \notin landed[s] /\ g \in landed'[s]
<1>1. Inv /\ [Next]_vars => Pauses
  BY FlagsMove
<1>2. Inv /\ [Next]_vars => Deactivations
  <2>1. SUFFICES ASSUME Inv, [Next]_vars, NEW g \in Slugs, row[g] # NoRow, row'[g] # NoRow,
                        ~row[g].active, row'[g].active,
                        ~SetPeriodicActive(g, TRUE), ~UpsertUpdates(Operator)
                 PROVE  \E s \in Schedulers : g \notin landed[s] /\ g \in landed'[s]
    OBVIOUS
  <2>2. PICK u \in Callers : UpsertUpdates(u) /\ up[u].slug = g
    BY <2>1, FlagsMove
  <2>3. u \in Schedulers
    BY <2>1, <2>2 DEF Callers
  <2>4. QED
    BY <2>1, <2>2, <2>3, LandsOnce
<1> HIDE DEF Pauses, Deactivations
<1>3. Spec => [][Pauses]_vars
  BY <1>1, AlwaysInv, PTL DEF Spec
<1>4. Spec => [][Deactivations]_vars
  BY <1>2, AlwaysInv, PTL DEF Spec
<1>5. QED
  BY <1>3, <1>4 DEF OperatorsWordStands, PauseHolds, DeactivationStands, Pauses, Deactivations
=============================================================================
