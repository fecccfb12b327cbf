---------------------------- MODULE UpkeepProofs ----------------------------
(***************************************************************************)
(* Proofs about Upkeep, for any jobs, hours, schedulers, RebuildStats      *)
(* callers, retention passes and rules: Stats serves every run, and        *)
(* retention deletes none the rollup has yet to count.                     *)
(*                                                                         *)
(* Both rest on one invariant.  A covered hour's rows count all it held,   *)
(* deleted jobs included; an hour the range does not cover has no rows;    *)
(* and what a walk is about to commit, an hour it has read or a stretch it *)
(* has found empty, is still what the hour holds of the jobs that exist.   *)
(***************************************************************************)
EXTENDS Upkeep, FiniteSetTheorems, WellFoundedInduction, NaturalsInduction, TLAPS

----------------------------------------------------------------------------
(* The invariant. *)

WalkRecord ==
    [pc : {"idle", "reroll", "floor", "walk", "read", "write", "cover", "prune"},
     op : {"none", "reroll", "rollup", "rebuild", "force"},
     leg : 0..5, legs : [Legs -> Int \X Int], left : Int, hour : Int,
     win : SUBSET Entries, todo : SUBSET Hours, earliest : Int, backfills : Int]
PruneRecord ==
    [pc : {"idle", "select", "delete"}, cap : Int, retain : Int, clock : Int,
     cursor : {0} \cup {Max(ids) : ids \in SUBSET Jobs}, ids : SUBSET Jobs, left : Int]
JobRecord ==
    [st : {"absent", "live", "deleted"} \cup Terminal, fin : Int, attempt : Int, busy : SUBSET Int]

UpkeepShape ==
    /\ now \in Nat /\ now <= LastHour + 1
    /\ job \in [Jobs -> JobRecord]
    /\ at \in [Entries -> Hours \cup {NoHour}]
    /\ log \in SUBSET Entries /\ lost \in SUBSET Entries
    /\ rows \in [Hours -> SUBSET Entries]
    /\ prog \in [from : Int, to : Int, retain : Int]
    /\ walker \in [Walkers -> WalkRecord]
    /\ pruner \in [Pruners -> PruneRecord]

\* Nothing is dated later than the clock, and what is logged is dated.
Dated ==
    /\ \A e \in Entries : at[e] <= now
    /\ \A e \in log : at[e] # NoHour
    /\ \A e \in Entries : job[e[1]].st = "absent" => at[e] = NoHour

ProgressOK ==
    prog # NoProgress => /\ 0 <= prog.from /\ prog.from <= prog.to /\ prog.to <= now
                         /\ 0 <= prog.retain /\ prog.retain <= now

\* The oldest hour no pass has asked to be pruned.
Oldest == Max({0, now - StatsRetention})
Floor == IF prog.retain < Oldest THEN prog.retain ELSE Oldest

\* The entries of an hour, and those of them that still have their job.
Whole(h) == Logged(h) \subseteq rows[h] \cup lost \cup Pending
Seen(h, win) == Raw(h) \subseteq win \cup lost

CoveredWhole == \A h \in Hours : Covers(prog, h) /\ Floor <= h => Whole(h)
UncoveredBare == \A h \in Hours : Floor <= h => Covers(prog, h) \/ rows[h] = {}
DeletedCounted ==
    \A e \in Entries :
        job[e[1]].st = "deleted" /\ Floor <= at[e] /\ (e[2] = 0 \/ e \in log)
            => at[e] = NoHour \/ e \in rows[at[e]] \cup lost

\* The stretches of a walk lie in closed hours, at the edge of the range p, down
\* to the floor f.
LegsOK(legs, p, f, n) ==
    /\ \A i \in OpenLegs(legs) : 0 <= legs[i][1] /\ legs[i][2] <= n
    /\ \A h \in Int : legs[1][1] <= h /\ h < legs[1][2] /\ f <= h => Covers(p, h)
    /\ \A i \in OpenLegs(legs) \cap {2, 3} : p.from <= legs[i][1] \/ p.from <= f
    /\ 2 \in OpenLegs(legs) => legs[2][1] <= p.to
    /\ 3 \in OpenLegs(legs) =>
         legs[3][1] <= p.to \/ (2 \in OpenLegs(legs) /\ legs[3][1] <= legs[2][2])
    /\ \A i \in OpenLegs(legs) \cap {4, 5} : legs[i][2] <= p.to
    /\ 4 \in OpenLegs(legs) => p.from <= legs[4][2] \/ legs[4][2] <= f
    /\ 5 \in OpenLegs(legs) =>
         \/ p.from <= legs[5][2] \/ legs[5][2] <= f
         \/ 4 \in OpenLegs(legs) /\ legs[4][1] = legs[5][2]

Walking == {"walk", "read", "write", "cover"}

\* The stretch a walk is in, the one hour of a re-roll included.
PlaceOK(loc) ==
    /\ loc.leg \in OpenLegs(loc.legs) /\ \A i \in OpenLegs(loc.legs) : loc.leg <= i
    /\ loc.pc \in {"walk", "cover"} <=> loc.hour = NoHour
    /\ loc.pc \in {"walk", "cover"} => ~EveryHour(loc.leg)
    /\ loc.pc \in {"read", "write"} =>
         /\ loc.legs[loc.leg][1] <= loc.hour /\ loc.hour < loc.legs[loc.leg][2]
         /\ EveryHour(loc.leg) => loc.hour = IF Upward(loc.leg) THEN loc.legs[loc.leg][1]
                                             ELSE loc.legs[loc.leg][2] - 1

\* What a walk does is still to be done: the hours a backfill has to re-roll are
\* remembered, and what a pass is to prune lies below the floor.
WalkOK(loc, p, f, n) ==
    /\ loc.op # "reroll" => loc.todo = {}
    /\ loc.op = "reroll" => loc.pc \in {"reroll", "read", "write"}
    /\ loc.pc = "reroll" => loc.op = "reroll"
    /\ loc.op = "reroll" /\ loc.pc # "reroll" =>
         loc.left = -1 /\ loc.leg = 1 /\ \A h \in loc.todo : Covers(p, h) \/ h < f
    /\ loc.op = "rollup" => loc.earliest <= f
    /\ loc.pc = "prune" => loc.op = "rollup"
    /\ loc.pc \in Walking => p # NoProgress /\ loc.op # "none" /\ PlaceOK(loc) /\ LegsOK(loc.legs, p, f, n)

\* A walk's view of the hours it has yet to commit: one it has read, and those
\* it found empty, have gained nothing since but what is excused.
ViewOK(w) ==
    \A h \in Uncommitted(w) :
        Seen(h, IF walker[w].pc = "write" /\ h = walker[w].hour THEN walker[w].win ELSE {})

\* What retention may delete is covered, or older than what the rollup keeps.
PruneOK(loc, p, oldest) ==
    loc.pc # "idle" =>
        /\ p # NoProgress
        /\ p.retain <= loc.retain \/ p.retain <= oldest
        /\ \/ loc.cap <= loc.retain
           \/ loc.cap <= p.to /\ (p.from <= loc.retain \/ p.from <= p.retain)

UpkeepInv ==
    /\ UpkeepShape /\ Dated /\ ProgressOK
    /\ CoveredWhole /\ UncoveredBare /\ DeletedCounted
    /\ \A w \in Walkers : WalkOK(walker[w], prog, Floor, now) /\ ViewOK(w)
    /\ \A p \in Pruners : PruneOK(pruner[p], prog, Oldest)

----------------------------------------------------------------------------
(* Least and greatest elements. *)

LEMMA MaxOfTwo ==
    ASSUME NEW a \in Int, NEW b \in Int
    PROVE  Max({a, b}) = IF a < b THEN b ELSE a
<1>1. \E x \in {a, b} : \A y \in {a, b} : x >= y  OBVIOUS
<1>. QED  BY <1>1 DEF Max

LEMMA MinOfTwo ==
    ASSUME NEW a \in Int, NEW b \in Int
    PROVE  Min({a, b}) = IF a < b THEN a ELSE b
<1>1. \E x \in {a, b} : \A y \in {a, b} : x <= y  OBVIOUS
<1>. QED  BY <1>1 DEF Min

LEMMA LeastElement ==
    ASSUME NEW S \in SUBSET Nat, S # {}
    PROVE  Min(S) \in S /\ \A y \in S : Min(S) <= y
<1>1. PICK x \in S : \A y \in S : ~(<<y, x>> \in OpToRel(<, Nat))
  BY NatLessThanWellFounded, WFMin
<1>2. \A y \in S : x <= y
  <2>1. SUFFICES ASSUME NEW y \in S PROVE x <= y  OBVIOUS
  <2>2. ~(y < x)  BY <1>1 DEF OpToRel
  <2>. QED  BY <2>2
<1>. QED  BY <1>2 DEF Min

LEMMA GreatestElement ==
    ASSUME NEW S \in SUBSET Nat, S # {}, NEW n \in Nat, \A y \in S : y <= n
    PROVE  Max(S) \in S /\ \A y \in S : y <= Max(S)
<1>. DEFINE T == {n - y : y \in S}
<1>1. T \in SUBSET Nat /\ T # {}
  <2>1. PICK s \in S : TRUE  OBVIOUS
  <2>2. n - s \in T  OBVIOUS
  <2>3. \A y \in S : n - y \in Nat  OBVIOUS
  <2>. QED  BY <2>2, <2>3
<1>2. Min(T) \in T /\ \A z \in T : Min(T) <= z  BY <1>1, LeastElement
<1>3. PICK x \in S : Min(T) = n - x  BY <1>2
<1>4. \A y \in S : x >= y
  <2>1. SUFFICES ASSUME NEW y \in S PROVE x >= y  OBVIOUS
  <2>2. n - x <= n - y  BY <1>2, <1>3
  <2>. QED  BY <2>2
<1>. QED  BY <1>4 DEF Max

----------------------------------------------------------------------------
(* The stretches. *)

LegsType == [Legs -> Int \X Int]
Progress == [from : Int, to : Int, retain : Int]

LEMMA TrimLegs ==
    ASSUME NEW legs \in LegsType
    PROVE  /\ Trim(legs) \in LegsType /\ OpenLegs(Trim(legs)) = OpenLegs(legs)
           /\ \A i \in OpenLegs(legs) : Trim(legs)[i] = legs[i]
           /\ \A i \in Legs : i \notin OpenLegs(legs) => Trim(legs)[i] = <<0, 0>>
<1>1. Trim(legs) \in LegsType  BY DEF Trim, LegsType
<1>2. \A i \in Legs : Trim(legs)[i] = IF legs[i][1] < legs[i][2] THEN legs[i] ELSE <<0, 0>>
  BY DEF Trim
<1>3. \A i \in Legs : i \in OpenLegs(legs) <=> legs[i][1] < legs[i][2]  BY DEF OpenLegs
<1>4. \A i \in Legs : i \in OpenLegs(Trim(legs)) <=> Trim(legs)[i][1] < Trim(legs)[i][2]  BY DEF OpenLegs
<1>5. OpenLegs(Trim(legs)) = OpenLegs(legs)
  <2>1. \A i \in Legs : Trim(legs)[i][1] < Trim(legs)[i][2] <=> legs[i][1] < legs[i][2]  BY <1>2
  <2>. QED  BY <1>3, <1>4, <2>1 DEF OpenLegs
<1>. QED  BY <1>1, <1>2, <1>3, <1>5 DEF OpenLegs

LEMMA TrimKeeps ==
    ASSUME NEW legs \in LegsType, NEW p \in Progress, NEW f \in Int, NEW n \in Int,
           LegsOK(legs, p, f, n)
    PROVE  LegsOK(Trim(legs), p, f, n)
<1>. DEFINE trim == Trim(legs)
<1>1. /\ OpenLegs(trim) = OpenLegs(legs) /\ \A i \in OpenLegs(legs) : trim[i] = legs[i]
      /\ \A i \in Legs : i \notin OpenLegs(legs) => trim[i] = <<0, 0>>
  BY TrimLegs
<1>. HIDE DEF trim
<1>2. \A h \in Int : trim[1][1] <= h /\ h < trim[1][2] => legs[1][1] <= h /\ h < legs[1][2]
  <2>1. CASE 1 \in OpenLegs(legs)  BY <1>1, <2>1
  <2>2. CASE 1 \notin OpenLegs(legs)
    <3>1. trim[1] = <<0, 0>>  BY <1>1, <2>2 DEF Legs
    <3>. QED  BY <3>1
  <2>. QED  BY <2>1, <2>2
<1>3. LegsOK(trim, p, f, n)  BY <1>1, <1>2 DEF LegsOK
<1>. QED  BY <1>3 DEF trim

\* A step of the range at the walk's stretch i: up to the end of hour h, or down
\* to it.
Stepped(p, legs, i, h) ==
    IF ~Extends(i) THEN p
    ELSE IF Upward(i) THEN Step(p, <<legs[i][1], h + 1>>, NoStep)
    ELSE Step(p, NoStep, <<h, legs[i][2]>>)

LEMMA StepUp ==
    ASSUME NEW p \in Progress, NEW lo \in Int, NEW hi \in Int
    PROVE  LET q == Step(p, <<lo, hi>>, NoStep)
           IN  /\ q \in Progress /\ q.retain = p.retain /\ q.from = p.from
               /\ q.to = IF lo <= p.to /\ p.to < hi THEN hi ELSE p.to
<1>. DEFINE t == IF lo <= p.to /\ p.to < hi THEN hi ELSE p.to
<1>1. p.from \in Int /\ p.to \in Int /\ t \in Int  BY DEF Progress
<1>2. Step(p, <<lo, hi>>, NoStep) = [p EXCEPT !.to = t, !.from = (IF 0 < p.from /\ p.from <= 0 THEN 0 ELSE p.from)]
  BY DEF Step, NoStep
<1>3. (IF 0 < p.from /\ p.from <= 0 THEN 0 ELSE p.from) = p.from  BY <1>1
<1>. HIDE DEF t
<1>4. Step(p, <<lo, hi>>, NoStep) = [p EXCEPT !.to = t]  BY <1>2, <1>3 DEF Progress
<1>5. [p EXCEPT !.to = t] \in Progress  BY <1>1 DEF Progress
<1>. QED  BY <1>4, <1>5 DEF t, Progress

LEMMA StepDown ==
    ASSUME NEW p \in Progress, NEW lo \in Int, NEW hi \in Int
    PROVE  LET q == Step(p, NoStep, <<lo, hi>>)
           IN  /\ q \in Progress /\ q.retain = p.retain /\ q.to = p.to
               /\ q.from = IF lo < p.from /\ p.from <= hi THEN lo ELSE p.from
<1>. DEFINE t == IF lo < p.from /\ p.from <= hi THEN lo ELSE p.from
<1>1. p.from \in Int /\ p.to \in Int /\ t \in Int  BY DEF Progress
<1>2. Step(p, NoStep, <<lo, hi>>) = [p EXCEPT !.from = t, !.to = (IF 0 <= p.to /\ p.to < 0 THEN 0 ELSE p.to)]
  BY DEF Step, NoStep
<1>3. (IF 0 <= p.to /\ p.to < 0 THEN 0 ELSE p.to) = p.to  BY <1>1
<1>. HIDE DEF t
<1>4. Step(p, NoStep, <<lo, hi>>) = [p EXCEPT !.from = t]  BY <1>2, <1>3 DEF Progress
<1>5. [p EXCEPT !.from = t] \in Progress  BY <1>1 DEF Progress
<1>. QED  BY <1>4, <1>5 DEF t, Progress

\* The range extends from its edge over the stretch, and the hour is covered.
LEMMA SteppedRange ==
    ASSUME NEW p \in Progress, 0 <= p.from, p.from <= p.to, NEW legs \in LegsType,
           NEW i \in OpenLegs(legs), NEW h \in Int, legs[i][1] <= h, h < legs[i][2],
           NEW f \in Int, NEW n \in Int, p.to <= n, LegsOK(legs, p, f, n),
           \A k \in OpenLegs(legs) : i <= k
    PROVE  LET q == Stepped(p, legs, i, h)
           IN  /\ q \in Progress /\ q.retain = p.retain
               /\ q.from <= p.from /\ p.to <= q.to /\ 0 <= q.from /\ q.to <= n
               /\ f <= h => Covers(q, h)
               /\ Upward(i) /\ Extends(i) => h + 1 <= q.to
               /\ ~Upward(i) => q.from <= h \/ legs[i][2] <= f
               /\ \A x \in Int : Covers(q, x) /\ ~Covers(p, x) =>
                    legs[i][1] <= x /\ x < legs[i][2] /\ (IF Upward(i) THEN x <= h ELSE h <= x)
<1>. DEFINE lo == legs[i][1]
            hi == legs[i][2]
            q == Stepped(p, legs, i, h)
<1>0. i \in Legs /\ lo \in Int /\ hi \in Int /\ legs[i] = <<lo, hi>> /\ 0 <= lo /\ hi <= n
  BY DEF OpenLegs, LegsType, LegsOK
<1>. SUFFICES
       /\ q \in Progress /\ q.retain = p.retain
       /\ q.from <= p.from /\ p.to <= q.to /\ 0 <= q.from /\ q.to <= n
       /\ f <= h => Covers(q, h)
       /\ Upward(i) /\ Extends(i) => h + 1 <= q.to
       /\ ~Upward(i) => q.from <= h \/ hi <= f
       /\ \A x \in Int : Covers(q, x) /\ ~Covers(p, x) =>
            lo <= x /\ x < hi /\ (IF Upward(i) THEN x <= h ELSE h <= x)
  OBVIOUS
<1>1. CASE i = 1
  <2>1. q = p /\ Upward(i) /\ ~Extends(i)  BY <1>1 DEF Stepped, Extends, Upward
  <2>2. f <= h => Covers(p, h)  BY <1>1 DEF LegsOK
  <2>. HIDE DEF q, lo, hi
  <2>. QED  BY <2>1, <2>2 DEF Progress
<1>2. CASE i \in {2, 3}
  <2>1. q = Step(p, <<lo, h + 1>>, NoStep) /\ Upward(i) /\ Extends(i)
    BY <1>2 DEF Stepped, Extends, Upward
  <2>2. lo \in Int /\ h + 1 \in Int  BY <1>0
  <2>3. lo <= p.to
    <3>1. CASE i = 2  BY <3>1 DEF LegsOK
    <3>2. CASE i = 3
      <4>1. 2 \notin OpenLegs(legs)  BY <3>2
      <4>. QED  BY <3>2, <4>1 DEF LegsOK
    <3>. QED  BY <1>2, <3>1, <3>2
  <2>4. p.from <= lo \/ p.from <= f  BY <1>2 DEF LegsOK
  <2>5. /\ q \in Progress /\ q.retain = p.retain
        /\ q.to = IF lo <= p.to /\ p.to < h + 1 THEN h + 1 ELSE p.to
    BY <2>1, <2>2, StepUp
  <2>6. q.from = p.from  BY <2>1, <2>2, StepUp
  <2>. HIDE DEF q, lo, hi
  <2>7. p.from \in Int /\ p.to \in Int  BY DEF Progress
  <2>8. h + 1 <= q.to /\ p.to <= q.to /\ q.to <= n /\ lo <= h /\ h < hi
    BY <1>0, <2>3, <2>5, <2>7 DEF lo, hi
  <2>9. f <= h => Covers(q, h)  BY <1>0, <2>4, <2>5, <2>6, <2>7, <2>8 DEF Covers, Progress
  <2>10. \A x \in Int : Covers(q, x) /\ ~Covers(p, x) => lo <= x /\ x < hi /\ x <= h
    BY <1>0, <2>3, <2>5, <2>6, <2>7, <2>8 DEF Covers
  <2>. QED  BY <2>1, <2>5, <2>6, <2>7, <2>8, <2>9, <2>10
<1>3. CASE i \in {4, 5}
  <2>1. q = Step(p, NoStep, <<h, hi>>) /\ ~Upward(i)
    BY <1>3 DEF Stepped, Extends, Upward
  <2>2. h \in Int /\ hi \in Int  BY <1>0
  <2>3. p.from <= hi \/ hi <= f
    <3>1. CASE i = 4  BY <3>1 DEF LegsOK
    <3>2. CASE i = 5
      <4>1. 4 \notin OpenLegs(legs)  BY <3>2
      <4>. QED  BY <3>2, <4>1 DEF LegsOK
    <3>. QED  BY <1>3, <3>1, <3>2
  <2>4. hi <= p.to  BY <1>3 DEF LegsOK
  <2>5. /\ q \in Progress /\ q.retain = p.retain
        /\ q.from = IF h < p.from /\ p.from <= hi THEN h ELSE p.from
    BY <2>1, <2>2, StepDown
  <2>6. q.to = p.to  BY <2>1, <2>2, StepDown
  <2>. HIDE DEF q, lo, hi
  <2>7. p.from \in Int /\ p.to \in Int  BY DEF Progress
  <2>8. q.from <= p.from /\ 0 <= q.from /\ (q.from <= h \/ hi <= f) /\ lo <= h /\ h < hi
    BY <1>0, <2>3, <2>5, <2>7 DEF lo, hi
  <2>9. f <= h => Covers(q, h)  BY <1>0, <2>4, <2>5, <2>6, <2>7, <2>8 DEF Covers, Progress
  <2>10. \A x \in Int : Covers(q, x) /\ ~Covers(p, x) => lo <= x /\ x < hi /\ h <= x
    BY <1>0, <2>3, <2>4, <2>5, <2>6, <2>7, <2>8 DEF Covers
  <2>. QED  BY <2>1, <2>4, <2>5, <2>6, <2>7, <2>8, <2>9, <2>10
<1>. QED  BY <1>0, <1>1, <1>2, <1>3 DEF Legs

\* What is left of the stretches when hour h of the first of them is committed
\* lies at the edge the range then has.
LEMMA SteppedLegs ==
    ASSUME NEW p \in Progress, 0 <= p.from, p.from <= p.to, NEW legs \in LegsType,
           NEW i \in OpenLegs(legs), NEW h \in Int, legs[i][1] <= h, h < legs[i][2],
           NEW f \in Int, NEW n \in Int, p.to <= n, LegsOK(legs, p, f, n),
           \A k \in OpenLegs(legs) : i <= k,
           NEW rest \in LegsType, \A k \in Legs : k # i => rest[k] = legs[k],
           i \in OpenLegs(rest) =>
              rest[i] = IF Upward(i) THEN <<h + 1, legs[i][2]>> ELSE <<legs[i][1], h>>,
           i \notin OpenLegs(rest) => IF Upward(i) THEN legs[i][2] <= h + 1 ELSE h <= legs[i][1]
    PROVE  LegsOK(rest, Stepped(p, legs, i, h), f, n)
<1>. DEFINE q == Stepped(p, legs, i, h)
<1>0. i \in Legs  BY DEF OpenLegs
<1>1. /\ q \in Progress /\ q.from <= p.from /\ p.to <= q.to
      /\ Upward(i) /\ Extends(i) => h + 1 <= q.to
      /\ ~Upward(i) => q.from <= h \/ legs[i][2] <= f
  BY SteppedRange
<1>. HIDE DEF q
<1>2. p.from \in Int /\ p.to \in Int /\ q.from \in Int /\ q.to \in Int  BY <1>1 DEF Progress
<1>3. \A k \in Legs : /\ legs[k][1] \in Int /\ legs[k][2] \in Int
                      /\ rest[k][1] \in Int /\ rest[k][2] \in Int
  BY DEF LegsType
<1>4. \A k \in Legs : /\ k \in OpenLegs(legs) <=> legs[k][1] < legs[k][2]
                      /\ k \in OpenLegs(rest) <=> rest[k][1] < rest[k][2]
  BY DEF OpenLegs
<1>5. \A k \in Legs : k \in OpenLegs(rest) => /\ k \in OpenLegs(legs)
                                              /\ legs[k][1] <= rest[k][1] /\ rest[k][2] <= legs[k][2]
  BY <1>0, <1>3, <1>4
<1>6. \A k \in OpenLegs(rest) : 0 <= rest[k][1] /\ rest[k][2] <= n
  <2>1. \A k \in OpenLegs(legs) : 0 <= legs[k][1] /\ legs[k][2] <= n  BY DEF LegsOK
  <2>2. \A k \in OpenLegs(rest) : k \in Legs  BY DEF OpenLegs
  <2>. QED  BY <1>3, <1>5, <2>1, <2>2
<1>7. \A x \in Int : rest[1][1] <= x /\ x < rest[1][2] /\ f <= x => Covers(q, x)
  <2>1. SUFFICES ASSUME NEW x \in Int, rest[1][1] <= x, x < rest[1][2], f <= x PROVE Covers(q, x)
    OBVIOUS
  <2>2. 1 \in OpenLegs(rest)  BY <1>3, <1>4, <2>1 DEF Legs
  <2>3. legs[1][1] <= x /\ x < legs[1][2]  BY <1>3, <1>5, <2>1, <2>2 DEF Legs
  <2>4. Covers(p, x)  BY <2>1, <2>3 DEF LegsOK
  <2>. QED  BY <1>1, <1>2, <2>4 DEF Covers
<1>8. \A k \in OpenLegs(rest) \cap {2, 3} : q.from <= rest[k][1] \/ q.from <= f
  <2>1. \A k \in OpenLegs(legs) \cap {2, 3} : p.from <= legs[k][1] \/ p.from <= f  BY DEF LegsOK
  <2>. QED  BY <1>1, <1>2, <1>3, <1>5, <2>1 DEF Legs
<1>9. 2 \in OpenLegs(rest) => rest[2][1] <= q.to
  <2>1. SUFFICES ASSUME 2 \in OpenLegs(rest) PROVE rest[2][1] <= q.to  OBVIOUS
  <2>2. CASE i = 2  BY <1>1, <1>2, <2>1, <2>2 DEF Upward, Extends
  <2>3. CASE i # 2
    <3>1. legs[2][1] <= p.to  BY <1>5, <2>1 DEF LegsOK, Legs
    <3>. QED  BY <1>1, <1>2, <1>3, <2>3, <3>1 DEF Legs
  <2>. QED  BY <2>2, <2>3
<1>10. 3 \in OpenLegs(rest) =>
         rest[3][1] <= q.to \/ (2 \in OpenLegs(rest) /\ rest[3][1] <= rest[2][2])
  <2>1. SUFFICES ASSUME 3 \in OpenLegs(rest)
                 PROVE rest[3][1] <= q.to \/ (2 \in OpenLegs(rest) /\ rest[3][1] <= rest[2][2])
    OBVIOUS
  <2>2. legs[3][1] <= p.to \/ (2 \in OpenLegs(legs) /\ legs[3][1] <= legs[2][2])
    BY <1>5, <2>1 DEF LegsOK, Legs
  <2>3. CASE i = 3  BY <1>1, <1>2, <2>1, <2>3 DEF Upward, Extends
  <2>4. CASE i = 2
    <3>1. rest[3] = legs[3] /\ h + 1 <= q.to  BY <1>1, <2>4 DEF Legs, Upward, Extends
    <3>2. CASE 2 \in OpenLegs(rest)
      <4>1. rest[2][2] = legs[2][2]  BY <2>4, <3>2 DEF Upward
      <4>. QED  BY <1>1, <1>2, <1>3, <2>2, <3>1, <3>2, <4>1 DEF Legs
    <3>3. CASE 2 \notin OpenLegs(rest)
      <4>1. legs[2][2] <= h + 1  BY <2>4, <3>3 DEF Upward
      <4>. QED  BY <1>1, <1>2, <1>3, <2>2, <3>1, <4>1 DEF Legs
    <3>. QED  BY <3>2, <3>3
  <2>5. CASE i \notin {2, 3}
    <3>1. rest[3] = legs[3] /\ rest[2] = legs[2]  BY <2>5 DEF Legs
    <3>2. 2 \in OpenLegs(legs) => 2 \in OpenLegs(rest)  BY <1>4, <3>1 DEF Legs
    <3>. QED  BY <1>1, <1>2, <1>3, <2>2, <3>1, <3>2 DEF Legs
  <2>. QED  BY <2>3, <2>4, <2>5
<1>11. \A k \in OpenLegs(rest) \cap {4, 5} : rest[k][2] <= q.to
  <2>1. \A k \in OpenLegs(legs) \cap {4, 5} : legs[k][2] <= p.to  BY DEF LegsOK
  <2>. QED  BY <1>1, <1>2, <1>3, <1>5, <2>1 DEF Legs
<1>12. 4 \in OpenLegs(rest) => q.from <= rest[4][2] \/ rest[4][2] <= f
  <2>1. SUFFICES ASSUME 4 \in OpenLegs(rest) PROVE q.from <= rest[4][2] \/ rest[4][2] <= f  OBVIOUS
  <2>2. p.from <= legs[4][2] \/ legs[4][2] <= f  BY <1>5, <2>1 DEF LegsOK, Legs
  <2>3. CASE i = 4
    <3>1. rest[4] = <<legs[4][1], h>> /\ (q.from <= h \/ legs[4][2] <= f)
      BY <1>1, <2>1, <2>3 DEF Upward
    <3>. QED  BY <1>3, <2>3, <3>1 DEF Legs
  <2>4. CASE i # 4
    <3>1. rest[4] = legs[4]  BY <2>4 DEF Legs
    <3>. QED  BY <1>1, <1>2, <1>3, <2>2, <3>1 DEF Legs
  <2>. QED  BY <2>3, <2>4
<1>13. 5 \in OpenLegs(rest) =>
         \/ q.from <= rest[5][2] \/ rest[5][2] <= f
         \/ 4 \in OpenLegs(rest) /\ rest[4][1] = rest[5][2]
  <2>1. SUFFICES ASSUME 5 \in OpenLegs(rest)
                 PROVE \/ q.from <= rest[5][2] \/ rest[5][2] <= f
                       \/ 4 \in OpenLegs(rest) /\ rest[4][1] = rest[5][2]
    OBVIOUS
  <2>2. \/ p.from <= legs[5][2] \/ legs[5][2] <= f
        \/ 4 \in OpenLegs(legs) /\ legs[4][1] = legs[5][2]
    BY <1>5, <2>1 DEF LegsOK, Legs
  <2>3. CASE i = 5
    <3>1. rest[5] = <<legs[5][1], h>> /\ (q.from <= h \/ legs[5][2] <= f)
      BY <1>1, <2>1, <2>3 DEF Upward
    <3>. QED  BY <1>3, <2>3, <3>1 DEF Legs
  <2>4. CASE i = 4
    <3>1. rest[5] = legs[5] /\ (q.from <= h \/ legs[4][2] <= f)  BY <1>1, <2>4 DEF Legs, Upward
    <3>2. CASE 4 \in OpenLegs(rest)
      <4>1. rest[4][1] = legs[4][1]  BY <2>4, <3>2 DEF Upward
      <4>. QED  BY <1>1, <1>2, <1>3, <2>2, <3>1, <3>2, <4>1 DEF Legs
    <3>3. CASE 4 \notin OpenLegs(rest)
      <4>1. h = legs[4][1]  BY <1>3, <2>4, <3>3 DEF Upward, Legs
      <4>2. CASE q.from <= h  BY <1>1, <1>2, <1>3, <2>2, <3>1, <4>1, <4>2 DEF Legs
      <4>3. CASE ~(q.from <= h)
        <5>1. legs[4][1] <= f  BY <1>3, <2>4, <3>1, <4>1, <4>3 DEF Legs
        <5>2. CASE p.from <= legs[5][2] \/ legs[5][2] <= f
          BY <1>1, <1>2, <1>3, <3>1, <5>2 DEF Legs
        <5>3. CASE legs[4][1] = legs[5][2]
          BY <1>1, <1>2, <1>3, <2>2, <3>1, <4>1, <5>1, <5>3 DEF Legs
        <5>. QED  BY <2>2, <5>2, <5>3
      <4>. QED  BY <4>2, <4>3
    <3>. QED  BY <3>2, <3>3
  <2>5. CASE i \notin {4, 5}
    <3>1. rest[5] = legs[5] /\ rest[4] = legs[4]  BY <2>5 DEF Legs
    <3>2. 4 \in OpenLegs(legs) => 4 \in OpenLegs(rest)  BY <1>4, <3>1 DEF Legs
    <3>. QED  BY <1>1, <1>2, <1>3, <2>2, <3>1, <3>2 DEF Legs
  <2>. QED  BY <2>3, <2>4, <2>5
<1>14. LegsOK(rest, q, f, n)
  BY <1>6, <1>7, <1>8, <1>9, <1>10, <1>11, <1>12, <1>13 DEF LegsOK
<1>. QED  BY <1>14 DEF q

----------------------------------------------------------------------------
(* Where a walk goes next. *)

LEMMA IdleFields ==
    ASSUME NEW b \in Int
    PROVE  /\ Idle(b) \in WalkRecord
           /\ Idle(b).pc = "idle" /\ Idle(b).op = "none" /\ Idle(b).todo = {}
<1>1. NoLegs \in LegsType  BY DEF NoLegs, LegsType, Legs
<1>. QED  BY <1>1 DEF Idle, WalkRecord, LegsType, NoHour, Legs

LEMMA ResumeGoesOn ==
    ASSUME NEW loc \in WalkRecord, NEW legs \in LegsType, OpenLegs(legs) # {}, loc.left # 0
    PROVE  LET r == Resume(loc, legs)
           IN  /\ r \in WalkRecord
               /\ r.leg \in OpenLegs(legs) /\ \A k \in OpenLegs(legs) : r.leg <= k
               /\ r.legs = Trim(legs) /\ r.pc = IF EveryHour(r.leg) THEN "read" ELSE "walk"
               /\ r.hour = IF ~EveryHour(r.leg) THEN NoHour
                           ELSE IF Upward(r.leg) THEN legs[r.leg][1] ELSE legs[r.leg][2] - 1
               /\ r.op = loc.op /\ r.todo = loc.todo /\ r.earliest = loc.earliest
               /\ r.left = loc.left
<1>. DEFINE i == Min(OpenLegs(legs))
            hour == IF ~EveryHour(i) THEN NoHour
                    ELSE IF Upward(i) THEN legs[i][1] ELSE legs[i][2] - 1
            pc == IF EveryHour(i) THEN "read" ELSE "walk"
            r == [loc EXCEPT !.pc = pc, !.leg = i, !.legs = Trim(legs), !.hour = hour]
<1>1. i \in OpenLegs(legs) /\ \A k \in OpenLegs(legs) : i <= k
  <2>1. OpenLegs(legs) \in SUBSET Nat  BY DEF OpenLegs, Legs
  <2>. QED  BY <2>1, LeastElement
<1>2. i \in Legs  BY <1>1 DEF OpenLegs
<1>3. Resume(loc, legs) = r  BY DEF Resume
<1>4. hour \in Int  BY <1>2 DEF NoHour, LegsType
<1>5. Trim(legs) \in LegsType  BY TrimLegs
<1>6. pc \in {"read", "walk"}  OBVIOUS
<1>. HIDE DEF i, hour, pc
<1>7. /\ r \in WalkRecord /\ r.leg = i /\ r.legs = Trim(legs) /\ r.pc = pc /\ r.hour = hour
      /\ r.op = loc.op /\ r.todo = loc.todo /\ r.earliest = loc.earliest /\ r.left = loc.left
  <2>1. i \in 0..5  BY <1>2 DEF Legs
  <2>. DEFINE trim == Trim(legs)
  <2>2. trim \in [Legs -> Int \X Int]  BY <1>5 DEF LegsType
  <2>. HIDE DEF trim
  <2>3. [loc EXCEPT !.pc = pc, !.leg = i, !.legs = trim, !.hour = hour] \in WalkRecord
    BY <1>4, <1>6, <2>1, <2>2 DEF WalkRecord
  <2>4. r \in WalkRecord  BY <2>3 DEF trim
  <2>. QED  BY <2>4 DEF WalkRecord
<1>. HIDE DEF r
<1>. QED  BY <1>1, <1>3, <1>7 DEF hour, pc

LEMMA ResumeEnds ==
    ASSUME NEW loc \in WalkRecord, NEW legs \in LegsType, OpenLegs(legs) = {} \/ loc.left = 0
    PROVE  LET r == Resume(loc, legs)
           IN  /\ r \in WalkRecord /\ r.todo = {} /\ r.pc \in {"prune", "idle"}
               /\ r.op = IF r.pc = "prune" THEN "rollup" ELSE "none"
               /\ r.pc = "prune" => loc.op = "rollup" /\ r.earliest = loc.earliest
<1>. DEFINE idle == Idle(loc.backfills)
            p == [idle EXCEPT !.pc = "prune", !.op = "rollup", !.earliest = loc.earliest]
<1>1. loc.backfills \in Int /\ loc.earliest \in Int  BY DEF WalkRecord
<1>2. idle \in WalkRecord /\ idle.pc = "idle" /\ idle.op = "none" /\ idle.todo = {}
  BY <1>1, IdleFields
<1>3. Resume(loc, legs) = IF loc.op = "rollup" THEN p ELSE idle  BY DEF Resume
<1>. HIDE DEF idle
<1>4. p \in WalkRecord /\ p.todo = {} /\ p.pc = "prune" /\ p.op = "rollup" /\ p.earliest = loc.earliest
  BY <1>1, <1>2 DEF WalkRecord
<1>. HIDE DEF p
<1>. QED  BY <1>2, <1>3, <1>4

\* Beyond its first hour nothing of the stretch a walk enters has been looked at.
Fresh(loc) == loc.pc \notin {"write", "cover"} /\ (loc.pc = "read" => EveryHour(loc.leg))

LEMMA ResumeKeeps ==
    ASSUME NEW loc \in WalkRecord, NEW legs \in LegsType, NEW p \in Progress,
           NEW f \in Int, NEW n \in Int, LegsOK(legs, p, f, n), p # NoProgress,
           loc.op \in {"rollup", "rebuild", "force"}, loc.todo = {},
           loc.op = "rollup" => loc.earliest <= f
    PROVE  LET r == Resume(loc, legs)
           IN  r \in WalkRecord /\ WalkOK(r, p, f, n) /\ Fresh(r) /\ r.todo = {}
<1>. DEFINE r == Resume(loc, legs)
<1>1. CASE OpenLegs(legs) # {} /\ loc.left # 0
  <2>1. /\ r \in WalkRecord
        /\ r.leg \in OpenLegs(legs) /\ \A k \in OpenLegs(legs) : r.leg <= k
        /\ r.legs = Trim(legs) /\ r.pc = IF EveryHour(r.leg) THEN "read" ELSE "walk"
        /\ r.hour = IF ~EveryHour(r.leg) THEN NoHour
                    ELSE IF Upward(r.leg) THEN legs[r.leg][1] ELSE legs[r.leg][2] - 1
        /\ r.op = loc.op /\ r.todo = loc.todo /\ r.earliest = loc.earliest
    BY <1>1, ResumeGoesOn
  <2>. HIDE DEF r
  <2>2. LegsOK(r.legs, p, f, n)  BY <2>1, TrimKeeps
  <2>3. OpenLegs(r.legs) = OpenLegs(legs) /\ r.legs[r.leg] = legs[r.leg]  BY <2>1, TrimLegs
  <2>4. /\ r.leg \in Legs /\ legs[r.leg][1] < legs[r.leg][2] /\ 0 <= legs[r.leg][1]
        /\ legs[r.leg][1] \in Int /\ legs[r.leg][2] \in Int
    BY <2>1 DEF OpenLegs, LegsOK, LegsType
  <2>5. r.pc = "read" => r.hour # NoHour  BY <2>1, <2>4 DEF NoHour
  <2>6. PlaceOK(r)  BY <2>1, <2>3, <2>4, <2>5 DEF PlaceOK
  <2>7. WalkOK(r, p, f, n)  BY <2>1, <2>2, <2>6 DEF WalkOK, Walking
  <2>8. Fresh(r)  BY <2>1 DEF Fresh
  <2>. QED  BY <2>1, <2>7, <2>8 DEF r
<1>2. CASE OpenLegs(legs) = {} \/ loc.left = 0
  <2>1. /\ r \in WalkRecord /\ r.todo = {} /\ r.pc \in {"prune", "idle"}
        /\ r.op = IF r.pc = "prune" THEN "rollup" ELSE "none"
        /\ r.pc = "prune" => loc.op = "rollup" /\ r.earliest = loc.earliest
    BY <1>2, ResumeEnds
  <2>. HIDE DEF r
  <2>2. WalkOK(r, p, f, n) /\ Fresh(r)  BY <2>1 DEF WalkOK, Walking, Fresh
  <2>. QED  BY <2>1, <2>2 DEF r
<1>. QED  BY <1>1, <1>2

\* A re-roll goes on with its oldest hour, and forgets none of the others.
LEMMA RerollKeeps ==
    ASSUME NEW loc \in WalkRecord, NEW p \in Progress, NEW f \in Int, NEW n \in Int, p.to <= n,
           loc.op = "reroll", loc.left = -1, \A h \in loc.todo : Covers(p, h) \/ h < f,
           loc.todo # {} => p # NoProgress, \A h \in loc.todo : h + 1 <= n
    PROVE  LET r == Reroll(loc)
           IN  r \in WalkRecord /\ WalkOK(r, p, f, n) /\ Fresh(r) /\ r.todo = loc.todo
<1>. DEFINE r == Reroll(loc)
<1>1. CASE loc.todo = {}
  <2>. DEFINE idle == Idle(loc.backfills + 1)
  <2>1. loc.backfills + 1 \in Int  BY DEF WalkRecord
  <2>2. idle \in WalkRecord /\ idle.op = "none" /\ idle.todo = {}  BY <2>1, IdleFields
  <2>3. r = [idle EXCEPT !.pc = "floor"]  BY <1>1 DEF Reroll
  <2>. HIDE DEF idle, r
  <2>4. r \in WalkRecord /\ r.pc = "floor" /\ r.op = "none" /\ r.todo = {}  BY <2>2, <2>3 DEF WalkRecord
  <2>5. WalkOK(r, p, f, n) /\ Fresh(r)  BY <2>4 DEF WalkOK, Walking, Fresh
  <2>. QED  BY <1>1, <2>4, <2>5 DEF r
<1>2. CASE loc.todo # {}
  <2>. DEFINE m == Min(loc.todo)
              legs == [NoLegs EXCEPT ![1] = <<m, m + 1>>]
  <2>1. loc.todo \in SUBSET Nat  BY SizeAssumption DEF WalkRecord, Hours
  <2>2. m \in loc.todo /\ m \in Nat  BY <1>2, <2>1, LeastElement
  <2>3. r = Resume(loc, legs)  BY <1>2 DEF Reroll
  <2>. HIDE DEF m, r
  <2>4. /\ legs \in LegsType /\ legs[1] = <<m, m + 1>>
        /\ \A k \in Legs : k # 1 => legs[k] = <<0, 0>>
    BY <2>2 DEF NoLegs, LegsType, Legs
  <2>. HIDE DEF legs
  <2>5. OpenLegs(legs) = {1}  BY <2>2, <2>4 DEF OpenLegs, Legs
  <2>6. LegsOK(legs, p, f, n)
    <3>1. \A h \in Int : legs[1][1] <= h /\ h < legs[1][2] /\ f <= h => Covers(p, h)
      BY <2>2, <2>4
    <3>2. 0 <= legs[1][1] /\ legs[1][2] <= n  BY <2>2, <2>4
    <3>. QED  BY <2>5, <3>1, <3>2 DEF LegsOK
  <2>7. /\ r \in WalkRecord
        /\ r.leg \in OpenLegs(legs) /\ r.legs = Trim(legs)
        /\ r.pc = IF EveryHour(r.leg) THEN "read" ELSE "walk"
        /\ r.hour = IF ~EveryHour(r.leg) THEN NoHour
                    ELSE IF Upward(r.leg) THEN legs[r.leg][1] ELSE legs[r.leg][2] - 1
        /\ r.op = loc.op /\ r.todo = loc.todo /\ r.left = loc.left
    BY <2>3, <2>4, <2>5, ResumeGoesOn
  <2>8. r.leg = 1 /\ r.pc = "read" /\ r.hour = m  BY <2>4, <2>5, <2>7 DEF EveryHour, Upward
  <2>9. LegsOK(r.legs, p, f, n)  BY <2>4, <2>6, <2>7, TrimKeeps
  <2>10. OpenLegs(r.legs) = {1} /\ r.legs[1] = <<m, m + 1>>  BY <2>4, <2>5, <2>7, TrimLegs
  <2>11. PlaceOK(r)  BY <2>2, <2>8, <2>10 DEF PlaceOK, EveryHour, Upward, NoHour
  <2>12. WalkOK(r, p, f, n) /\ Fresh(r)
    BY <1>2, <2>7, <2>8, <2>9, <2>11 DEF WalkOK, Walking, Fresh, EveryHour
  <2>. QED  BY <2>7, <2>12 DEF r
<1>. QED  BY <1>1, <1>2

----------------------------------------------------------------------------
(* What a step does to the others. *)

LEMMA OldestValue ==
    ASSUME NEW n \in Nat
    PROVE  /\ Max({0, n - StatsRetention}) = IF 0 < n - StatsRetention THEN n - StatsRetention ELSE 0
           /\ Max({0, n - StatsRetention}) \in Nat /\ Max({0, n - StatsRetention}) <= n
BY MaxOfTwo, SizeAssumption

LEMMA OldestGrows ==
    ASSUME NEW m \in Nat, NEW n \in Nat, m <= n
    PROVE  Max({0, m - StatsRetention}) <= Max({0, n - StatsRetention})
<1>1. StatsRetention \in Int  BY SizeAssumption
<1>2. CASE 0 < m - StatsRetention
  <2>1. 0 < n - StatsRetention  BY <1>1, <1>2
  <2>2. Max({0, m - StatsRetention}) = m - StatsRetention  BY <1>2, OldestValue
  <2>3. Max({0, n - StatsRetention}) = n - StatsRetention  BY <2>1, OldestValue
  <2>. QED  BY <1>1, <2>2, <2>3
<1>3. CASE ~(0 < m - StatsRetention)
  <2>1. Max({0, m - StatsRetention}) = 0  BY <1>3, OldestValue
  <2>2. Max({0, n - StatsRetention}) \in Nat  BY OldestValue
  <2>. QED  BY <2>1, <2>2
<1>. QED  BY <1>2, <1>3

\* The range and the boundary move one way: the end up, the start down or to the
\* floor, and the boundary to the hours kept.
Moves ==
    /\ now <= now' /\ lost \subseteq lost'
    /\ prog = NoProgress => prog' = NoProgress \/ 0 <= prog'.retain
    /\ prog # NoProgress =>
         /\ prog' # NoProgress /\ prog.to <= prog'.to
         /\ prog'.retain = prog.retain \/ prog'.retain = Oldest'
         /\ prog'.from <= prog.from \/ (prog'.from <= prog'.retain /\ prog'.from <= Floor')

LEMMA FloorType ==
    ASSUME UpkeepShape
    PROVE  /\ prog \in Progress /\ prog.from \in Int /\ prog.to \in Int /\ prog.retain \in Int
           /\ now \in Nat /\ Oldest \in Nat /\ Oldest <= now /\ Floor \in Int
           /\ Floor <= prog.retain /\ Floor <= Oldest
<1>1. prog \in Progress /\ now \in Nat  BY DEF UpkeepShape, Progress
<1>2. prog.from \in Int /\ prog.to \in Int /\ prog.retain \in Int  BY <1>1 DEF Progress
<1>3. Oldest \in Nat /\ Oldest <= now  BY <1>1, OldestValue DEF Oldest
<1>. QED  BY <1>1, <1>2, <1>3 DEF Floor

LEMMA FloorTypeNext ==
    ASSUME UpkeepShape'
    PROVE  /\ prog' \in Progress /\ prog'.from \in Int /\ prog'.to \in Int /\ prog'.retain \in Int
           /\ now' \in Nat /\ Oldest' \in Nat /\ Oldest' <= now' /\ Floor' \in Int
           /\ Floor' <= prog'.retain /\ Floor' <= Oldest'
<1>1. prog' \in Progress /\ now' \in Nat  BY DEF UpkeepShape, Progress
<1>2. prog'.from \in Int /\ prog'.to \in Int /\ prog'.retain \in Int  BY <1>1 DEF Progress
<1>3. Oldest' \in Nat /\ Oldest' <= now'  BY <1>1, OldestValue DEF Oldest
<1>. QED  BY <1>1, <1>2, <1>3 DEF Floor

LEMMA FloorGrows ==
    ASSUME UpkeepShape, UpkeepShape', Moves
    PROVE  Oldest <= Oldest' /\ Floor <= Floor'
<1>1. now \in Nat /\ now' \in Nat /\ now <= now'  BY FloorType, FloorTypeNext DEF Moves
<1>2. Oldest <= Oldest'  BY <1>1, OldestGrows DEF Oldest
<1>3. CASE prog = NoProgress
  <2>1. prog.retain = -1  BY <1>3 DEF NoProgress, NoHour
  <2>2. -1 <= prog'.retain
    <3>1. prog' = NoProgress \/ 0 <= prog'.retain  BY <1>3, Zenon DEF Moves
    <3>2. NoProgress.retain = -1  BY DEF NoProgress, NoHour
    <3>. QED  BY <3>1, <3>2, FloorTypeNext
  <2>. QED  BY <1>2, <2>1, <2>2, FloorType, FloorTypeNext DEF Floor
<1>4. CASE prog # NoProgress
  <2>1. prog'.retain = prog.retain \/ prog'.retain = Oldest'  BY <1>4 DEF Moves
  <2>. QED  BY <1>2, <2>1, FloorType, FloorTypeNext DEF Floor
<1>. QED  BY <1>2, <1>3, <1>4

LEMMA LegsMove ==
    ASSUME NEW legs \in LegsType, NEW p \in Progress, NEW q \in Progress,
           NEW f \in Int, NEW g \in Int, NEW n \in Int, NEW m \in Int, f <= g, n <= m,
           p.to <= q.to, q.from <= p.from \/ q.from <= g, LegsOK(legs, p, f, n)
    PROVE  LegsOK(legs, q, g, m)
<1>1. p.from \in Int /\ p.to \in Int /\ q.from \in Int /\ q.to \in Int  BY DEF Progress
<1>2. \A k \in Legs : legs[k][1] \in Int /\ legs[k][2] \in Int  BY DEF LegsType
<1>3. OpenLegs(legs) \subseteq Legs  BY DEF OpenLegs
<1>4. \A i \in OpenLegs(legs) : 0 <= legs[i][1] /\ legs[i][2] <= m  BY <1>2, <1>3 DEF LegsOK
<1>5. \A h \in Int : legs[1][1] <= h /\ h < legs[1][2] /\ g <= h => Covers(q, h)
  BY <1>1, <1>2 DEF LegsOK, Covers
<1>6. \A i \in OpenLegs(legs) \cap {2, 3} : q.from <= legs[i][1] \/ q.from <= g
  BY <1>1, <1>2, <1>3 DEF LegsOK
<1>7. 2 \in OpenLegs(legs) => legs[2][1] <= q.to  BY <1>1, <1>2, <1>3 DEF LegsOK
<1>8. 3 \in OpenLegs(legs) =>
        legs[3][1] <= q.to \/ (2 \in OpenLegs(legs) /\ legs[3][1] <= legs[2][2])
  BY <1>1, <1>2, <1>3 DEF LegsOK
<1>9. \A i \in OpenLegs(legs) \cap {4, 5} : legs[i][2] <= q.to  BY <1>1, <1>2, <1>3 DEF LegsOK
<1>10. 4 \in OpenLegs(legs) => q.from <= legs[4][2] \/ legs[4][2] <= g
  BY <1>1, <1>2, <1>3 DEF LegsOK
<1>11. 5 \in OpenLegs(legs) => \/ q.from <= legs[5][2] \/ legs[5][2] <= g
                               \/ 4 \in OpenLegs(legs) /\ legs[4][1] = legs[5][2]
  BY <1>1, <1>2, <1>3 DEF LegsOK
<1>. QED  BY <1>4, <1>5, <1>6, <1>7, <1>8, <1>9, <1>10, <1>11 DEF LegsOK

LEMMA WalkMoves ==
    ASSUME UpkeepInv, UpkeepShape', Moves, NEW x \in Walkers
    PROVE  WalkOK(walker[x], prog', Floor', now')
<1>. DEFINE loc == walker[x]
<1>1. loc \in WalkRecord /\ WalkOK(loc, prog, Floor, now)  BY DEF UpkeepInv, UpkeepShape
<1>2. /\ prog \in Progress /\ prog' \in Progress /\ Floor \in Int /\ Floor' \in Int
      /\ Floor <= Floor' /\ now \in Int /\ now' \in Int /\ now <= now'
  BY FloorType, FloorTypeNext, FloorGrows DEF UpkeepInv, Moves
<1>. HIDE DEF loc
<1>3. loc.legs \in LegsType /\ loc.earliest \in Int  BY <1>1 DEF WalkRecord, LegsType
<1>4. loc.op = "rollup" => loc.earliest <= Floor'  BY <1>1, <1>2, <1>3 DEF WalkOK
<1>5. loc.pc \in Walking => prog' # NoProgress /\ LegsOK(loc.legs, prog', Floor', now')
  <2>1. SUFFICES ASSUME loc.pc \in Walking
                 PROVE  prog' # NoProgress /\ LegsOK(loc.legs, prog', Floor', now')
    OBVIOUS
  <2>2. prog # NoProgress /\ LegsOK(loc.legs, prog, Floor, now)  BY <1>1, <2>1 DEF WalkOK
  <2>3. /\ prog' # NoProgress /\ prog.to <= prog'.to
        /\ prog'.from <= prog.from \/ prog'.from <= Floor'
    BY <2>2 DEF Moves
  <2>. QED  BY <1>2, <1>3, <2>2, <2>3, LegsMove
<1>6. loc.op = "reroll" /\ loc.pc # "reroll" => \A h \in loc.todo : Covers(prog', h) \/ h < Floor'
  <2>1. SUFFICES ASSUME loc.op = "reroll", loc.pc # "reroll", NEW h \in loc.todo
                 PROVE  Covers(prog', h) \/ h < Floor'
    OBVIOUS
  <2>2. prog # NoProgress /\ (Covers(prog, h) \/ h < Floor)  BY <1>1, <2>1 DEF WalkOK, Walking
  <2>3. h \in Int  BY <1>1, SizeAssumption DEF WalkRecord, Hours
  <2>4. /\ prog.to <= prog'.to
        /\ prog'.from <= prog.from \/ prog'.from <= Floor'
    BY <2>2 DEF Moves
  <2>. QED  BY <1>2, <2>2, <2>3, <2>4 DEF Covers, Progress
<1>7. WalkOK(loc, prog', Floor', now')  BY <1>1, <1>4, <1>5, <1>6 DEF WalkOK
<1>. QED  BY <1>7 DEF loc

LEMMA ViewKept ==
    ASSUME UpkeepInv, lost \subseteq lost', NEW x \in Walkers, walker'[x] = walker[x],
           \A h \in Uncommitted(x) : Raw(h)' \subseteq Raw(h) \cup lost'
    PROVE  ViewOK(x)'
<1>1. Uncommitted(x)' = Uncommitted(x)  BY DEF Uncommitted
<1>2. SUFFICES ASSUME NEW h \in Uncommitted(x)
               PROVE  Raw(h)' \subseteq (IF walker[x].pc = "write" /\ h = walker[x].hour
                                         THEN walker[x].win ELSE {}) \cup lost'
  BY <1>1 DEF ViewOK, Seen
<1>3. Raw(h) \subseteq (IF walker[x].pc = "write" /\ h = walker[x].hour
                        THEN walker[x].win ELSE {}) \cup lost
  BY DEF UpkeepInv, ViewOK, Seen
<1>. QED  BY <1>3

LEMMA FreshViewed ==
    ASSUME NEW x \in Walkers, UpkeepShape', Fresh(walker'[x]), NEW p, NEW f, NEW n,
           WalkOK(walker'[x], p, f, n)
    PROVE  ViewOK(x)'
<1>. DEFINE loc == walker'[x]
<1>1. loc \in WalkRecord  BY DEF UpkeepShape
<1>. HIDE DEF loc
<1>2. CASE loc.pc = "read"
  <2>1. /\ EveryHour(loc.leg) /\ loc.leg \in Legs
        /\ loc.hour = IF Upward(loc.leg) THEN loc.legs[loc.leg][1] ELSE loc.legs[loc.leg][2] - 1
    BY <1>2 DEF loc, Fresh, WalkOK, PlaceOK, Walking, OpenLegs
  <2>2. loc.legs[loc.leg][1] \in Int /\ loc.legs[loc.leg][2] \in Int  BY <1>1, <2>1 DEF WalkRecord
  <2>3. \A h \in Hours : ~(/\ loc.legs[loc.leg][1] <= h /\ h < loc.legs[loc.leg][2]
                           /\ IF Upward(loc.leg) THEN h < loc.hour ELSE h > loc.hour)
    BY <2>1, <2>2, SizeAssumption DEF Hours
  <2>4. Uncommitted(x)' = {}  BY <1>2, <2>3 DEF Uncommitted, loc
  <2>. QED  BY <2>4 DEF ViewOK
<1>3. CASE loc.pc # "read"
  <2>1. loc.pc \notin {"read", "write", "cover"}  BY <1>3 DEF Fresh, loc
  <2>2. Uncommitted(x)' = {}  BY <2>1 DEF Uncommitted, loc
  <2>. QED  BY <2>2 DEF ViewOK
<1>. QED  BY <1>2, <1>3

LEMMA PruneMoves ==
    ASSUME UpkeepInv, UpkeepShape', Moves, NEW p \in Pruners
    PROVE  PruneOK(pruner[p], prog', Oldest')
<1>. DEFINE loc == pruner[p]
<1>1. loc \in PruneRecord /\ PruneOK(loc, prog, Oldest)  BY DEF UpkeepInv, UpkeepShape
<1>. HIDE DEF loc
<1>2. loc.cap \in Int /\ loc.retain \in Int  BY <1>1 DEF PruneRecord
<1>3. SUFFICES ASSUME loc.pc # "idle" PROVE PruneOK(loc, prog', Oldest')
  BY DEF PruneOK, loc
<1>4. /\ prog # NoProgress
      /\ prog.retain <= loc.retain \/ prog.retain <= Oldest
      /\ \/ loc.cap <= loc.retain
         \/ loc.cap <= prog.to /\ (prog.from <= loc.retain \/ prog.from <= prog.retain)
  BY <1>1, <1>3 DEF PruneOK
<1>5. /\ prog' # NoProgress /\ prog.to <= prog'.to
      /\ prog'.retain = prog.retain \/ prog'.retain = Oldest'
      /\ prog'.from <= prog.from \/ prog'.from <= prog'.retain
  BY <1>4 DEF Moves
<1>6. Oldest \in Int /\ Oldest' \in Int /\ Oldest <= Oldest'
  BY FloorType, FloorTypeNext, FloorGrows DEF UpkeepInv
<1>7. /\ prog.from \in Int /\ prog.to \in Int /\ prog.retain \in Int
      /\ prog'.from \in Int /\ prog'.to \in Int /\ prog'.retain \in Int
  BY FloorType, FloorTypeNext DEF UpkeepInv
<1>8. prog'.retain <= loc.retain \/ prog'.retain <= Oldest'  BY <1>2, <1>4, <1>5, <1>6, <1>7
<1>9. \/ loc.cap <= loc.retain
      \/ loc.cap <= prog'.to /\ (prog'.from <= loc.retain \/ prog'.from <= prog'.retain)
  BY <1>2, <1>4, <1>5, <1>6, <1>7
<1>. QED  BY <1>5, <1>8, <1>9 DEF PruneOK

----------------------------------------------------------------------------
(* Jobs and the clock.  What they add is dated in the open hour, which no walk *)
(* has reached.                                                              *)

\* The entries of the closed hours are as they were.
PastKept ==
    /\ now <= now' /\ log \subseteq log'
    /\ \A j \in Jobs : job'[j].st = "deleted" => job[j].st = "deleted"
    /\ \A j \in Jobs : Exists(j)' => Exists(j) \/ job[j].st = "absent"
    /\ \A e \in Entries : \/ at'[e] = at[e] /\ (e \in log' => e \in log)
                          \/ at'[e] = now /\ job'[e[1]].st # "deleted"

LEMMA WorldKeeps ==
    ASSUME UpkeepInv, UpkeepShape', Dated', PastKept, UNCHANGED upkeep
    PROVE  UpkeepInv'
<1>. USE DEF upkeep
<1>1. Moves
  <2>1. prog' = prog /\ lost' = lost  OBVIOUS
  <2>2. prog.to \in Int /\ prog.from \in Int  BY FloorType DEF UpkeepInv
  <2>. QED  BY <2>1, <2>2 DEF Moves, PastKept
<1>2. /\ now \in Nat /\ now' \in Nat /\ now <= now' /\ Floor \in Int /\ Floor' \in Int /\ Floor <= Floor'
      /\ prog.to \in Int /\ prog.from \in Int
  BY <1>1, FloorType, FloorTypeNext, FloorGrows DEF UpkeepInv, PastKept
<1>3. \A e \in Entries : e[1] \in Jobs /\ at[e] \in Int /\ at'[e] \in Int
  <2>1. \A e \in Entries : e[1] \in Jobs  BY DEF Entries
  <2>2. \A x \in Hours \cup {NoHour} : x \in Int  BY SizeAssumption DEF Hours, NoHour
  <2>. QED  BY <2>1, <2>2 DEF UpkeepInv, UpkeepShape
<1>4. \A h \in Hours : h \in Int /\ 0 <= h  BY SizeAssumption DEF Hours
<1>5. ASSUME NEW h \in Hours, h < now PROVE Raw(h)' \subseteq Raw(h) /\ Logged(h)' \subseteq Logged(h)
  <2>1. SUFFICES ASSUME NEW e \in Entries, at'[e] = h, e[2] = 0 \/ e \in log'
                 PROVE  /\ at[e] = h /\ (e[2] = 0 \/ e \in log)
                        /\ Exists(e[1])' => Exists(e[1])
    BY DEF Raw, Logged
  <2>2. at[e] = h /\ (e \in log' => e \in log)  BY <1>2, <1>4, <1>5, <2>1 DEF PastKept
  <2>3. job[e[1]].st # "absent"  BY <1>4, <2>2 DEF UpkeepInv, Dated, NoHour
  <2>. QED  BY <1>3, <2>1, <2>2, <2>3 DEF PastKept
<1>6. ProgressOK'
  <2>1. prog # NoProgress => /\ 0 <= prog.from /\ prog.from <= prog.to /\ prog.to <= now
                             /\ 0 <= prog.retain /\ prog.retain <= now
    BY DEF UpkeepInv, ProgressOK
  <2>2. prog' = prog /\ prog.retain \in Int  BY FloorType DEF UpkeepInv
  <2>. QED  BY <1>2, <2>1, <2>2 DEF ProgressOK
<1>7. CoveredWhole'
  <2>1. SUFFICES ASSUME NEW h \in Hours, Covers(prog, h), Floor' <= h, NEW e \in Logged(h)'
                 PROVE  e \in rows[h] \cup lost \cup Pending'
    BY DEF CoveredWhole, Whole
  <2>2. h < now
    <3>1. prog # NoProgress  BY <1>4, <2>1 DEF Covers, NoProgress, NoHour
    <3>. QED  BY <1>2, <1>4, <2>1, <3>1 DEF UpkeepInv, ProgressOK, Covers
  <2>3. e \in Logged(h)  BY <1>5, <2>1, <2>2
  <2>4. e \in rows[h] \cup lost \cup Pending
    BY <1>2, <1>4, <2>1, <2>3 DEF UpkeepInv, CoveredWhole, Whole
  <2>5. e \in Pending => e \in Pending'
    <3>1. e \in Entries /\ at[e] = h /\ at'[e] = h  BY <2>1, <2>3 DEF Logged
    <3>. QED  BY <3>1 DEF Pending, PastKept
  <2>. QED  BY <2>4, <2>5
<1>8. UncoveredBare'
  BY <1>2, <1>4 DEF UpkeepInv, UncoveredBare
<1>9. DeletedCounted'
  <2>1. SUFFICES ASSUME NEW e \in Entries, job'[e[1]].st = "deleted", Floor' <= at'[e],
                        e[2] = 0 \/ e \in log', at'[e] # NoHour
                 PROVE  e \in rows[at'[e]] \cup lost
    BY DEF DeletedCounted
  <2>2. job[e[1]].st = "deleted" /\ at'[e] = at[e] /\ (e[2] = 0 \/ e \in log)
    BY <1>3, <2>1 DEF PastKept
  <2>3. Floor <= at[e]  BY <1>2, <1>3, <2>1, <2>2
  <2>. QED  BY <2>1, <2>2, <2>3 DEF UpkeepInv, DeletedCounted
<1>10. ASSUME NEW w \in Walkers PROVE WalkOK(walker[w], prog, Floor, now)' /\ ViewOK(w)'
  <2>1. WalkOK(walker[w], prog', Floor', now')  BY <1>1, WalkMoves
  <2>2. \A h \in Uncommitted(w) : Raw(h)' \subseteq Raw(h) \cup lost'
    <3>1. SUFFICES ASSUME NEW h \in Uncommitted(w) PROVE h \in Hours /\ h < now  BY <1>5
    <3>. DEFINE loc == walker[w]
    <3>2. /\ h \in Hours /\ loc.pc \in {"read", "write", "cover"} /\ h < loc.legs[loc.leg][2]
      BY DEF Uncommitted
    <3>3. loc.leg \in OpenLegs(loc.legs) /\ LegsOK(loc.legs, prog, Floor, now)
      BY <3>2 DEF UpkeepInv, WalkOK, PlaceOK, Walking
    <3>4. loc.legs[loc.leg][2] <= now /\ loc.leg \in Legs  BY <3>3 DEF LegsOK, OpenLegs
    <3>5. loc.legs[loc.leg][2] \in Int
      <4>1. loc \in WalkRecord  BY DEF UpkeepInv, UpkeepShape
      <4>. HIDE DEF loc
      <4>. QED  BY <3>4, <4>1 DEF WalkRecord
    <3>. HIDE DEF loc
    <3>. QED  BY <1>2, <1>4, <3>2, <3>4, <3>5
  <2>3. ViewOK(w)'  BY <2>2, ViewKept
  <2>. QED  BY <2>1, <2>3
<1>11. ASSUME NEW p \in Pruners PROVE PruneOK(pruner[p], prog, Oldest)'
  <2>1. PruneOK(pruner[p], prog', Oldest')  BY <1>1, PruneMoves
  <2>. QED  BY <2>1
<1>. QED  BY <1>6, <1>7, <1>8, <1>9, <1>10, <1>11 DEF UpkeepInv

LEMMA EntryParts ==
    ASSUME UpkeepShape, NEW e \in Entries
    PROVE  /\ e[1] \in Jobs /\ e[2] \in 0..MaxRun /\ e = <<e[1], e[2]>>
           /\ at[e] \in Int /\ NoHour <= at[e] /\ at[e] <= LastHour
<1>1. \A x \in Hours \cup {NoHour} : x \in Int /\ NoHour <= x /\ x <= LastHour
  BY SizeAssumption DEF Hours, NoHour
<1>. QED  BY <1>1 DEF Entries, UpkeepShape

LEMMA TurnKeeps ==
    ASSUME UpkeepInv, HourTurns
    PROVE  UpkeepInv'
<1>1. UpkeepShape'
  BY SizeAssumption DEF UpkeepInv, UpkeepShape, HourTurns, upkeep
<1>2. now \in Nat /\ now' = now + 1 /\ at' = at /\ job' = job /\ log' = log
  BY DEF HourTurns, UpkeepInv, UpkeepShape
<1>3. Dated'
  <2>1. \A e \in Entries : at[e] \in Int /\ at[e] <= now  BY EntryParts DEF UpkeepInv, Dated
  <2>2. \A e \in Entries : at[e] <= now + 1  BY <1>2, <2>1
  <2>. QED  BY <1>2, <2>2 DEF UpkeepInv, Dated
<1>4. PastKept  BY <1>2 DEF PastKept, Exists
<1>. QED  BY <1>1, <1>3, <1>4, WorldKeeps DEF HourTurns

LEMMA EnqueueKeeps ==
    ASSUME UpkeepInv, NEW j \in Jobs, Enqueue(j)
    PROVE  UpkeepInv'
<1>. DEFINE e0 == <<j, 0>>
<1>1. /\ now \in Nat /\ now' = now /\ log' = log /\ now \in Hours
      /\ job' = [job EXCEPT ![j].st = "live"] /\ job \in [Jobs -> JobRecord]
      /\ at' = [at EXCEPT ![e0] = now] /\ at \in [Entries -> Hours \cup {NoHour}]
      /\ job[j].st = "absent" /\ e0 \in Entries
  BY SizeAssumption, SMTT(40) DEF UpkeepInv, UpkeepShape, Enqueue, Hours, Entries
<1>. HIDE DEF e0
<1>2. /\ at' \in [Entries -> Hours \cup {NoHour}] /\ at'[e0] = now
      /\ \A e \in Entries : e # e0 => at'[e] = at[e]
  BY <1>1
<1>3. /\ job' \in [Jobs -> JobRecord] /\ job'[j].st = "live"
      /\ \A k \in Jobs : k # j => job'[k] = job[k]
  BY <1>1 DEF JobRecord
<1>4. UpkeepShape'  BY <1>1, <1>2, <1>3 DEF UpkeepInv, UpkeepShape, Enqueue, upkeep
<1>5. Dated'
  <2>1. \A e \in Entries : at'[e] <= now
    BY <1>1, <1>2 DEF UpkeepInv, Dated
  <2>2. \A e \in log : at'[e] # NoHour
    <3>1. now # NoHour  BY <1>1 DEF NoHour
    <3>. QED  BY <1>1, <1>2, <3>1 DEF UpkeepInv, UpkeepShape, Dated
  <2>3. \A e \in Entries : job'[e[1]].st = "absent" => at'[e] = NoHour
    <3>1. e0[1] = j  BY DEF e0
    <3>. QED  BY <1>1, <1>2, <1>3, <3>1, EntryParts DEF UpkeepInv, Dated
  <2>. QED  BY <1>1, <2>1, <2>2, <2>3 DEF Dated
<1>6. PastKept
  <2>1. \A k \in Jobs : job'[k].st = "deleted" => job[k].st = "deleted"  BY <1>1, <1>3
  <2>2. \A k \in Jobs : Exists(k)' => Exists(k) \/ job[k].st = "absent"  BY <1>1, <1>3 DEF Exists
  <2>3. \A e \in Entries : at'[e] = at[e] \/ (at'[e] = now /\ job'[e[1]].st # "deleted")
    <3>1. e0[1] = j  BY DEF e0
    <3>. QED  BY <1>2, <1>3, <3>1
  <2>. QED  BY <1>1, <2>1, <2>2, <2>3 DEF PastKept
<1>. QED  BY <1>4, <1>5, <1>6, WorldKeeps DEF Enqueue

\* Steps of a job that date nothing: it starts, is cancelled or is retried.
LEMMA JobStepKeeps ==
    ASSUME UpkeepInv, NEW j \in Jobs, NEW r \in JobRecord, job' = [job EXCEPT ![j] = r],
           job[j].st \notin {"absent", "deleted"}, r.st \notin {"absent", "deleted"},
           UNCHANGED <<now, at, log>>, UNCHANGED upkeep
    PROVE  UpkeepInv'
<1>1. /\ job \in [Jobs -> JobRecord] /\ now \in Nat /\ now' = now /\ at' = at /\ log' = log
  BY DEF UpkeepInv, UpkeepShape
<1>2. /\ job' \in [Jobs -> JobRecord] /\ job'[j] = r /\ \A k \in Jobs : k # j => job'[k] = job[k]
  BY <1>1
<1>3. UpkeepShape'  BY <1>1, <1>2 DEF UpkeepInv, UpkeepShape, upkeep
<1>4. Dated'
  <2>1. \A e \in Entries : job'[e[1]].st = "absent" => at[e] = NoHour
    BY <1>2, EntryParts DEF UpkeepInv, Dated
  <2>. QED  BY <1>1, <2>1 DEF UpkeepInv, Dated
<1>5. PastKept  BY <1>1, <1>2 DEF PastKept, Exists
<1>. QED  BY <1>3, <1>4, <1>5, WorldKeeps

LEMMA JobStarts ==
    ASSUME NEW was \in JobRecord, NEW b \in SUBSET Int, NEW a \in Int
    PROVE  /\ [was EXCEPT !.attempt = a, !.busy = b] \in JobRecord
           /\ [was EXCEPT !.attempt = a, !.busy = b].st = was.st
BY DEF JobRecord

LEMMA JobTurns ==
    ASSUME NEW was \in JobRecord, NEW f \in Int, NEW s \in {"live", "succeeded", "cancelled"}
    PROVE  /\ [was EXCEPT !.st = s, !.fin = f] \in JobRecord
           /\ [was EXCEPT !.st = s, !.fin = f].st = s
BY DEF JobRecord, Terminal

LEMMA StartKeeps ==
    ASSUME UpkeepInv, NEW j \in Jobs, Start(j)
    PROVE  UpkeepInv'
<1>. DEFINE r == [job[j] EXCEPT !.attempt = @ + 1, !.busy = @ \cup {job[j].attempt + 1}]
<1>1. job \in [Jobs -> JobRecord]  BY DEF UpkeepInv, UpkeepShape
<1>2. r \in JobRecord /\ r.st = job[j].st
  <2>1. job[j] \in JobRecord /\ job[j].attempt + 1 \in Int
        /\ job[j].busy \cup {job[j].attempt + 1} \in SUBSET Int
    BY <1>1 DEF JobRecord
  <2>. DEFINE a == job[j].attempt + 1
              b == job[j].busy \cup {a}
  <2>2. r = [job[j] EXCEPT !.attempt = a, !.busy = b]  BY <2>1 DEF JobRecord
  <2>3. a \in Int /\ b \in SUBSET Int  BY <2>1
  <2>. HIDE DEF a, b, r
  <2>. QED  BY <2>1, <2>2, <2>3, JobStarts
<1>3. job' = [job EXCEPT ![j] = r]  BY <1>1 DEF Start, JobRecord
<1>. HIDE DEF r
<1>. QED  BY <1>2, <1>3, JobStepKeeps DEF Start

LEMMA CancelKeeps ==
    ASSUME UpkeepInv, NEW j \in Jobs, Cancel(j)
    PROVE  UpkeepInv'
<1>. DEFINE r == [job[j] EXCEPT !.st = "cancelled", !.fin = now]
<1>1. job \in [Jobs -> JobRecord] /\ now \in Int  BY DEF UpkeepInv, UpkeepShape
<1>2. r \in JobRecord /\ r.st = "cancelled"  BY <1>1 DEF JobRecord, Terminal
<1>3. job' = [job EXCEPT ![j] = r]  BY <1>1 DEF Cancel, JobRecord
<1>. HIDE DEF r
<1>. QED  BY <1>2, <1>3, JobStepKeeps DEF Cancel

LEMMA RetryKeeps ==
    ASSUME UpkeepInv, NEW j \in Jobs, Retry(j)
    PROVE  UpkeepInv'
<1>. DEFINE r == [job[j] EXCEPT !.st = "live", !.fin = NoHour]
<1>1. job \in [Jobs -> JobRecord]  BY DEF UpkeepInv, UpkeepShape
<1>2. r \in JobRecord /\ r.st = "live"
  <2>1. job[j] \in JobRecord /\ NoHour \in Int  BY <1>1 DEF NoHour
  <2>. QED  BY <2>1, JobTurns
<1>3. job' = [job EXCEPT ![j] = r]  BY <1>1 DEF Retry, JobRecord
<1>. HIDE DEF r
<1>. QED  BY <1>2, <1>3, JobStepKeeps DEF Retry, Terminal

LEMMA FinishKeeps ==
    ASSUME UpkeepInv, NEW j \in Jobs, NEW a \in Runs, NEW ends, NEW old, Finish(j, a, ends, old)
    PROVE  UpkeepInv'
<1>. DEFINE ea == <<j, a>>
            was == job[j]
            rest == was.busy \ {a}
            r == IF ends /\ was.st = "live" /\ a = was.attempt
                 THEN [was EXCEPT !.busy = rest, !.st = "succeeded", !.fin = now]
                 ELSE [was EXCEPT !.busy = rest]
<1>1. /\ now \in Nat /\ now' = now /\ now \in Hours
      /\ log' = IF old THEN log ELSE log \cup {ea}
      /\ job' = [job EXCEPT ![j] = r] /\ job \in [Jobs -> JobRecord]
      /\ at' = [at EXCEPT ![ea] = now] /\ at \in [Entries -> Hours \cup {NoHour}]
      /\ was.st \notin {"absent", "deleted"} /\ ea \in Entries /\ log \in SUBSET Entries
  <2>1. ea \in Entries  BY SizeAssumption DEF Entries, Runs
  <2>2. now \in Nat /\ now' = now /\ now \in Hours
    BY SizeAssumption DEF UpkeepInv, UpkeepShape, Finish, Hours
  <2>3. job \in [Jobs -> JobRecord] /\ at \in [Entries -> Hours \cup {NoHour}] /\ log \in SUBSET Entries
    BY DEF UpkeepInv, UpkeepShape
  <2>4. was.st \notin {"absent", "deleted"}  BY DEF Finish, Exists
  <2>5. log' = (IF old THEN log ELSE log \cup {ea}) /\ at' = [at EXCEPT ![ea] = now]
    BY DEF Finish
  <2>6. job' = [job EXCEPT ![j] = r]  BY Zenon DEF Finish
  <2>. HIDE DEF r, ea, was
  <2>. QED  BY <2>1, <2>2, <2>3, <2>4, <2>5, <2>6
<1>2. was \in JobRecord  BY <1>1
<1>. HIDE DEF ea, was
<1>3. r \in JobRecord /\ r.st \notin {"absent", "deleted"}
  <2>1. rest \in SUBSET Int  BY <1>2 DEF JobRecord
  <2>2. now \in Int  BY <1>1
  <2>. HIDE DEF rest
  <2>3. /\ [was EXCEPT !.busy = rest] \in JobRecord
        /\ [was EXCEPT !.busy = rest].st = was.st
        /\ [was EXCEPT !.busy = rest, !.st = "succeeded", !.fin = now] \in JobRecord
        /\ [was EXCEPT !.busy = rest, !.st = "succeeded", !.fin = now].st = "succeeded"
    <3>. HIDE DEF r
    <3>. QED  BY <1>2, <2>1, <2>2 DEF JobRecord, Terminal
  <2>. QED  BY <1>1, <2>3
<1>. HIDE DEF r
<1>4. /\ at' \in [Entries -> Hours \cup {NoHour}] /\ at'[ea] = now
      /\ \A e \in Entries : e # ea => at'[e] = at[e]
  BY <1>1
<1>5. /\ job' \in [Jobs -> JobRecord] /\ job'[j] = r
      /\ \A k \in Jobs : k # j => job'[k] = job[k]
  BY <1>1, <1>3
<1>6. log' \in SUBSET Entries /\ log \subseteq log' /\ \A e \in log' : e # ea => e \in log
  BY <1>1
<1>7. UpkeepShape'  BY <1>1, <1>4, <1>5, <1>6 DEF UpkeepInv, UpkeepShape, Finish, upkeep
<1>8. ea[1] = j /\ now # NoHour  BY <1>1 DEF ea, NoHour
<1>9. Dated'
  <2>1. \A e \in Entries : at'[e] <= now
    BY <1>1, <1>4 DEF UpkeepInv, Dated
  <2>2. \A e \in log' : at'[e] # NoHour
    BY <1>1, <1>4, <1>6, <1>8 DEF UpkeepInv, UpkeepShape, Dated
  <2>3. \A e \in Entries : job'[e[1]].st = "absent" => at'[e] = NoHour
    BY <1>1, <1>3, <1>4, <1>5, <1>8, EntryParts DEF UpkeepInv, Dated
  <2>. QED  BY <1>1, <2>1, <2>2, <2>3 DEF Dated
<1>10. PastKept
  <2>1. \A k \in Jobs : job'[k].st = "deleted" => job[k].st = "deleted"  BY <1>3, <1>5
  <2>2. \A k \in Jobs : Exists(k)' => Exists(k)  BY <1>1, <1>5 DEF Exists, was
  <2>3. \A e \in Entries : \/ at'[e] = at[e] /\ (e \in log' => e \in log)
                           \/ at'[e] = now /\ job'[e[1]].st # "deleted"
    BY <1>3, <1>4, <1>5, <1>6, <1>8
  <2>. QED  BY <1>1, <1>6, <2>1, <2>2, <2>3 DEF PastKept
<1>. QED  BY <1>7, <1>9, <1>10, WorldKeeps DEF Finish

----------------------------------------------------------------------------
(* Walks. *)

LEMMA WalkerStep ==
    ASSUME UpkeepInv, NEW w \in Walkers, UNCHANGED jobVars, pruner' = pruner,
           UpkeepShape', Moves, \A x \in Walkers : x # w => walker'[x] = walker[x],
           WalkOK(walker'[w], prog', Floor', now'), ViewOK(w)',
           ProgressOK', CoveredWhole', UncoveredBare', DeletedCounted'
    PROVE  UpkeepInv'
<1>1. now' = now /\ job' = job /\ at' = at /\ log' = log  BY DEF jobVars
<1>2. Dated'  BY <1>1 DEF UpkeepInv, Dated
<1>3. \A h : Raw(h)' = Raw(h)  BY <1>1 DEF Raw, Exists
<1>4. ASSUME NEW x \in Walkers PROVE WalkOK(walker[x], prog, Floor, now)' /\ ViewOK(x)'
  <2>1. CASE x = w  BY <2>1
  <2>2. CASE x # w
    <3>1. walker'[x] = walker[x]  BY <2>2
    <3>2. WalkOK(walker[x], prog', Floor', now')  BY WalkMoves
    <3>3. ViewOK(x)'  BY <1>3, <3>1, ViewKept DEF Moves
    <3>. QED  BY <3>1, <3>2, <3>3
  <2>. QED  BY <2>1, <2>2
<1>5. ASSUME NEW p \in Pruners PROVE PruneOK(pruner[p], prog, Oldest)'
  <2>1. PruneOK(pruner[p], prog', Oldest')  BY PruneMoves
  <2>. QED  BY <2>1
<1>. QED  BY <1>2, <1>4, <1>5 DEF UpkeepInv

LEMMA PendingKept ==
    ASSUME NEW w \in Walkers, at' = at, log' = log, \A x \in Walkers : x # w => walker'[x] = walker[x],
           NEW e \in Pending, at[e] \in walker[w].todo => at[e] \in walker'[w].todo
    PROVE  e \in Pending'
<1>1. e \in log  BY DEF Pending
<1>2. PICK x \in Walkers : at[e] \in walker[x].todo  BY DEF Pending
<1>3. at'[e] \in walker'[x].todo  BY <1>2
<1>. QED  BY <1>1, <1>3 DEF Pending

LEMMA WalkerSet ==
    ASSUME UpkeepShape, NEW w \in Walkers, NEW r \in WalkRecord, walker' = [walker EXCEPT ![w] = r]
    PROVE  /\ walker' \in [Walkers -> WalkRecord] /\ walker'[w] = r
           /\ \A x \in Walkers : x # w => walker'[x] = walker[x]
BY DEF UpkeepShape

\* A step that changes a walk's locals, and excuses what it forgets.
LEMMA LocalStep ==
    ASSUME UpkeepInv, NEW w \in Walkers, UNCHANGED jobVars, UNCHANGED <<rows, prog, pruner>>,
           NEW r \in WalkRecord, walker' = [walker EXCEPT ![w] = r],
           WalkOK(r, prog, Floor, now), ViewOK(w)', lost \subseteq lost', lost' \in SUBSET Entries,
           \A e \in Pending : Covers(prog, at[e]) /\ Floor <= at[e] /\ at[e] \in walker[w].todo
                                => at[e] \in r.todo \/ e \in lost' \cup rows[at[e]]
    PROVE  UpkeepInv'
<1>. USE DEF jobVars
<1>1. /\ now' = now /\ job' = job /\ at' = at /\ log' = log /\ rows' = rows /\ prog' = prog
      /\ pruner' = pruner /\ UpkeepShape
  BY DEF UpkeepInv
<1>2. /\ walker' \in [Walkers -> WalkRecord] /\ walker'[w] = r
      /\ \A x \in Walkers : x # w => walker'[x] = walker[x]
  BY <1>1, WalkerSet
<1>3. UpkeepShape'  BY <1>1, <1>2 DEF UpkeepShape
<1>4. Floor' = Floor  BY <1>1 DEF Floor, Oldest
<1>5. Moves
  <2>1. prog.to \in Int /\ prog.from \in Int /\ now \in Nat  BY <1>1, FloorType
  <2>. QED  BY <1>1, <2>1 DEF Moves
<1>6. ProgressOK' /\ UncoveredBare'
  BY <1>1, <1>4 DEF UpkeepInv, ProgressOK, UncoveredBare
<1>7. DeletedCounted'
  BY <1>1, <1>4 DEF UpkeepInv, DeletedCounted
<1>8. CoveredWhole'
  <2>1. SUFFICES ASSUME NEW h \in Hours, Covers(prog, h), Floor <= h, NEW e \in Logged(h)
                 PROVE  e \in rows[h] \cup lost' \cup Pending'
    BY <1>1, <1>4 DEF CoveredWhole, Whole, Logged
  <2>2. e \in rows[h] \cup lost \cup Pending /\ at[e] = h
    BY <2>1 DEF UpkeepInv, CoveredWhole, Whole, Logged
  <2>3. CASE e \in Pending
    <3>1. at[e] \in walker[w].todo => at[e] \in walker'[w].todo \/ e \in lost' \cup rows[h]
      BY <1>2, <2>1, <2>2, <2>3
    <3>2. CASE at[e] \in walker[w].todo => at[e] \in walker'[w].todo
      BY <1>1, <1>2, <2>3, <3>2, PendingKept
    <3>. QED  BY <3>1, <3>2
  <2>. QED  BY <2>2, <2>3
<1>9. WalkOK(walker'[w], prog', Floor', now')  BY <1>1, <1>2, <1>4
<1>. QED  BY <1>1, <1>2, <1>3, <1>5, <1>6, <1>7, <1>8, <1>9, WalkerStep

LEMMA FailKeeps ==
    ASSUME UpkeepInv, NEW w \in Walkers, WalkFails(w)
    PROVE  UpkeepInv'
<1>. DEFINE r == Idle(walker[w].backfills)
            Forgotten == {e \in log : /\ at[e] \in walker[w].todo /\ Covers(prog, at[e])
                                      /\ e \notin rows[at[e]]}
<1>1. walker[w] \in WalkRecord /\ UpkeepShape  BY DEF UpkeepInv, UpkeepShape
<1>2. r \in WalkRecord /\ r.pc = "idle" /\ r.op = "none" /\ r.todo = {}
  <2>1. walker[w].backfills \in Int  BY <1>1 DEF WalkRecord
  <2>. QED  BY <2>1, IdleFields
<1>3. walker' = [walker EXCEPT ![w] = r] /\ lost' = lost \cup Forgotten
  BY DEF WalkFails
<1>. HIDE DEF r
<1>4. WalkOK(r, prog, Floor, now) /\ Fresh(r)  BY <1>2 DEF WalkOK, Walking, Fresh
<1>5. lost \subseteq lost' /\ lost' \in SUBSET Entries  BY <1>1, <1>3 DEF UpkeepShape
<1>6. walker'[w] = r /\ walker' \in [Walkers -> WalkRecord]  BY <1>1, <1>2, <1>3, WalkerSet
<1>7. UpkeepShape'  BY <1>1, <1>5, <1>6 DEF UpkeepShape, WalkFails, jobVars
<1>8. ViewOK(w)'  BY <1>4, <1>6, <1>7, FreshViewed
<1>9. \A e \in Pending : at[e] \in walker[w].todo /\ Covers(prog, at[e]) => e \in lost' \cup rows[at[e]]
  BY <1>3 DEF Pending
<1>. QED  BY <1>2, <1>3, <1>4, <1>5, <1>8, <1>9, LocalStep DEF WalkFails

LEMMA RangeFacts ==
    ASSUME UpkeepInv
    PROVE  /\ prog.to <= now /\ prog.from <= prog.to /\ prog.retain <= now
           /\ \A h \in Nat : Covers(prog, h) => prog # NoProgress /\ h < now
<1>1. /\ prog.from \in Int /\ prog.to \in Int /\ now \in Nat  BY FloorType DEF UpkeepInv
<1>2. CASE prog = NoProgress
  <2>1. prog.from = -1 /\ prog.to = -1 /\ prog.retain = -1  BY <1>2 DEF NoProgress, NoHour
  <2>. QED  BY <1>1, <2>1 DEF Covers
<1>3. CASE prog # NoProgress
  <2>1. prog.from <= prog.to /\ prog.to <= now /\ prog.retain <= now  BY <1>3 DEF UpkeepInv, ProgressOK
  <2>. QED  BY <1>1, <1>3, <2>1 DEF Covers
<1>. QED  BY <1>2, <1>3

LEMMA RerollStepKeeps ==
    ASSUME UpkeepInv, NEW w \in Walkers, RerollCoveredHours(w)
    PROVE  UpkeepInv'
<1>. DEFINE was == walker[w]
            left == {h \in was.todo : Covers(prog, h)}
            loc == [was EXCEPT !.left = -1, !.todo = left]
            r == Reroll(loc)
<1>1. was \in WalkRecord /\ UpkeepShape /\ WalkOK(was, prog, Floor, now)  BY DEF UpkeepInv, UpkeepShape
<1>2. was.pc = "reroll" /\ walker' = [walker EXCEPT ![w] = r]  BY DEF RerollCoveredHours
<1>. HIDE DEF was
<1>3. was.op = "reroll" /\ was.todo \in SUBSET Hours  BY <1>1, <1>2 DEF WalkOK, WalkRecord
<1>4. left \in SUBSET Hours  BY <1>3
<1>. HIDE DEF left
<1>5. loc \in WalkRecord /\ loc.op = "reroll" /\ loc.left = -1 /\ loc.todo = left
  <2>. DEFINE m == -1
  <2>1. m \in Int  OBVIOUS
  <2>. HIDE DEF m
  <2>2. [was EXCEPT !.left = m, !.todo = left] \in WalkRecord  BY <1>1, <1>4, <2>1 DEF WalkRecord
  <2>3. loc \in WalkRecord  BY <2>2 DEF m
  <2>4. loc.op = was.op /\ loc.left = -1 /\ loc.todo = left  BY <1>1 DEF WalkRecord
  <2>. QED  BY <1>3, <2>3, <2>4
<1>. HIDE DEF loc
<1>6. /\ \A h \in left : Covers(prog, h) /\ h + 1 <= now
      /\ left # {} => prog # NoProgress
  <2>1. \A h \in left : h \in Nat /\ Covers(prog, h)  BY <1>4, SizeAssumption DEF left, Hours
  <2>2. now \in Nat  BY FloorType, <1>1
  <2>. QED  BY <2>1, <2>2, RangeFacts
<1>7. prog \in Progress /\ Floor \in Int /\ now \in Int /\ prog.to <= now
  BY <1>1, FloorType, RangeFacts
<1>8. r \in WalkRecord /\ WalkOK(r, prog, Floor, now) /\ Fresh(r) /\ r.todo = left
  BY <1>5, <1>6, <1>7, RerollKeeps
<1>. HIDE DEF r
<1>9. walker'[w] = r /\ walker' \in [Walkers -> WalkRecord]  BY <1>1, <1>2, <1>8, WalkerSet
<1>10. UpkeepShape'  BY <1>1, <1>9 DEF UpkeepShape, RerollCoveredHours, jobVars
<1>11. ViewOK(w)'  BY <1>8, <1>9, <1>10, FreshViewed
<1>12. \A e \in Pending : Covers(prog, at[e]) /\ at[e] \in walker[w].todo => at[e] \in r.todo
  BY <1>8 DEF left, was
<1>13. lost' = lost /\ lost \in SUBSET Entries  BY <1>1 DEF RerollCoveredHours, UpkeepShape
<1>. QED  BY <1>2, <1>8, <1>11, <1>12, <1>13, LocalStep DEF RerollCoveredHours

LEMMA ProbeKeeps ==
    ASSUME UpkeepInv, NEW w \in Walkers, Probe(w)
    PROVE  UpkeepInv'
<1>. DEFINE was == walker[w]
            i == was.leg
            lo == was.legs[i][1]
            hi == was.legs[i][2]
            active == {h \in lo .. (hi - 1) : Raw(h) # {}}
            r == IF active = {} THEN [was EXCEPT !.pc = "cover"]
                 ELSE [was EXCEPT !.pc = "read",
                                  !.hour = IF Upward(i) THEN Min(active) ELSE Max(active)]
<1>1. was \in WalkRecord /\ UpkeepShape /\ WalkOK(was, prog, Floor, now)  BY DEF UpkeepInv, UpkeepShape
<1>2. was.pc = "walk" /\ walker' = [walker EXCEPT ![w] = r]  BY DEF Probe
<1>. HIDE DEF was
<1>3. /\ was.op \notin {"reroll", "none"} /\ was.todo = {} /\ prog # NoProgress
      /\ PlaceOK(was) /\ LegsOK(was.legs, prog, Floor, now)
  BY <1>1, <1>2 DEF WalkOK, Walking
<1>4. i \in OpenLegs(was.legs) /\ ~EveryHour(i) /\ was.hour = NoHour  BY <1>2, <1>3 DEF PlaceOK
<1>5. i \in Legs /\ lo \in Int /\ hi \in Int /\ 0 <= lo
  <2>1. i \in Legs  BY <1>4 DEF OpenLegs
  <2>2. was.legs \in [Legs -> Int \X Int]  BY <1>1 DEF WalkRecord
  <2>. QED  BY <1>3, <1>4, <2>1, <2>2 DEF LegsOK
<1>. HIDE DEF i, lo, hi
<1>6. \A h \in active : h \in Nat /\ lo <= h /\ h < hi  BY <1>5
<1>7. active # {} => /\ Min(active) \in active /\ \A h \in active : Min(active) <= h
                     /\ Max(active) \in active /\ \A h \in active : h <= Max(active)
  <2>1. SUFFICES ASSUME active # {}
                 PROVE  /\ Min(active) \in active /\ \A h \in active : Min(active) <= h
                        /\ Max(active) \in active /\ \A h \in active : h <= Max(active)
    OBVIOUS
  <2>2. hi \in Nat /\ active \in SUBSET Nat /\ \A h \in active : h <= hi  BY <1>5, <1>6, <2>1
  <2>. HIDE DEF active
  <2>. QED  BY <2>1, <2>2, LeastElement, GreatestElement
<1>8. ASSUME NEW h \in Hours, lo <= h, h < hi, h \notin active PROVE Raw(h) = {}
  BY <1>5, <1>8, SizeAssumption DEF Hours
<1>. DEFINE hour == IF Upward(i) THEN Min(active) ELSE Max(active)
<1>9. active # {} => hour \in Nat /\ lo <= hour /\ hour < hi  BY <1>6, <1>7
<1>. HIDE DEF active
<1>10. /\ r \in WalkRecord /\ r.op = was.op /\ r.todo = {} /\ r.leg = i /\ r.legs = was.legs
       /\ r.earliest = was.earliest
       /\ active = {} => r.pc = "cover" /\ r.hour = NoHour
       /\ active # {} => r.pc = "read" /\ r.hour = hour
  <2>1. CASE active = {}  BY <1>1, <1>3, <1>4, <2>1 DEF WalkRecord, i
  <2>2. CASE active # {}
    <3>1. hour \in Int  BY <1>9, <2>2
    <3>2. r = [was EXCEPT !.pc = "read", !.hour = hour]  BY <2>2
    <3>. HIDE DEF r, hour
    <3>. QED  BY <1>1, <1>3, <2>2, <3>1, <3>2 DEF WalkRecord, i
  <2>. QED  BY <2>1, <2>2
<1>. HIDE DEF r
<1>11. PlaceOK(r)
  <2>1. r.leg \in OpenLegs(r.legs) /\ (\A k \in OpenLegs(r.legs) : r.leg <= k) /\ ~EveryHour(r.leg)
    BY <1>3, <1>4, <1>10 DEF PlaceOK, i
  <2>2. CASE active = {}  BY <1>10, <2>1, <2>2 DEF PlaceOK
  <2>3. CASE active # {}
    <3>1. r.hour # NoHour /\ r.legs[r.leg][1] <= r.hour /\ r.hour < r.legs[r.leg][2]
      BY <1>9, <1>10, <2>3 DEF NoHour, lo, hi, i
    <3>. QED  BY <1>10, <2>1, <2>3, <3>1 DEF PlaceOK
  <2>. QED  BY <2>2, <2>3
<1>12. WalkOK(r, prog, Floor, now)
  <2>1. r.pc \in {"cover", "read"}  BY <1>10
  <2>. QED  BY <1>1, <1>3, <1>10, <1>11, <2>1 DEF WalkOK, Walking
<1>13. walker'[w] = r  BY <1>1, <1>2, <1>10, WalkerSet
<1>14. /\ at' = at /\ job' = job /\ log' = log /\ lost' = lost /\ lost \in SUBSET Entries
  BY <1>1 DEF Probe, jobVars, UpkeepShape
<1>15. ViewOK(w)'
  <2>1. SUFFICES ASSUME NEW h \in Uncommitted(w)' PROVE Raw(h) = {}
    BY <1>14 DEF ViewOK, Seen, Raw, Exists
  <2>2. /\ h \in Hours /\ lo <= h /\ h < hi
        /\ \/ r.pc = "cover" \/ r.pc = "write"
           \/ IF Upward(i) THEN h < r.hour ELSE h > r.hour
    BY <1>10, <1>13 DEF Uncommitted, lo, hi, i
  <2>3. h \in Int  BY <2>2, SizeAssumption DEF Hours
  <2>4. h \notin active
    <3>1. CASE active = {}  BY <3>1
    <3>2. CASE active # {}
      <4>1. r.pc = "read" /\ r.hour = hour  BY <1>10, <3>2
      <4>2. IF Upward(i) THEN h < hour ELSE h > hour  BY <2>2, <4>1
      <4>3. hour \in Int  BY <1>9, <3>2
      <4>. QED  BY <1>7, <2>3, <3>2, <4>2, <4>3
    <3>. QED  BY <3>1, <3>2
  <2>. QED  BY <1>8, <2>2, <2>4
<1>16. \A e \in Pending : at[e] \in walker[w].todo => at[e] \in r.todo  BY <1>3, <1>10 DEF was
<1>. QED  BY <1>2, <1>10, <1>12, <1>14, <1>15, <1>16, LocalStep DEF Probe

LEMMA AggregateKeeps ==
    ASSUME UpkeepInv, NEW w \in Walkers, AggregateWindow(w)
    PROVE  UpkeepInv'
<1>. DEFINE was == walker[w]
            win == Raw(was.hour)
            r == [was EXCEPT !.pc = "write", !.win = win]
<1>1. was \in WalkRecord /\ UpkeepShape /\ WalkOK(was, prog, Floor, now)  BY DEF UpkeepInv, UpkeepShape
<1>2. was.pc = "read" /\ walker' = [walker EXCEPT ![w] = r]  BY DEF AggregateWindow
<1>3. ViewOK(w)  BY DEF UpkeepInv
<1>4. win \in SUBSET Entries  BY DEF Raw
<1>. HIDE DEF was, win
<1>5. /\ r \in WalkRecord /\ r.op = was.op /\ r.todo = was.todo /\ r.leg = was.leg /\ r.legs = was.legs
      /\ r.earliest = was.earliest /\ r.pc = "write" /\ r.hour = was.hour /\ r.win = win
      /\ r.left = was.left
  BY <1>1, <1>4 DEF WalkRecord
<1>. HIDE DEF r
<1>6. PlaceOK(r)
  <2>1. PlaceOK(was)  BY <1>1, <1>2 DEF WalkOK, Walking
  <2>. QED  BY <1>2, <1>5, <2>1 DEF PlaceOK
<1>7. WalkOK(r, prog, Floor, now)  BY <1>1, <1>2, <1>5, <1>6 DEF WalkOK, Walking
<1>8. walker'[w] = r  BY <1>1, <1>2, <1>5, WalkerSet
<1>9. /\ at' = at /\ job' = job /\ log' = log /\ lost' = lost /\ lost \in SUBSET Entries
  BY <1>1 DEF AggregateWindow, jobVars, UpkeepShape
<1>10. ViewOK(w)'
  <2>1. SUFFICES ASSUME NEW h \in Uncommitted(w)'
                 PROVE  Raw(h) \subseteq (IF h = r.hour THEN r.win ELSE {}) \cup lost
    BY <1>5, <1>8, <1>9 DEF ViewOK, Seen, Raw, Exists
  <2>2. CASE h = r.hour  BY <1>5, <2>2 DEF win
  <2>3. CASE h # r.hour
    <3>1. h \in Uncommitted(w)  BY <1>2, <1>5, <1>8, <2>3 DEF Uncommitted, was
    <3>. QED  BY <1>2, <1>3, <2>3, <3>1 DEF ViewOK, Seen, was
  <2>. QED  BY <2>2, <2>3
<1>11. \A e \in Pending : at[e] \in walker[w].todo => at[e] \in r.todo  BY <1>5 DEF was
<1>. QED  BY <1>2, <1>5, <1>7, <1>9, <1>10, <1>11, LocalStep DEF AggregateWindow

LEMMA IdleWalk ==
    ASSUME NEW loc \in WalkRecord, NEW p, NEW f, NEW n, WalkOK(loc, p, f, n),
           loc.pc \in {"idle", "floor", "prune"}
    PROVE  loc.todo = {}
BY DEF WalkOK

LEMMA PruneRowsKeeps ==
    ASSUME UpkeepInv, NEW w \in Walkers, PruneRows(w)
    PROVE  UpkeepInv'
<1>. DEFINE was == walker[w]
            r == Idle(was.backfills)
<1>1. was \in WalkRecord /\ UpkeepShape /\ WalkOK(was, prog, Floor, now)  BY DEF UpkeepInv, UpkeepShape
<1>2. /\ was.pc = "prune" /\ walker' = [walker EXCEPT ![w] = r]
      /\ rows' = [h \in Hours |-> IF h < was.earliest THEN {} ELSE rows[h]]
      /\ now' = now /\ job' = job /\ at' = at /\ log' = log /\ prog' = prog /\ lost' = lost
      /\ pruner' = pruner
  BY DEF PruneRows, jobVars
<1>3. was.todo = {} /\ was.earliest <= Floor /\ was.earliest \in Int /\ was.backfills \in Int
  BY <1>1, <1>2 DEF WalkOK, WalkRecord
<1>. HIDE DEF was
<1>4. r \in WalkRecord /\ r.pc = "idle" /\ r.op = "none" /\ r.todo = {}  BY <1>3, IdleFields
<1>. HIDE DEF r
<1>5. WalkOK(r, prog, Floor, now) /\ Fresh(r)  BY <1>4 DEF WalkOK, Walking, Fresh
<1>6. /\ walker'[w] = r /\ walker' \in [Walkers -> WalkRecord]
      /\ \A x \in Walkers : x # w => walker'[x] = walker[x]
  BY <1>1, <1>2, <1>4, WalkerSet
<1>7. UpkeepShape'
  <2>1. rows' \in [Hours -> SUBSET Entries]  BY <1>1, <1>2 DEF UpkeepShape
  <2>. QED  BY <1>1, <1>2, <1>6, <2>1 DEF UpkeepShape
<1>8. ViewOK(w)'  BY <1>5, <1>6, <1>7, FreshViewed
<1>9. Floor' = Floor  BY <1>2 DEF Floor, Oldest
<1>10. /\ prog.to \in Int /\ prog.from \in Int /\ now \in Nat /\ Floor \in Int
       /\ \A h \in Hours : h \in Int
  BY <1>1, FloorType, SizeAssumption DEF Hours
<1>11. Moves  BY <1>2, <1>10 DEF Moves
<1>12. \A h \in Hours : Floor <= h => rows'[h] = rows[h]  BY <1>2, <1>3, <1>10
<1>13. ProgressOK' /\ UncoveredBare'
  BY <1>2, <1>9, <1>12 DEF UpkeepInv, ProgressOK, UncoveredBare
<1>14. DeletedCounted'
  <2>1. SUFFICES ASSUME NEW e \in Entries, job[e[1]].st = "deleted", Floor <= at[e],
                        e[2] = 0 \/ e \in log, at[e] # NoHour
                 PROVE  e \in rows'[at[e]] \cup lost
    BY <1>2, <1>9 DEF DeletedCounted
  <2>2. at[e] \in Hours  BY <1>1, <2>1 DEF UpkeepShape
  <2>3. e \in rows[at[e]] \cup lost  BY <2>1 DEF UpkeepInv, DeletedCounted
  <2>. QED  BY <1>12, <2>1, <2>2, <2>3
<1>15. CoveredWhole'
  <2>1. SUFFICES ASSUME NEW h \in Hours, Covers(prog, h), Floor <= h, NEW e \in Logged(h)
                 PROVE  e \in rows'[h] \cup lost \cup Pending'
    BY <1>2, <1>9 DEF CoveredWhole, Whole, Logged
  <2>2. e \in rows[h] \cup lost \cup Pending  BY <2>1 DEF UpkeepInv, CoveredWhole, Whole
  <2>3. e \in Pending => e \in Pending'  BY <1>2, <1>3, <1>6, PendingKept DEF was
  <2>. QED  BY <1>12, <2>1, <2>2, <2>3
<1>16. WalkOK(walker'[w], prog', Floor', now')  BY <1>2, <1>5, <1>6, <1>9
<1>. QED  BY <1>6, <1>7, <1>8, <1>11, <1>13, <1>14, <1>15, <1>16, WalkerStep DEF PruneRows

LEMMA BackfillKeeps ==
    ASSUME UpkeepInv, NEW w \in Walkers, BackfillRunFinishes(w)
    PROVE  UpkeepInv'
<1>. DEFINE was == walker[w]
            found == {e \in Entries : /\ e[2] # 0 /\ at[e] # NoHour
                                      /\ e \notin log /\ Exists(e[1])}
            hours == {at[e] : e \in found}
            r == [was EXCEPT !.pc = "reroll", !.op = "reroll", !.todo = hours]
<1>1. was \in WalkRecord /\ UpkeepShape /\ WalkOK(was, prog, Floor, now)  BY DEF UpkeepInv, UpkeepShape
<1>2. /\ was.pc = "idle" /\ walker' = [walker EXCEPT ![w] = r] /\ log' = log \cup found
      /\ lost' = lost \cup {e \in found : \E x \in Walkers \ {w} : at[e] \in Uncommitted(x)}
      /\ now' = now /\ job' = job /\ at' = at /\ prog' = prog /\ rows' = rows /\ pruner' = pruner
  BY DEF BackfillRunFinishes, StartsWithBackfill
<1>3. was.todo = {}  BY <1>1, <1>2, IdleWalk
<1>4. \A e \in found : e \in Entries /\ at[e] \in Hours /\ at[e] # NoHour /\ Exists(e[1]) /\ at[e] \in hours
  BY <1>1 DEF UpkeepShape
<1>5. hours \in SUBSET Hours  BY <1>4
<1>. HIDE DEF was, found, hours
<1>6. r \in WalkRecord /\ r.pc = "reroll" /\ r.op = "reroll" /\ r.todo = hours
  BY <1>1, <1>5 DEF WalkRecord
<1>. HIDE DEF r
<1>7. WalkOK(r, prog, Floor, now) /\ Fresh(r)  BY <1>6 DEF WalkOK, Walking, Fresh
<1>8. /\ walker'[w] = r /\ walker' \in [Walkers -> WalkRecord]
      /\ \A x \in Walkers : x # w => walker'[x] = walker[x]
  BY <1>1, <1>2, <1>6, WalkerSet
<1>9. UpkeepShape'
  <2>1. log' \in SUBSET Entries /\ lost' \in SUBSET Entries  BY <1>1, <1>2, <1>4 DEF UpkeepShape
  <2>. QED  BY <1>1, <1>2, <1>8, <2>1 DEF UpkeepShape
<1>10. ViewOK(w)'  BY <1>7, <1>8, <1>9, FreshViewed
<1>11. Floor' = Floor  BY <1>2 DEF Floor, Oldest
<1>12. Moves
  <2>1. prog.to \in Int /\ prog.from \in Int /\ now \in Nat  BY <1>1, FloorType
  <2>2. lost \subseteq lost'  BY <1>2
  <2>. QED  BY <1>2, <2>1, <2>2 DEF Moves
<1>13. Dated'  BY <1>2, <1>4 DEF UpkeepInv, Dated
<1>14. ProgressOK' /\ UncoveredBare'
  BY <1>2, <1>11 DEF UpkeepInv, ProgressOK, UncoveredBare
<1>15. DeletedCounted'
  <2>1. SUFFICES ASSUME NEW e \in Entries, job[e[1]].st = "deleted", Floor <= at[e],
                        e[2] = 0 \/ e \in log', at[e] # NoHour
                 PROVE  e \in rows[at[e]] \cup lost'
    BY <1>2, <1>11 DEF DeletedCounted
  <2>2. e \notin found  BY <1>4, <2>1 DEF Exists
  <2>3. e[2] = 0 \/ e \in log  BY <1>2, <2>1, <2>2
  <2>4. e \in rows[at[e]] \cup lost  BY <2>1, <2>3 DEF UpkeepInv, DeletedCounted
  <2>. QED  BY <1>2, <2>4
<1>16. ASSUME NEW e \in Pending PROVE e \in Pending'
  <2>1. e \in log /\ \E x \in Walkers : at[e] \in walker[x].todo  BY DEF Pending
  <2>2. PICK x \in Walkers : at[e] \in walker[x].todo  BY <2>1
  <2>3. x # w  BY <1>3, <2>2 DEF was
  <2>4. at'[e] \in walker'[x].todo  BY <1>2, <1>8, <2>2, <2>3
  <2>. QED  BY <1>2, <2>1, <2>4 DEF Pending
<1>17. CoveredWhole'
  <2>1. SUFFICES ASSUME NEW h \in Hours, Covers(prog, h), Floor <= h,
                        NEW e \in Entries, at[e] = h, e[2] = 0 \/ e \in log'
                 PROVE  e \in rows[h] \cup lost' \cup Pending'
    BY <1>2, <1>11 DEF CoveredWhole, Whole, Logged
  <2>2. CASE e \in found
    <3>1. at'[e] \in walker'[w].todo /\ e \in log'  BY <1>2, <1>4, <1>6, <1>8, <2>2
    <3>. QED  BY <3>1 DEF Pending
  <2>3. CASE e \notin found
    <3>1. e \in Logged(h)  BY <1>2, <2>1, <2>3 DEF Logged
    <3>2. e \in rows[h] \cup lost \cup Pending  BY <2>1, <3>1 DEF UpkeepInv, CoveredWhole, Whole
    <3>. QED  BY <1>2, <1>16, <3>2
  <2>. QED  BY <2>2, <2>3
<1>18. ASSUME NEW x \in Walkers PROVE WalkOK(walker[x], prog, Floor, now)' /\ ViewOK(x)'
  <2>1. CASE x = w  BY <1>2, <1>7, <1>8, <1>10, <1>11, <2>1
  <2>2. CASE x # w
    <3>1. walker'[x] = walker[x]  BY <1>8, <2>2
    <3>2. WalkOK(walker[x], prog', Floor', now')  BY <1>9, <1>12, WalkMoves
    <3>3. \A h \in Uncommitted(x) : Raw(h)' \subseteq Raw(h) \cup lost'
      <4>1. SUFFICES ASSUME NEW h \in Uncommitted(x), NEW e \in Entries, at[e] = h, Exists(e[1]),
                            e[2] = 0 \/ e \in log'
                     PROVE  e \in Raw(h) \cup lost'
        BY <1>2 DEF Raw, Exists
      <4>2. CASE e \in found  BY <1>2, <2>2, <4>1, <4>2
      <4>3. CASE e \notin found  BY <1>2, <4>1, <4>3 DEF Raw
      <4>. QED  BY <4>2, <4>3
    <3>4. ViewOK(x)'  BY <1>12, <3>1, <3>3, ViewKept DEF Moves
    <3>. QED  BY <3>1, <3>2, <3>4
  <2>. QED  BY <2>1, <2>2
<1>19. ASSUME NEW p \in Pruners PROVE PruneOK(pruner[p], prog, Oldest)'
  <2>1. PruneOK(pruner[p], prog', Oldest')  BY <1>9, <1>12, PruneMoves
  <2>. QED  BY <1>2, <2>1
<1>. QED  BY <1>9, <1>13, <1>14, <1>15, <1>17, <1>18, <1>19 DEF UpkeepInv

\* What a step keeps when it extends no range, and raises its edges at most to the
\* floor.
LEMMA RangeKept ==
    ASSUME UpkeepInv, NEW w \in Walkers, UNCHANGED jobVars, UNCHANGED <<rows, pruner, lost>>,
           NEW r \in WalkRecord, walker' = [walker EXCEPT ![w] = r], prog' \in Progress, Moves,
           walker[w].todo = {}, Fresh(r), WalkOK(r, prog', Floor', now), ProgressOK',
           \A h \in Hours : Floor' <= h => (Covers(prog', h) <=> Covers(prog, h))
    PROVE  UpkeepInv'
<1>. USE DEF jobVars
<1>1. /\ now' = now /\ job' = job /\ at' = at /\ log' = log /\ rows' = rows /\ lost' = lost
      /\ pruner' = pruner /\ UpkeepShape
  BY DEF UpkeepInv
<1>2. /\ walker' \in [Walkers -> WalkRecord] /\ walker'[w] = r
      /\ \A x \in Walkers : x # w => walker'[x] = walker[x]
  BY <1>1, WalkerSet
<1>3. UpkeepShape'  BY <1>1, <1>2 DEF UpkeepShape, Progress
<1>4. Floor \in Int /\ Floor' \in Int /\ Floor <= Floor'  BY <1>1, <1>3, FloorType, FloorTypeNext, FloorGrows
<1>5. \A h \in Hours : h \in Int  BY SizeAssumption DEF Hours
<1>6. \A h \in Hours : Floor' <= h => Floor <= h  BY <1>4, <1>5
<1>7. UncoveredBare'  BY <1>1, <1>6 DEF UpkeepInv, UncoveredBare
<1>8. DeletedCounted'
  <2>1. SUFFICES ASSUME NEW e \in Entries, job[e[1]].st = "deleted", Floor' <= at[e],
                        e[2] = 0 \/ e \in log, at[e] # NoHour
                 PROVE  e \in rows[at[e]] \cup lost
    BY <1>1 DEF DeletedCounted
  <2>2. at[e] \in Hours  BY <1>1, <2>1 DEF UpkeepShape
  <2>. QED  BY <1>6, <2>1, <2>2 DEF UpkeepInv, DeletedCounted
<1>9. CoveredWhole'
  <2>1. SUFFICES ASSUME NEW h \in Hours, Covers(prog', h), Floor' <= h, NEW e \in Logged(h)
                 PROVE  e \in rows[h] \cup lost \cup Pending'
    BY <1>1 DEF CoveredWhole, Whole, Logged
  <2>2. e \in rows[h] \cup lost \cup Pending
    BY <1>6, <2>1 DEF UpkeepInv, CoveredWhole, Whole
  <2>3. e \in Pending => e \in Pending'  BY <1>1, <1>2, PendingKept
  <2>. QED  BY <2>2, <2>3
<1>10. WalkOK(walker'[w], prog', Floor', now')  BY <1>1, <1>2
<1>11. ViewOK(w)'  BY <1>2, <1>3, <1>10, FreshViewed
<1>. QED  BY <1>1, <1>2, <1>3, <1>7, <1>8, <1>9, <1>10, <1>11, WalkerStep

LEMMA RollupLegsOK ==
    ASSUME NEW p \in Progress, NEW n \in Nat, NEW e \in Nat, p.from <= p.to, p.to <= n, 0 <= p.from
    PROVE  RollupLegs(p, n, e) \in LegsType /\ LegsOK(RollupLegs(p, n, e), p, e, n)
<1>. DEFINE legs == RollupLegs(p, n, e)
<1>1. p.from \in Int /\ p.to \in Int  BY DEF Progress
<1>2. /\ legs[1] = <<0, 0>> /\ legs[2] = <<p.to, n>> /\ legs[3] = <<0, 0>>
      /\ legs[4] = <<e, p.from>> /\ legs[5] = <<0, 0>>
  BY DEF RollupLegs, NoLegs
<1>3. legs \in LegsType  BY <1>1 DEF RollupLegs, NoLegs, LegsType, Legs
<1>. HIDE DEF legs
<1>4. OpenLegs(legs) \subseteq {2, 4}  BY <1>2 DEF OpenLegs, Legs
<1>5. LegsOK(legs, p, e, n)  BY <1>1, <1>2, <1>4 DEF LegsOK
<1>. QED  BY <1>3, <1>5 DEF legs

LEMMA RebuildLegsOK ==
    ASSUME NEW p \in Progress, NEW n \in Nat, NEW f \in Int, NEW a \in Nat, NEW b \in Nat,
           p.from <= p.to, p.to <= n, 0 <= p.from, a < b, b <= n
    PROVE  RebuildLegs(p, a, b) \in LegsType /\ LegsOK(RebuildLegs(p, a, b), p, f, n)
<1>. DEFINE legs == RebuildLegs(p, a, b)
            start == Max({a, p.to})
            top == Min({b, p.from})
            lo == Max({a, p.from})
            hi == Min({b, p.to})
<1>1. p.from \in Int /\ p.to \in Int  BY DEF Progress
<1>2. /\ start = (IF a < p.to THEN p.to ELSE a) /\ top = (IF b < p.from THEN b ELSE p.from)
      /\ lo = (IF a < p.from THEN p.from ELSE a) /\ hi = (IF b < p.to THEN b ELSE p.to)
  BY <1>1, MaxOfTwo, MinOfTwo
<1>. HIDE DEF start, top, lo, hi
<1>3. start \in Int /\ top \in Int /\ lo \in Int /\ hi \in Int  BY <1>1, <1>2
<1>4. legs = << <<lo, hi>>, <<p.to, start>>, <<start, b>>, <<top, p.from>>, <<a, top>> >>
  BY DEF RebuildLegs, start, top, lo, hi
<1>5. /\ legs[1] = <<lo, hi>> /\ legs[2] = <<p.to, start>> /\ legs[3] = <<start, b>>
      /\ legs[4] = <<top, p.from>> /\ legs[5] = <<a, top>>
  BY <1>4
<1>6. legs \in LegsType  BY <1>1, <1>3, <1>4 DEF LegsType, Legs
<1>. HIDE DEF legs
<1>7. /\ 1 \in OpenLegs(legs) <=> lo < hi
      /\ 2 \in OpenLegs(legs) <=> p.to < start
      /\ 3 \in OpenLegs(legs) <=> start < b
      /\ 4 \in OpenLegs(legs) <=> top < p.from
      /\ 5 \in OpenLegs(legs) <=> a < top
  <2>1. \A i \in 1..5 : i \in OpenLegs(legs) <=> legs[i][1] < legs[i][2]  BY DEF OpenLegs, Legs
  <2>. QED  BY <1>5, <2>1
<1>8. \A i \in OpenLegs(legs) : i \in 1..5  BY DEF OpenLegs, Legs
<1>9. \A i \in OpenLegs(legs) : 0 <= legs[i][1] /\ legs[i][2] <= n
  BY <1>1, <1>2, <1>5, <1>7, <1>8
<1>10. \A h \in Int : legs[1][1] <= h /\ h < legs[1][2] /\ f <= h => Covers(p, h)
  BY <1>1, <1>2, <1>5 DEF Covers
<1>11. \A i \in OpenLegs(legs) \cap {2, 3} : p.from <= legs[i][1] \/ p.from <= f
  BY <1>1, <1>2, <1>5, <1>7
<1>12. 2 \in OpenLegs(legs) => legs[2][1] <= p.to  BY <1>1, <1>5
<1>13. 3 \in OpenLegs(legs) => legs[3][1] <= p.to \/ (2 \in OpenLegs(legs) /\ legs[3][1] <= legs[2][2])
  BY <1>1, <1>2, <1>5, <1>7
<1>14. \A i \in OpenLegs(legs) \cap {4, 5} : legs[i][2] <= p.to  BY <1>1, <1>2, <1>5
<1>15. 4 \in OpenLegs(legs) => p.from <= legs[4][2] \/ legs[4][2] <= f  BY <1>1, <1>5
<1>16. 5 \in OpenLegs(legs) => \/ p.from <= legs[5][2] \/ legs[5][2] <= f
                               \/ 4 \in OpenLegs(legs) /\ legs[4][1] = legs[5][2]
  BY <1>1, <1>2, <1>5, <1>7
<1>17. LegsOK(legs, p, f, n)
  BY <1>9, <1>10, <1>11, <1>12, <1>13, <1>14, <1>15, <1>16 DEF LegsOK
<1>. QED  BY <1>6, <1>17 DEF legs

LEMMA AdvanceKeeps ==
    ASSUME UpkeepInv, NEW w \in Walkers, AdvanceStatsFloor(w)
    PROVE  UpkeepInv'
<1>. DEFINE was == walker[w]
            base == Ensured(prog, Oldest)
            p == Raised(base, Oldest)
            loc == [was EXCEPT !.op = "rollup", !.left = MaxHoursPerPass, !.earliest = Oldest]
            r == Resume(loc, RollupLegs(p, now, Oldest))
<1>1. was \in WalkRecord /\ UpkeepShape /\ WalkOK(was, prog, Floor, now)  BY DEF UpkeepInv, UpkeepShape
<1>2. /\ was.pc \in {"idle", "floor"} /\ prog' = p /\ walker' = [walker EXCEPT ![w] = r]
      /\ now' = now /\ lost' = lost /\ rows' = rows
  BY DEF AdvanceStatsFloor, StartsWithFloor, Oldest, jobVars
<1>3. was.todo = {}  BY <1>1, <1>2, IdleWalk
<1>4. /\ now \in Nat /\ Oldest \in Nat /\ Oldest <= now /\ prog \in Progress
      /\ prog.from \in Int /\ prog.to \in Int /\ prog.retain \in Int
  BY <1>1, FloorType
<1>5. /\ base \in Progress /\ base.from \in Int /\ base.to \in Int
      /\ prog = NoProgress => base.from = Oldest /\ base.to = Oldest
      /\ prog # NoProgress => base.from = prog.from /\ base.to = prog.to
      /\ base.from <= base.to /\ base.to <= now
  <2>1. CASE prog = NoProgress
    <3>1. base = [from |-> Oldest, to |-> Oldest, retain |-> Oldest]  BY <2>1 DEF Ensured
    <3>. QED  BY <1>4, <2>1, <3>1 DEF Progress
  <2>2. CASE prog # NoProgress
    <3>1. base = prog  BY <2>2 DEF Ensured
    <3>. QED  BY <1>4, <2>2, <3>1, RangeFacts
  <2>. QED  BY <2>1, <2>2
<1>. HIDE DEF base
<1>6. /\ p.from = (IF base.from < Oldest THEN Oldest ELSE base.from)
      /\ p.to = (IF base.to < Oldest THEN Oldest ELSE base.to)
      /\ p.retain = Oldest
  BY <1>4, <1>5, MaxOfTwo DEF Raised
<1>7. p = [from |-> p.from, to |-> p.to, retain |-> p.retain]  BY DEF Raised
<1>. HIDE DEF p
<1>8. p \in Progress /\ p.from \in Int /\ p.to \in Int  BY <1>4, <1>5, <1>6, <1>7 DEF Progress
<1>9. 0 <= p.from /\ p.from <= p.to /\ p.to <= now  BY <1>4, <1>5, <1>6, <1>8
<1>10. p # NoProgress  BY <1>8, <1>9 DEF NoProgress, NoHour
<1>11. Oldest' = Oldest /\ Floor' = Oldest  BY <1>2, <1>4, <1>6 DEF Floor, Oldest
<1>12. loc \in WalkRecord /\ loc.op = "rollup" /\ loc.todo = {} /\ loc.earliest = Oldest
  <2>1. MaxHoursPerPass \in Int /\ Oldest \in Int  BY <1>4, SizeAssumption
  <2>. HIDE DEF was
  <2>2. loc \in WalkRecord  BY <1>1, <2>1 DEF WalkRecord
  <2>. QED  BY <1>1, <1>3, <2>2 DEF WalkRecord
<1>. HIDE DEF loc
<1>13. /\ RollupLegs(p, now, Oldest) \in LegsType
       /\ LegsOK(RollupLegs(p, now, Oldest), p, Oldest, now)
  BY <1>4, <1>8, <1>9, RollupLegsOK
<1>14. r \in WalkRecord /\ WalkOK(r, p, Oldest, now) /\ Fresh(r)
  BY <1>4, <1>8, <1>10, <1>12, <1>13, ResumeKeeps
<1>. HIDE DEF r
<1>15. Moves
  <2>1. p.to >= base.to /\ (p.from <= base.from \/ p.from <= Oldest)  BY <1>4, <1>5, <1>6
  <2>2. prog = NoProgress => 0 <= p.retain  BY <1>4, <1>6
  <2>3. prog # NoProgress => /\ prog.to <= p.to
                             /\ p.from <= prog.from \/ (p.from <= p.retain /\ p.from <= Floor')
    BY <1>4, <1>5, <1>6, <1>8, <1>11, <2>1
  <2>. QED  BY <1>2, <1>4, <1>6, <1>10, <1>11, <2>2, <2>3 DEF Moves
<1>16. ProgressOK'  BY <1>2, <1>4, <1>6, <1>9 DEF ProgressOK
<1>17. \A h \in Hours : Floor' <= h => (Covers(prog', h) <=> Covers(prog, h))
  <2>1. SUFFICES ASSUME NEW h \in Hours, Oldest <= h PROVE Covers(p, h) <=> Covers(prog, h)
    BY <1>2, <1>11
  <2>2. h \in Nat  BY SizeAssumption DEF Hours
  <2>3. CASE prog = NoProgress
    <3>1. ~Covers(prog, h)  BY <2>2, <2>3, RangeFacts
    <3>. QED  BY <1>4, <1>5, <1>6, <1>8, <2>1, <2>2, <2>3, <3>1 DEF Covers
  <2>4. CASE prog # NoProgress
    BY <1>4, <1>5, <1>6, <1>8, <2>1, <2>2, <2>4 DEF Covers
  <2>. QED  BY <2>3, <2>4
<1>18. WalkOK(r, prog', Floor', now) /\ prog' \in Progress  BY <1>2, <1>8, <1>11, <1>14
<1>. QED  BY <1>2, <1>3, <1>14, <1>15, <1>16, <1>17, <1>18, RangeKept DEF AdvanceStatsFloor

LEMMA RebuildKeeps ==
    ASSUME UpkeepInv, NEW w \in Walkers, NEW op \in {"rebuild", "force"},
           NEW a \in 0..(LastHour + 1), NEW b \in 0..(LastHour + 1), StartRebuild(w, op, a, b)
    PROVE  UpkeepInv'
<1>. DEFINE was == walker[w]
            p == Ensured(prog, a)
            loc == [was EXCEPT !.op = op, !.left = -1]
            r == Resume(loc, RebuildLegs(p, a, b))
<1>1. was \in WalkRecord /\ UpkeepShape /\ WalkOK(was, prog, Floor, now)  BY DEF UpkeepInv, UpkeepShape
<1>2. /\ was.pc = "idle" /\ prog' = p /\ walker' = [walker EXCEPT ![w] = r]
      /\ now' = now /\ lost' = lost /\ rows' = rows /\ a < b /\ b <= now
  BY DEF StartRebuild, jobVars
<1>3. was.todo = {}  BY <1>1, <1>2, IdleWalk
<1>4. /\ now \in Nat /\ prog \in Progress /\ prog.from \in Int /\ prog.to \in Int /\ prog.retain \in Int
      /\ a \in Nat /\ b \in Nat
  BY <1>1, FloorType, SizeAssumption
<1>5. /\ prog = NoProgress => p = [from |-> a, to |-> a, retain |-> a]
      /\ prog # NoProgress => p = prog
  BY DEF Ensured
<1>. HIDE DEF p
<1>6. /\ p \in Progress /\ p # NoProgress /\ 0 <= p.from /\ p.from <= p.to /\ p.to <= now
      /\ 0 <= p.retain /\ p.retain <= now
  <2>1. CASE prog = NoProgress
    <3>1. a # -1  BY <1>4
    <3>. QED  BY <1>2, <1>4, <1>5, <2>1, <3>1 DEF Progress, NoProgress, NoHour
  <2>2. CASE prog # NoProgress  BY <1>4, <1>5, <2>2 DEF UpkeepInv, ProgressOK
  <2>. QED  BY <2>1, <2>2
<1>7. loc \in WalkRecord /\ loc.op = op /\ loc.todo = {}
  <2>. DEFINE m == -1
  <2>1. m \in Int  OBVIOUS
  <2>. HIDE DEF was, m
  <2>2. [was EXCEPT !.op = op, !.left = m] \in WalkRecord  BY <1>1, <2>1 DEF WalkRecord
  <2>3. loc \in WalkRecord  BY <2>2 DEF m
  <2>. QED  BY <1>1, <1>3, <2>3 DEF WalkRecord
<1>. HIDE DEF loc
<1>8. Moves
  <2>1. prog = NoProgress => 0 <= p.retain  BY <1>6
  <2>2. prog # NoProgress => p = prog  BY <1>5
  <2>. QED  BY <1>2, <1>4, <1>6, <2>1, <2>2 DEF Moves
<1>9. Floor' \in Int
  <2>1. Oldest' = Oldest /\ Oldest \in Int  BY <1>1, <1>2, FloorType DEF Oldest
  <2>2. p.retain \in Int  BY <1>6 DEF Progress
  <2>. QED  BY <1>2, <2>1, <2>2 DEF Floor
<1>10. RebuildLegs(p, a, b) \in LegsType /\ LegsOK(RebuildLegs(p, a, b), p, Floor', now)
  BY <1>2, <1>4, <1>6, <1>9, RebuildLegsOK
<1>11. r \in WalkRecord /\ WalkOK(r, p, Floor', now) /\ Fresh(r)
  BY <1>4, <1>6, <1>7, <1>9, <1>10, ResumeKeeps
<1>. HIDE DEF r
<1>12. ProgressOK'  BY <1>2, <1>6 DEF ProgressOK
<1>13. \A h \in Hours : Floor' <= h => (Covers(prog', h) <=> Covers(prog, h))
  <2>1. \A h \in Hours : h \in Nat  BY SizeAssumption DEF Hours
  <2>2. CASE prog = NoProgress
    <3>1. \A h \in Hours : ~Covers(prog, h)  BY <2>1, <2>2, RangeFacts
    <3>2. \A h \in Hours : ~Covers(p, h)  BY <1>4, <1>5, <2>1, <2>2 DEF Covers
    <3>. QED  BY <1>2, <3>1, <3>2
  <2>3. CASE prog # NoProgress  BY <1>2, <1>5, <2>3
  <2>. QED  BY <2>2, <2>3
<1>14. WalkOK(r, prog', Floor', now) /\ prog' \in Progress  BY <1>2, <1>6, <1>11
<1>. QED  BY <1>2, <1>3, <1>8, <1>11, <1>12, <1>13, <1>14, RangeKept DEF StartRebuild

----------------------------------------------------------------------------
(* Commits. *)

LEMMA EntriesFinite == IsFiniteSet(Entries)
<1>1. IsFiniteSet(0..MaxRun) /\ IsFiniteSet(Jobs)  BY SizeAssumption, FS_Interval
<1>. QED  BY <1>1, FS_Product DEF Entries

\* The guard looks at numbers: what it lets a write drop, something of its sort
\* that was not there before makes up for.
LEMMA GuardSwaps ==
    ASSUME NEW stored \in SUBSET Entries, NEW win \in SUBSET Entries, ~Shrinks(stored, win),
           NEW e \in stored \ win
    PROVE  \E f \in win \ stored : (f[2] = 0) <=> (e[2] = 0)
<1>. DEFINE S == {x \in stored : (x[2] = 0) <=> (e[2] = 0)}
            W == {x \in win : (x[2] = 0) <=> (e[2] = 0)}
<1>1. IsFiniteSet(S) /\ IsFiniteSet(W)
  <2>1. S \subseteq Entries /\ W \subseteq Entries  OBVIOUS
  <2>. QED  BY <2>1, EntriesFinite, FS_Subset
<1>2. ~(Cardinality(W) < Cardinality(S))
  <2>1. CASE e[2] = 0
    <3>1. S = {x \in stored : x[2] = 0} /\ W = {x \in win : x[2] = 0}  BY <2>1
    <3>. QED  BY <3>1 DEF Shrinks
  <2>2. CASE e[2] # 0
    <3>1. S = {x \in stored : x[2] # 0} /\ W = {x \in win : x[2] # 0}  BY <2>2
    <3>. QED  BY <3>1 DEF Shrinks
  <2>. QED  BY <2>1, <2>2
<1>3. SUFFICES ASSUME W \subseteq S PROVE FALSE  OBVIOUS
<1>4. e \in S /\ e \notin W  OBVIOUS
<1>. HIDE DEF S, W
<1>5. W # S  BY <1>4
<1>6. /\ Cardinality(W) \in Nat /\ Cardinality(S) \in Nat /\ Cardinality(W) <= Cardinality(S)
      /\ Cardinality(W) = Cardinality(S) => S = W
  BY <1>1, <1>3, FS_Subset, FS_CardinalityType
<1>. QED  BY <1>2, <1>5, <1>6

\* An entry of an hour at or above the floor has its job still, or is counted.
LEMMA LoggedParts ==
    ASSUME UpkeepInv, NEW h \in Hours, Floor <= h, NEW e \in Logged(h)
    PROVE  e \in Raw(h) \/ (job[e[1]].st = "deleted" /\ e \in rows[h] \cup lost)
<1>1. e \in Entries /\ at[e] = h /\ (e[2] = 0 \/ e \in log)  BY DEF Logged
<1>2. h # NoHour  BY SizeAssumption DEF Hours, NoHour
<1>3. CASE Exists(e[1])  BY <1>1, <1>3 DEF Raw
<1>4. CASE ~Exists(e[1])
  <2>1. job[e[1]].st # "absent"  BY <1>1, <1>2 DEF UpkeepInv, Dated
  <2>2. job[e[1]].st = "deleted"  BY <1>4, <2>1 DEF Exists
  <2>. QED  BY <1>1, <1>2, <2>2 DEF UpkeepInv, DeletedCounted
<1>. QED  BY <1>3, <1>4

\* The place of a walk that is about to commit.
LEMMA CommitPlace ==
    ASSUME UpkeepInv, NEW w \in Walkers, walker[w].pc \in {"write", "cover"}
    PROVE  LET loc == walker[w]
               i == loc.leg
           IN  /\ loc \in WalkRecord /\ WalkOK(loc, prog, Floor, now) /\ loc.legs \in LegsType
               /\ i \in OpenLegs(loc.legs) /\ i \in Legs /\ \A k \in OpenLegs(loc.legs) : i <= k
               /\ loc.legs[i][1] \in Int /\ loc.legs[i][2] \in Int
               /\ loc.legs[i] = <<loc.legs[i][1], loc.legs[i][2]>>
               /\ 0 <= loc.legs[i][1] /\ loc.legs[i][1] < loc.legs[i][2] /\ loc.legs[i][2] <= now
               /\ LegsOK(loc.legs, prog, Floor, now)
               /\ prog # NoProgress /\ prog \in Progress /\ 0 <= prog.from /\ prog.from <= prog.to
               /\ prog.to <= now /\ now \in Nat /\ now <= LastHour + 1 /\ Floor \in Int
               /\ loc.pc = "write" => /\ loc.hour \in Hours /\ loc.hour < now
                                      /\ loc.legs[i][1] <= loc.hour /\ loc.hour < loc.legs[i][2]
               /\ loc.pc = "cover" => i \in {2, 4} /\ loc.op # "reroll"
<1>. DEFINE loc == walker[w]
            i == loc.leg
<1>1. loc \in WalkRecord /\ WalkOK(loc, prog, Floor, now)  BY DEF UpkeepInv, UpkeepShape
<1>2. /\ now \in Nat /\ now <= LastHour + 1 /\ Floor \in Int /\ prog \in Progress
  BY FloorType DEF UpkeepInv, UpkeepShape
<1>3. prog # NoProgress /\ PlaceOK(loc) /\ LegsOK(loc.legs, prog, Floor, now)
  BY <1>1 DEF WalkOK, Walking
<1>4. 0 <= prog.from /\ prog.from <= prog.to /\ prog.to <= now  BY <1>3 DEF UpkeepInv, ProgressOK
<1>5. loc.pc \in {"write", "cover"}  OBVIOUS
<1>. HIDE DEF loc
<1>6. loc.legs \in LegsType /\ loc.hour \in Int  BY <1>1 DEF WalkRecord, LegsType
<1>7. i \in OpenLegs(loc.legs) /\ \A k \in OpenLegs(loc.legs) : i <= k  BY <1>3 DEF PlaceOK
<1>8. i \in Legs /\ loc.legs[i][1] < loc.legs[i][2]  BY <1>7 DEF OpenLegs
<1>9. /\ loc.legs[i][1] \in Int /\ loc.legs[i][2] \in Int
      /\ loc.legs[i] = <<loc.legs[i][1], loc.legs[i][2]>>
  BY <1>6, <1>8 DEF LegsType
<1>10. 0 <= loc.legs[i][1] /\ loc.legs[i][2] <= now  BY <1>3, <1>7 DEF LegsOK
<1>11. loc.pc = "write" => loc.legs[i][1] <= loc.hour /\ loc.hour < loc.legs[i][2]
  BY <1>3 DEF PlaceOK
<1>12. loc.pc = "write" => loc.hour \in Hours /\ loc.hour < now
  BY <1>2, <1>6, <1>9, <1>10, <1>11, SizeAssumption DEF Hours
<1>13. loc.pc = "cover" => i \in {2, 4} /\ loc.op # "reroll"
  BY <1>1, <1>3, <1>8 DEF PlaceOK, WalkOK, EveryHour, Legs
<1>. QED  BY <1>1, <1>2, <1>3, <1>4, <1>6, <1>7, <1>8, <1>9, <1>10, <1>11, <1>12, <1>13 DEF loc

LEMMA StepMoves ==
    ASSUME UpkeepInv, now' = now, lost \subseteq lost', prog # NoProgress, prog' \in Progress,
           prog'.retain = prog.retain, prog'.from <= prog.from, prog.to <= prog'.to, 0 <= prog'.from,
           prog'.to <= now
    PROVE  /\ Moves /\ ProgressOK' /\ Floor' = Floor
           /\ \A h \in Hours : Covers(prog, h) => Covers(prog', h)
<1>1. /\ prog.from \in Int /\ prog.to \in Int /\ prog'.from \in Int /\ prog'.to \in Int /\ now \in Nat
      /\ \A h \in Hours : h \in Int
  BY FloorType, SizeAssumption DEF UpkeepInv, Progress, Hours
<1>2. prog' # NoProgress  BY <1>1 DEF NoProgress, NoHour
<1>3. Floor' = Floor  BY DEF Floor, Oldest
<1>4. Moves  BY <1>1, <1>2 DEF Moves
<1>5. ProgressOK'
  <2>1. 0 <= prog.retain /\ prog.retain <= now /\ prog.from <= prog.to  BY DEF UpkeepInv, ProgressOK
  <2>. QED  BY <1>1, <2>1 DEF ProgressOK
<1>6. \A h \in Hours : Covers(prog, h) => Covers(prog', h)  BY <1>1 DEF Covers
<1>. QED  BY <1>3, <1>4, <1>5, <1>6

LEMMA MarkKeeps ==
    ASSUME UpkeepInv, NEW w \in Walkers, MarkCovered(w)
    PROVE  UpkeepInv'
<1>. DEFINE was == walker[w]
            legs == was.legs
            i == was.leg
            lo == legs[i][1]
            hi == legs[i][2]
            h == IF Upward(i) THEN hi - 1 ELSE lo
            q == Stepped(prog, legs, i, h)
            rest == [legs EXCEPT ![i] = <<0, 0>>]
            r == Resume(was, rest)
<1>1. was.pc = "cover" /\ walker' = [walker EXCEPT ![w] = r]  BY DEF MarkCovered
<1>2. /\ now' = now /\ job' = job /\ at' = at /\ log' = log /\ rows' = rows /\ lost' = lost
      /\ pruner' = pruner /\ UpkeepShape
  BY DEF MarkCovered, jobVars, UpkeepInv
<1>3. /\ was \in WalkRecord /\ WalkOK(was, prog, Floor, now) /\ legs \in LegsType
      /\ i \in OpenLegs(legs) /\ i \in Legs /\ \A k \in OpenLegs(legs) : i <= k
      /\ lo \in Int /\ hi \in Int /\ legs[i] = <<lo, hi>>
      /\ 0 <= lo /\ lo < hi /\ hi <= now
      /\ LegsOK(legs, prog, Floor, now)
      /\ prog # NoProgress /\ prog \in Progress /\ 0 <= prog.from /\ prog.from <= prog.to
      /\ prog.to <= now /\ now \in Nat /\ Floor \in Int
      /\ i \in {2, 4} /\ was.op # "reroll"
  BY <1>1, CommitPlace
<1>4. h \in Int /\ lo <= h /\ h < hi /\ (IF Upward(i) THEN hi <= h + 1 ELSE h <= lo)  BY <1>3
<1>5. prog' = q
  <2>1. prog' = IF Upward(i) THEN Step(prog, legs[i], NoStep) ELSE Step(prog, NoStep, legs[i])
    BY DEF MarkCovered
  <2>2. Extends(i)  BY <1>3 DEF Extends
  <2>3. CASE Upward(i)
    <3>1. h + 1 = hi  BY <1>3, <2>3
    <3>2. <<lo, h + 1>> = legs[i]  BY <1>3, <3>1
    <3>. HIDE DEF h, lo, hi, legs, i
    <3>. QED  BY <2>1, <2>2, <2>3, <3>2 DEF Stepped, lo
  <2>4. CASE ~Upward(i)
    <3>1. <<h, hi>> = legs[i]  BY <1>3, <2>4
    <3>. HIDE DEF h, lo, hi, legs, i
    <3>. QED  BY <2>1, <2>2, <2>4, <3>1 DEF Stepped, hi
  <2>. QED  BY <2>3, <2>4
<1>6. /\ rest \in LegsType /\ rest[i] = <<0, 0>> /\ \A k \in Legs : k # i => rest[k] = legs[k]
  <2>. HIDE DEF legs, i
  <2>. QED  BY <1>3 DEF LegsType
<1>7. i \notin OpenLegs(rest)
  <2>. HIDE DEF rest, i, legs
  <2>. QED  BY <1>6 DEF OpenLegs
<1>8. ViewOK(w)  BY DEF UpkeepInv
<1>9. \A x \in Hours : lo <= x /\ x < hi => Raw(x) \subseteq lost
  <2>1. \A x \in Hours : lo <= x /\ x < hi => x \in Uncommitted(w)  BY <1>1 DEF Uncommitted
  <2>. QED  BY <1>1, <1>8, <2>1 DEF ViewOK, Seen
<1>10. was.todo = {} /\ was.op \in {"rollup", "rebuild", "force"} /\ (was.op = "rollup" => was.earliest <= Floor)
  <2>. HIDE DEF was
  <2>. QED  BY <1>1, <1>3 DEF WalkOK, Walking, WalkRecord
<1>. HIDE DEF was, legs, lo, hi, i, h, rest
<1>11. /\ q \in Progress /\ q.retain = prog.retain
       /\ q.from <= prog.from /\ prog.to <= q.to /\ 0 <= q.from /\ q.to <= now
       /\ \A x \in Int : Covers(q, x) /\ ~Covers(prog, x) => lo <= x /\ x < hi
  BY <1>3, <1>4, SteppedRange DEF lo, hi
<1>12. LegsOK(rest, q, Floor, now)
  <2>1. IF Upward(i) THEN legs[i][2] <= h + 1 ELSE h <= legs[i][1]  BY <1>4 DEF lo, hi
  <2>2. legs[i][1] <= h /\ h < legs[i][2]  BY <1>4 DEF lo, hi
  <2>3. i \in OpenLegs(rest) => rest[i] = IF Upward(i) THEN <<h + 1, legs[i][2]>> ELSE <<legs[i][1], h>>
    BY <1>7
  <2>. QED  BY <1>3, <1>4, <1>6, <1>7, <2>1, <2>2, <2>3, SteppedLegs
<1>13. q # NoProgress
  <2>. HIDE DEF q
  <2>. QED  BY <1>11 DEF NoProgress, NoHour
<1>14. r \in WalkRecord /\ WalkOK(r, q, Floor, now) /\ Fresh(r)
  BY <1>3, <1>6, <1>10, <1>11, <1>12, <1>13, ResumeKeeps
<1>. HIDE DEF q, r
<1>15. /\ Moves /\ ProgressOK' /\ Floor' = Floor
       /\ \A x \in Hours : Covers(prog, x) => Covers(prog', x)
  BY <1>2, <1>3, <1>5, <1>11, StepMoves
<1>16. /\ walker' \in [Walkers -> WalkRecord] /\ walker'[w] = r
       /\ \A x \in Walkers : x # w => walker'[x] = walker[x]
  BY <1>1, <1>2, <1>14, WalkerSet
<1>17. UpkeepShape'  BY <1>2, <1>5, <1>11, <1>16 DEF UpkeepShape, Progress
<1>18. WalkOK(walker'[w], prog', Floor', now')  BY <1>2, <1>5, <1>14, <1>15, <1>16
<1>19. ViewOK(w)'  BY <1>14, <1>16, <1>17, <1>18, FreshViewed
<1>20. UncoveredBare'  BY <1>2, <1>15 DEF UpkeepInv, UncoveredBare
<1>21. DeletedCounted'  BY <1>2, <1>15 DEF UpkeepInv, DeletedCounted
<1>22. CoveredWhole'
  <2>1. SUFFICES ASSUME NEW x \in Hours, Covers(q, x), Floor <= x, NEW e \in Logged(x)
                 PROVE  e \in rows[x] \cup lost \cup Pending'
    BY <1>2, <1>5, <1>15 DEF CoveredWhole, Whole, Logged
  <2>2. CASE Covers(prog, x)
    <3>1. e \in rows[x] \cup lost \cup Pending  BY <2>1, <2>2 DEF UpkeepInv, CoveredWhole, Whole
    <3>2. e \in Pending => e \in Pending'  BY <1>2, <1>10, <1>16, PendingKept DEF was
    <3>. QED  BY <3>1, <3>2
  <2>3. CASE ~Covers(prog, x)
    <3>1. x \in Int  BY SizeAssumption DEF Hours
    <3>2. Raw(x) \subseteq lost  BY <1>9, <1>11, <2>1, <2>3, <3>1
    <3>. QED  BY <2>1, <3>2, LoggedParts
  <2>. QED  BY <2>2, <2>3
<1>. QED  BY <1>2, <1>15, <1>16, <1>17, <1>18, <1>19, <1>20, <1>21, <1>22, WalkerStep DEF jobVars

\* An hour's commit keeps the walk: what is left of it lies at the new edge.
LEMMA AdvancedKeeps ==
    ASSUME UpkeepInv, NEW w \in Walkers, walker[w].pc = "write",
           NEW q \in Progress, q = Stepped(prog, walker[w].legs, walker[w].leg, walker[w].hour)
    PROVE  LET r == Advanced(walker[w])
           IN  /\ r \in WalkRecord /\ WalkOK(r, q, Floor, now) /\ Fresh(r)
               /\ r.todo = walker[w].todo \ {walker[w].hour}
<1>. DEFINE was == walker[w]
            legs == was.legs
            i == was.leg
            h == was.hour
            left == IF was.left > 0 THEN was.left - 1 ELSE was.left
            next == [was EXCEPT !.hour = NoHour, !.win = {}, !.left = left]
            todo == was.todo \ {h}
            again == [next EXCEPT !.todo = todo]
            rest == [legs EXCEPT ![i] = IF Upward(i) THEN <<h + 1, legs[i][2]>> ELSE <<legs[i][1], h>>]
            r == Advanced(was)
<1>1. was.pc = "write"  OBVIOUS
<1>2. /\ was \in WalkRecord /\ WalkOK(was, prog, Floor, now) /\ legs \in LegsType
      /\ i \in OpenLegs(legs) /\ i \in Legs /\ \A k \in OpenLegs(legs) : i <= k
      /\ legs[i][1] \in Int /\ legs[i][2] \in Int
      /\ LegsOK(legs, prog, Floor, now)
      /\ prog # NoProgress /\ prog \in Progress /\ 0 <= prog.from /\ prog.from <= prog.to
      /\ prog.to <= now /\ now \in Nat /\ Floor \in Int
      /\ h \in Hours /\ h < now /\ legs[i][1] <= h /\ h < legs[i][2]
  BY CommitPlace
<1>3. q = Stepped(prog, legs, i, h)  OBVIOUS
<1>. HIDE DEF was
<1>4. left \in Int /\ NoHour \in Int /\ was.left \in Int /\ was.todo \in SUBSET Hours /\ h \in Int
  BY <1>2, SizeAssumption DEF WalkRecord, NoHour, Hours
<1>5. IF was.op = "reroll" THEN r = Reroll(again) ELSE r = Resume(next, rest)
  BY DEF Advanced
<1>. HIDE DEF left, todo, rest
<1>6. /\ next \in WalkRecord /\ next.op = was.op /\ next.todo = was.todo /\ next.left = left
      /\ next.earliest = was.earliest
  BY <1>2, <1>4 DEF WalkRecord
<1>. HIDE DEF next
<1>7. /\ q \in Progress /\ q.from <= prog.from /\ prog.to <= q.to /\ 0 <= q.from /\ q.to <= now
  BY <1>2, <1>3, <1>4, SteppedRange
<1>8. q # NoProgress  BY <1>7 DEF NoProgress, NoHour
<1>9. CASE was.op = "reroll"
  <2>1. todo \in SUBSET Hours  BY <1>4 DEF todo
  <2>2. again \in WalkRecord /\ again.op = "reroll" /\ again.todo = todo /\ again.left = left
    BY <1>6, <1>9, <2>1 DEF WalkRecord
  <2>3. left = -1 /\ i = 1 /\ \A x \in was.todo : Covers(prog, x) \/ x < Floor
    BY <1>1, <1>2, <1>4, <1>9 DEF WalkOK, left
  <2>4. q = prog  BY <1>3, <2>3 DEF Stepped, Extends
  <2>5. \A x \in todo : x \in Nat /\ (Covers(prog, x) \/ x < Floor)
    BY <1>4, <2>3, SizeAssumption DEF todo, Hours
  <2>6. Floor <= Oldest /\ Oldest <= now /\ Oldest \in Int  BY FloorType DEF UpkeepInv
  <2>7. \A x \in todo : x + 1 <= now
    <3>1. SUFFICES ASSUME NEW x \in todo PROVE x + 1 <= now  OBVIOUS
    <3>2. x < now  BY <1>2, <2>5, <2>6, RangeFacts
    <3>. QED  BY <1>2, <2>5, <3>2
  <2>. HIDE DEF again
  <2>8. LET a == Reroll(again)
        IN  a \in WalkRecord /\ WalkOK(a, prog, Floor, now) /\ Fresh(a) /\ a.todo = again.todo
    BY <1>2, <2>2, <2>3, <2>5, <2>7, RerollKeeps
  <2>9. r = Reroll(again)  BY <1>5, <1>9
  <2>. HIDE DEF r
  <2>. QED  BY <2>2, <2>4, <2>8, <2>9 DEF r, todo, was
<1>10. CASE was.op # "reroll"
  <2>1. /\ was.op \in {"rollup", "rebuild", "force"} /\ was.todo = {}
        /\ was.op = "rollup" => was.earliest <= Floor
    BY <1>1, <1>2, <1>10 DEF WalkOK, Walking, WalkRecord
  <2>2. /\ rest \in LegsType /\ \A k \in Legs : k # i => rest[k] = legs[k]
        /\ rest[i] = IF Upward(i) THEN <<h + 1, legs[i][2]>> ELSE <<legs[i][1], h>>
    <3>1. (IF Upward(i) THEN <<h + 1, legs[i][2]>> ELSE <<legs[i][1], h>>) \in Int \X Int
      BY <1>2, <1>4
    <3>. HIDE DEF legs, i, h
    <3>. QED  BY <1>2, <3>1 DEF rest, LegsType
  <2>3. i \notin OpenLegs(rest) => IF Upward(i) THEN legs[i][2] <= h + 1 ELSE h <= legs[i][1]
    <3>. HIDE DEF legs, i, h
    <3>1. i \notin OpenLegs(rest) => ~(rest[i][1] < rest[i][2])  BY <1>2 DEF OpenLegs
    <3>. QED  BY <1>2, <1>4, <2>2, <3>1
  <2>4. LegsOK(rest, q, Floor, now)
    <3>. HIDE DEF legs, i, h
    <3>. QED  BY <1>2, <1>3, <1>4, <2>2, <2>3, SteppedLegs
  <2>5. LET a == Resume(next, rest)
        IN  a \in WalkRecord /\ WalkOK(a, q, Floor, now) /\ Fresh(a) /\ a.todo = {}
    BY <1>2, <1>6, <1>7, <1>8, <2>1, <2>2, <2>4, ResumeKeeps
  <2>6. r = Resume(next, rest)  BY <1>5, <1>10
  <2>. HIDE DEF r
  <2>. QED  BY <2>1, <2>5, <2>6 DEF r, was
<1>. QED  BY <1>9, <1>10

LEMMA RollupKeeps ==
    ASSUME UpkeepInv, NEW w \in Walkers, RollupHour(w)
    PROVE  UpkeepInv'
<1>. DEFINE was == walker[w]
            legs == was.legs
            i == was.leg
            h == was.hour
            win == was.win
            q == Stepped(prog, legs, i, h)
            r == Advanced(was)
<1>1. was.pc = "write"  BY DEF RollupHour
<1>2. /\ was \in WalkRecord /\ WalkOK(was, prog, Floor, now) /\ legs \in LegsType
      /\ i \in OpenLegs(legs) /\ i \in Legs /\ \A k \in OpenLegs(legs) : i <= k
      /\ legs[i][1] \in Int /\ legs[i][2] \in Int
      /\ LegsOK(legs, prog, Floor, now)
      /\ prog # NoProgress /\ prog \in Progress /\ 0 <= prog.from /\ prog.from <= prog.to
      /\ prog.to <= now /\ now \in Nat /\ Floor \in Int
      /\ h \in Hours /\ h < now /\ legs[i][1] <= h /\ h < legs[i][2]
  BY <1>1, CommitPlace
<1>3. /\ now' = now /\ job' = job /\ at' = at /\ log' = log /\ pruner' = pruner /\ UpkeepShape
      /\ rows \in [Hours -> SUBSET Entries] /\ lost \in SUBSET Entries
  BY DEF RollupHour, jobVars, UpkeepInv, UpkeepShape
<1>4. \A x \in Hours : x \in Int  BY SizeAssumption DEF Hours
<1>5. ViewOK(w)  BY DEF UpkeepInv
<1>6. Raw(h) \subseteq win \cup lost
  <2>1. h \in Uncommitted(w)  BY <1>1, <1>2 DEF Uncommitted
  <2>. QED  BY <1>1, <1>5, <2>1 DEF ViewOK, Seen
<1>7. \A x \in Hours : /\ legs[i][1] <= x /\ x < legs[i][2]
                       /\ IF Upward(i) THEN x < h ELSE h < x
                       => Raw(x) \subseteq lost
  <2>1. SUFFICES ASSUME NEW x \in Hours, legs[i][1] <= x, x < legs[i][2],
                        IF Upward(i) THEN x < h ELSE h < x
                 PROVE  Raw(x) \subseteq lost
    OBVIOUS
  <2>2. x \in Uncommitted(w)  BY <1>1, <1>2, <1>4, <2>1 DEF Uncommitted
  <2>3. x # h  BY <1>2, <1>4, <2>1
  <2>. QED  BY <1>5, <2>2, <2>3 DEF ViewOK, Seen
<1>8. win \in SUBSET Entries /\ was.backfills \in Int /\ was.op \in {"reroll", "rollup", "rebuild", "force"}
  <2>. HIDE DEF was
  <2>. QED  BY <1>1, <1>2 DEF WalkRecord, WalkOK, Walking
<1>9. h \in Int /\ q \in Progress  BY <1>2, <1>4, SteppedRange
<1>10. r \in WalkRecord /\ WalkOK(r, q, Floor, now) /\ Fresh(r) /\ r.todo = was.todo \ {h}
  BY <1>1, <1>9, AdvancedKeeps
<1>11. CASE Refuses(was.op, rows[h], win)
  <2>. DEFINE s == IF was.op = "reroll" THEN r ELSE Idle(was.backfills)
  <2>1. /\ walker' = [walker EXCEPT ![w] = s] /\ rows' = rows /\ prog' = prog
        /\ lost' = IF was.op = "reroll" THEN lost \cup (win \ rows[h]) ELSE lost
    BY <1>11 DEF RollupHour
  <2>. HIDE DEF was, r
  <2>2. s \in WalkRecord /\ WalkOK(s, prog, Floor, now) /\ Fresh(s)
    <3>1. CASE was.op = "reroll"
      <4>1. i = 1  BY <1>1, <1>2, <3>1 DEF WalkOK
      <4>2. q = prog  BY <4>1 DEF Stepped, Extends
      <4>. QED  BY <1>10, <3>1, <4>2
    <3>2. CASE was.op # "reroll"
      <4>1. s \in WalkRecord /\ s.pc = "idle" /\ s.op = "none" /\ s.todo = {}  BY <1>8, <3>2, IdleFields
      <4>. HIDE DEF s
      <4>. QED  BY <4>1 DEF WalkOK, Walking, Fresh
    <3>. QED  BY <3>1, <3>2
  <2>3. was.op = "reroll" => s.todo = was.todo \ {h}  BY <1>10
  <2>. HIDE DEF s
  <2>4. walker'[w] = s /\ walker' \in [Walkers -> WalkRecord]  BY <1>3, <2>1, <2>2, WalkerSet
  <2>5. lost \subseteq lost' /\ lost' \in SUBSET Entries  BY <1>3, <1>8, <2>1
  <2>6. UpkeepShape'  BY <1>3, <2>1, <2>4, <2>5 DEF UpkeepShape
  <2>7. ViewOK(w)'  BY <2>2, <2>4, <2>6, FreshViewed
  <2>8. ASSUME NEW e \in Pending, Floor <= at[e], at[e] \in walker[w].todo
        PROVE  at[e] \in s.todo \/ e \in lost' \cup rows[at[e]]
    <3>1. was.op = "reroll"  BY <1>2, <2>8 DEF WalkOK, was
    <3>2. CASE at[e] # h  BY <2>3, <2>8, <3>1, <3>2 DEF was
    <3>3. CASE at[e] = h
      <4>1. e \in Logged(h)  BY <1>3, <3>3 DEF Pending, Logged, UpkeepShape
      <4>2. e \in Raw(h) \/ e \in rows[h] \cup lost  BY <1>2, <2>8, <3>3, <4>1, LoggedParts
      <4>. QED  BY <1>6, <2>1, <3>1, <3>3, <4>2
    <3>. QED  BY <3>2, <3>3
  <2>. QED  BY <1>3, <2>1, <2>2, <2>5, <2>7, <2>8, LocalStep DEF jobVars
<1>12. CASE ~Refuses(was.op, rows[h], win)
  <2>1. /\ walker' = [walker EXCEPT ![w] = r] /\ rows' = [rows EXCEPT ![h] = win]
        /\ lost' = lost \cup Dropped(was.op, h, win)
    BY <1>12 DEF RollupHour
  <2>2. prog' = q  BY <1>12 DEF RollupHour, Stepped
  <2>. HIDE DEF was, r, legs, i, h, win
  <2>3. /\ q.retain = prog.retain
        /\ q.from <= prog.from /\ prog.to <= q.to /\ 0 <= q.from /\ q.to <= now
        /\ Floor <= h => Covers(q, h)
        /\ \A x \in Int : Covers(q, x) /\ ~Covers(prog, x) =>
             legs[i][1] <= x /\ x < legs[i][2] /\ (IF Upward(i) THEN x <= h ELSE h <= x)
    BY <1>2, <1>9, SteppedRange
  <2>. HIDE DEF q
  <2>4. Dropped(was.op, h, win) \in SUBSET Entries  BY <1>2, <1>3 DEF Dropped
  <2>5. lost \subseteq lost' /\ lost' \in SUBSET Entries  BY <1>3, <2>1, <2>4
  <2>6. /\ Moves /\ ProgressOK' /\ Floor' = Floor
        /\ \A x \in Hours : Covers(prog, x) => Covers(prog', x)
    BY <1>2, <1>3, <1>9, <2>2, <2>3, <2>5, StepMoves
  <2>7. /\ walker' \in [Walkers -> WalkRecord] /\ walker'[w] = r
        /\ \A x \in Walkers : x # w => walker'[x] = walker[x]
    BY <1>3, <1>10, <2>1, WalkerSet
  <2>8. /\ rows' \in [Hours -> SUBSET Entries] /\ rows'[h] = win
        /\ \A x \in Hours : x # h => rows'[x] = rows[x]
    BY <1>2, <1>3, <1>8, <2>1
  <2>9. UpkeepShape'  BY <1>3, <1>9, <2>2, <2>5, <2>7, <2>8 DEF UpkeepShape, Progress
  <2>10. WalkOK(walker'[w], prog', Floor', now')  BY <1>3, <1>10, <2>2, <2>6, <2>7
  <2>11. ViewOK(w)'  BY <1>10, <2>7, <2>9, <2>10, FreshViewed
  <2>12. ASSUME NEW e \in rows[h], Floor <= h PROVE e \in win \cup lost'
    <3>1. SUFFICES ASSUME e \notin win PROVE e \in Dropped(was.op, h, win)  BY <2>1
    <3>2. CASE was.op = "force"  BY <2>12, <3>1, <3>2 DEF Dropped
    <3>3. CASE was.op = "rollup"
      <4>1. Covers(prog, h)  BY <1>2, <2>12 DEF UpkeepInv, UncoveredBare
      <4>. QED  BY <2>12, <3>1, <3>3, <4>1 DEF Dropped
    <3>4. CASE was.op \in {"reroll", "rebuild"}
      <4>1. Guarded(was.op) /\ ~Shrinks(rows[h], win)  BY <1>12, <3>4 DEF Refuses, Guarded
      <4>2. rows[h] \in SUBSET Entries  BY <1>2, <1>3
      <4>3. \E f \in win \ rows[h] : (f[2] = 0) <=> (e[2] = 0)
        BY <1>8, <2>12, <3>1, <4>1, <4>2, GuardSwaps
      <4>4. ~(was.op = "force" \/ (was.op = "rollup" /\ Covers(prog, h)))  BY <3>4
      <4>. QED  BY <2>12, <3>1, <4>1, <4>3, <4>4 DEF Dropped
    <3>. QED  BY <1>8, <3>2, <3>3, <3>4
  <2>13. UncoveredBare'
    <3>1. SUFFICES ASSUME NEW x \in Hours, Floor <= x PROVE Covers(q, x) \/ rows'[x] = {}
      BY <2>2, <2>6 DEF UncoveredBare
    <3>2. CASE x = h  BY <2>3, <3>1, <3>2
    <3>3. CASE x # h
      <4>1. Covers(prog, x) \/ rows[x] = {}  BY <3>1 DEF UpkeepInv, UncoveredBare
      <4>. QED  BY <2>2, <2>6, <2>8, <3>3, <4>1
    <3>. QED  BY <3>2, <3>3
  <2>14. DeletedCounted'
    <3>1. SUFFICES ASSUME NEW e \in Entries, job[e[1]].st = "deleted", Floor <= at[e],
                          e[2] = 0 \/ e \in log, at[e] # NoHour
                   PROVE  e \in rows'[at[e]] \cup lost'
      BY <1>3, <2>6 DEF DeletedCounted
    <3>2. at[e] \in Hours  BY <1>3, <3>1 DEF UpkeepShape
    <3>3. e \in rows[at[e]] \cup lost  BY <3>1 DEF UpkeepInv, DeletedCounted
    <3>4. CASE at[e] = h  BY <2>5, <2>8, <2>12, <3>1, <3>3, <3>4
    <3>5. CASE at[e] # h  BY <2>5, <2>8, <3>2, <3>3, <3>5
    <3>. QED  BY <3>4, <3>5
  <2>15. CoveredWhole'
    <3>1. SUFFICES ASSUME NEW x \in Hours, Covers(q, x), Floor <= x, NEW e \in Logged(x)
                   PROVE  e \in rows'[x] \cup lost' \cup Pending'
      BY <1>3, <2>2, <2>6 DEF CoveredWhole, Whole, Logged
    <3>2. e \in Raw(x) \/ e \in rows[x] \cup lost  BY <3>1, LoggedParts
    <3>3. CASE x = h  BY <1>6, <2>5, <2>8, <2>12, <3>1, <3>2, <3>3
    <3>4. CASE x # h /\ Covers(prog, x)
      <4>1. e \in rows[x] \cup lost \cup Pending  BY <3>1, <3>4 DEF UpkeepInv, CoveredWhole, Whole
      <4>2. e \in Pending => e \in Pending'
        <5>1. at[e] = x  BY DEF Logged
        <5>2. at[e] \in walker[w].todo => at[e] \in walker'[w].todo
          BY <1>10, <2>7, <3>4, <5>1 DEF was
        <5>. QED  BY <1>3, <2>7, <5>2, PendingKept
      <4>. QED  BY <2>5, <2>8, <3>4, <4>1, <4>2
    <3>5. CASE x # h /\ ~Covers(prog, x)
      <4>1. /\ legs[i][1] <= x /\ x < legs[i][2]
            /\ IF Upward(i) THEN x < h ELSE h < x
        BY <1>4, <1>9, <2>3, <3>1, <3>5
      <4>2. Raw(x) \subseteq lost  BY <1>7, <4>1
      <4>. QED  BY <2>5, <2>8, <3>2, <3>5, <4>2
    <3>. QED  BY <3>3, <3>4, <3>5
  <2>. QED  BY <1>3, <2>6, <2>7, <2>9, <2>10, <2>11, <2>13, <2>14, <2>15, WalkerStep DEF jobVars
<1>. QED  BY <1>11, <1>12

----------------------------------------------------------------------------
(* Retention. *)

LEMMA PrunerSet ==
    ASSUME UpkeepShape, NEW p \in Pruners, NEW r \in PruneRecord, pruner' = [pruner EXCEPT ![p] = r]
    PROVE  /\ pruner' \in [Pruners -> PruneRecord] /\ pruner'[p] = r
           /\ \A x \in Pruners : x # p => pruner'[x] = pruner[x]
BY DEF UpkeepShape

LEMMA NotPruningFields == NotPruning \in PruneRecord /\ NotPruning.pc = "idle"
BY DEF NotPruning, PruneRecord

LEMMA PrunerStep ==
    ASSUME UpkeepInv, NEW p \in Pruners, UNCHANGED jobVars, UNCHANGED <<rows, prog, walker, lost>>,
           NEW r \in PruneRecord, pruner' = [pruner EXCEPT ![p] = r], PruneOK(r, prog, Oldest)
    PROVE  UpkeepInv'
<1>1. /\ now' = now /\ job' = job /\ at' = at /\ log' = log /\ rows' = rows /\ prog' = prog
      /\ walker' = walker /\ lost' = lost /\ UpkeepShape
  BY DEF UpkeepInv, jobVars
<1>2. /\ pruner' \in [Pruners -> PruneRecord] /\ pruner'[p] = r
      /\ \A x \in Pruners : x # p => pruner'[x] = pruner[x]
  BY <1>1, PrunerSet
<1>3. UpkeepShape'  BY <1>1, <1>2 DEF UpkeepShape
<1>4. Oldest' = Oldest /\ Floor' = Floor  BY <1>1 DEF Oldest, Floor
<1>5. Dated' /\ ProgressOK' /\ UncoveredBare'
  BY <1>1, <1>4 DEF UpkeepInv, Dated, ProgressOK, UncoveredBare
<1>6. CoveredWhole'
  <2>1. \A h \in Hours : Whole(h)' <=> Whole(h)  BY <1>1 DEF Whole, Logged, Pending
  <2>. QED  BY <1>1, <1>4, <2>1 DEF UpkeepInv, CoveredWhole
<1>7. DeletedCounted'  BY <1>1, <1>4 DEF UpkeepInv, DeletedCounted
<1>8. ASSUME NEW x \in Walkers PROVE WalkOK(walker[x], prog, Floor, now)' /\ ViewOK(x)'
  <2>1. \A h : Raw(h)' = Raw(h)  BY <1>1 DEF Raw, Exists
  <2>2. ViewOK(x)'  BY <1>1, <2>1, ViewKept
  <2>3. WalkOK(walker[x], prog, Floor, now)  BY DEF UpkeepInv
  <2>. QED  BY <1>1, <1>4, <2>2, <2>3
<1>9. ASSUME NEW x \in Pruners PROVE PruneOK(pruner[x], prog, Oldest)'
  <2>1. PruneOK(pruner[x], prog, Oldest)  BY DEF UpkeepInv
  <2>. QED  BY <1>1, <1>2, <1>4, <2>1
<1>. QED  BY <1>3, <1>5, <1>6, <1>7, <1>8, <1>9 DEF UpkeepInv

LEMMA StartPruneKeeps ==
    ASSUME UpkeepInv, NEW p \in Pruners, StartPrune(p)
    PROVE  UpkeepInv'
<1>. DEFINE cap == Cap(prog)
            r == [NotPruning EXCEPT !.pc = "select", !.cap = cap, !.retain = prog.retain,
                                    !.clock = now, !.left = MaxBatches]
<1>1. pruner' = [pruner EXCEPT ![p] = r] /\ Covered(prog)  BY DEF StartPrune
<1>2. /\ prog.from \in Int /\ prog.to \in Int /\ prog.retain \in Int /\ now \in Int /\ MaxBatches \in Int
  BY FloorType, SizeAssumption DEF UpkeepInv
<1>3. cap = IF prog.retain < prog.from THEN prog.retain ELSE prog.to  BY DEF Cap
<1>4. prog # NoProgress  BY <1>1 DEF Covered, NoProgress, NoHour
<1>. HIDE DEF cap
<1>5. cap \in Int  BY <1>2, <1>3
<1>6. r \in PruneRecord /\ r.cap = cap /\ r.retain = prog.retain
  BY <1>2, <1>5, NotPruningFields DEF PruneRecord
<1>. HIDE DEF r
<1>7. PruneOK(r, prog, Oldest)  BY <1>2, <1>3, <1>4, <1>6 DEF PruneOK
<1>. QED  BY <1>1, <1>6, <1>7, PrunerStep DEF StartPrune

LEMMA SelectKeeps ==
    ASSUME UpkeepInv, NEW p \in Pruners, SelectBatch(p)
    PROVE  UpkeepInv'
<1>. DEFINE was == pruner[p]
            due == {j \in Jobs : j > was.cursor /\ Expired(p, j)}
            ids == {j \in due : Cardinality({k \in due : k < j}) < BatchSize}
            on == [was EXCEPT !.pc = "delete", !.ids = ids, !.cursor = Max(ids)]
            r == IF ids = {} THEN NotPruning ELSE on
<1>1. pruner' = [pruner EXCEPT ![p] = r] /\ was.pc = "select"  BY DEF SelectBatch
<1>2. was \in PruneRecord /\ PruneOK(was, prog, Oldest)  BY DEF UpkeepInv, UpkeepShape
<1>3. ids \in SUBSET Jobs  OBVIOUS
<1>. HIDE DEF was, ids
<1>4. Max(ids) \in {0} \cup {Max(s) : s \in SUBSET Jobs}  BY <1>3
<1>5. on \in PruneRecord /\ on.cap = was.cap /\ on.retain = was.retain
  <2>. DEFINE m == Max(ids)
  <2>1. m \in {0} \cup {Max(s) : s \in SUBSET Jobs}  BY <1>4
  <2>. HIDE DEF m
  <2>2. [was EXCEPT !.pc = "delete", !.ids = ids, !.cursor = m] \in PruneRecord
    BY <1>2, <1>3, <2>1 DEF PruneRecord
  <2>3. on \in PruneRecord  BY <2>2 DEF m
  <2>. QED  BY <1>2, <2>3 DEF PruneRecord
<1>. HIDE DEF on
<1>6. PruneOK(on, prog, Oldest) /\ PruneOK(NotPruning, prog, Oldest)
  BY <1>1, <1>2, <1>5, NotPruningFields DEF PruneOK
<1>7. r \in PruneRecord /\ PruneOK(r, prog, Oldest)  BY <1>5, <1>6, NotPruningFields
<1>. HIDE DEF r
<1>. QED  BY <1>1, <1>7, PrunerStep DEF SelectBatch

LEMMA PruneFailKeeps ==
    ASSUME UpkeepInv, NEW p \in Pruners, PruneFails(p)
    PROVE  UpkeepInv'
<1>1. PruneOK(NotPruning, prog, Oldest)  BY NotPruningFields DEF PruneOK
<1>. QED  BY <1>1, NotPruningFields, PrunerStep DEF PruneFails

LEMMA DeleteKeeps ==
    ASSUME UpkeepInv, NEW p \in Pruners, DeleteBatch(p)
    PROVE  UpkeepInv'
<1>. DEFINE was == pruner[p]
            ids == was.ids
            gone == {e \in Entries : e[1] \in ids /\ Exists(e[1]) /\ at[e] # NoHour}
            left == IF was.left > 0 THEN was.left - 1 ELSE 0
            on == [was EXCEPT !.pc = "select", !.ids = {}, !.left = left]
            r == IF was.left = 1 THEN NotPruning ELSE on
<1>1. /\ pruner' = [pruner EXCEPT ![p] = r] /\ was.pc = "delete"
      /\ job' = [j \in Jobs |-> IF j \in ids THEN [NoJob EXCEPT !.st = "deleted"] ELSE job[j]]
      /\ lost' = lost \cup {e \in gone : ~Covers(prog, at[e]) \/ e \notin rows[at[e]]}
      /\ now' = now /\ at' = at /\ log' = log /\ rows' = rows /\ prog' = prog /\ walker' = walker
  BY DEF DeleteBatch
<1>2. was \in PruneRecord /\ PruneOK(was, prog, Oldest) /\ UpkeepShape  BY DEF UpkeepInv, UpkeepShape
<1>3. left \in Int  BY <1>2 DEF PruneRecord
<1>. HIDE DEF was, left
<1>4. on \in PruneRecord /\ on.cap = was.cap /\ on.retain = was.retain
  <2>1. on \in PruneRecord  BY <1>2, <1>3 DEF PruneRecord
  <2>. QED  BY <1>2, <2>1 DEF PruneRecord
<1>. HIDE DEF on
<1>5. PruneOK(on, prog, Oldest) /\ PruneOK(NotPruning, prog, Oldest)
  BY <1>1, <1>2, <1>4, NotPruningFields DEF PruneOK
<1>6. r \in PruneRecord /\ PruneOK(r, prog, Oldest)  BY <1>4, <1>5, NotPruningFields
<1>. HIDE DEF r
<1>7. /\ pruner' \in [Pruners -> PruneRecord] /\ pruner'[p] = r
      /\ \A x \in Pruners : x # p => pruner'[x] = pruner[x]
  BY <1>1, <1>2, <1>6, PrunerSet
<1>8. /\ job' \in [Jobs -> JobRecord]
      /\ \A j \in Jobs : IF j \in ids THEN job'[j].st = "deleted" ELSE job'[j] = job[j]
  <2>. DEFINE d == [NoJob EXCEPT !.st = "deleted"]
  <2>1. NoHour \in Int  BY DEF NoHour
  <2>2. d \in JobRecord /\ d.st = "deleted"  BY <2>1 DEF NoJob, JobRecord
  <2>. HIDE DEF d
  <2>3. job' = [j \in Jobs |-> IF j \in ids THEN d ELSE job[j]]  BY <1>1 DEF d
  <2>. QED  BY <1>2, <2>2, <2>3 DEF UpkeepShape
<1>9. lost \subseteq lost' /\ lost' \in SUBSET Entries  BY <1>1, <1>2 DEF UpkeepShape
<1>10. UpkeepShape'  BY <1>1, <1>2, <1>7, <1>8, <1>9 DEF UpkeepShape
<1>11. Oldest' = Oldest /\ Floor' = Floor  BY <1>1 DEF Oldest, Floor
<1>12. Dated'
  <2>1. \A e \in Entries : job'[e[1]].st = "absent" => job[e[1]].st = "absent"
    BY <1>2, <1>8, EntryParts
  <2>. QED  BY <1>1, <2>1 DEF UpkeepInv, Dated
<1>13. ProgressOK' /\ UncoveredBare'  BY <1>1, <1>11 DEF UpkeepInv, ProgressOK, UncoveredBare
<1>14. CoveredWhole'
  <2>1. \A h \in Hours : Whole(h) => Whole(h)'  BY <1>1, <1>9 DEF Whole, Logged, Pending
  <2>. QED  BY <1>1, <1>11, <2>1 DEF UpkeepInv, CoveredWhole
<1>15. DeletedCounted'
  <2>1. SUFFICES ASSUME NEW e \in Entries, job'[e[1]].st = "deleted", Floor <= at[e],
                        e[2] = 0 \/ e \in log, at[e] # NoHour
                 PROVE  e \in rows[at[e]] \cup lost'
    BY <1>1, <1>11 DEF DeletedCounted
  <2>2. CASE job[e[1]].st = "deleted"
    <3>1. e \in rows[at[e]] \cup lost  BY <2>1, <2>2 DEF UpkeepInv, DeletedCounted
    <3>. QED  BY <1>9, <3>1
  <2>3. CASE job[e[1]].st # "deleted"
    <3>1. e[1] \in Jobs /\ e[1] \in ids  BY <1>2, <1>8, <2>1, <2>3, EntryParts
    <3>2. Exists(e[1])  BY <2>1, <2>3 DEF UpkeepInv, Dated, Exists
    <3>3. e \in gone  BY <2>1, <3>1, <3>2
    <3>. QED  BY <1>1, <3>3
  <2>. QED  BY <2>2, <2>3
<1>16. ASSUME NEW x \in Walkers PROVE WalkOK(walker[x], prog, Floor, now)' /\ ViewOK(x)'
  <2>1. \A h : Raw(h)' \subseteq Raw(h)
    <3>1. \A e \in Entries : Exists(e[1])' => Exists(e[1])
      BY <1>2, <1>8, EntryParts DEF Exists
    <3>. QED  BY <1>1, <3>1 DEF Raw
  <2>2. ViewOK(x)'  BY <1>1, <1>9, <2>1, ViewKept
  <2>3. WalkOK(walker[x], prog, Floor, now)  BY DEF UpkeepInv
  <2>. QED  BY <1>1, <1>11, <2>2, <2>3
<1>17. ASSUME NEW x \in Pruners PROVE PruneOK(pruner[x], prog, Oldest)'
  <2>1. PruneOK(pruner[x], prog, Oldest)  BY DEF UpkeepInv
  <2>. QED  BY <1>1, <1>6, <1>7, <1>11, <2>1
<1>. QED  BY <1>10, <1>12, <1>13, <1>14, <1>15, <1>16, <1>17 DEF UpkeepInv

----------------------------------------------------------------------------
(* The invariant holds. *)

LEMMA UpkeepInit ==
    ASSUME Init
    PROVE  UpkeepInv
<1>. USE DEF Init
<1>1. NoHour \in Int /\ NoHour = -1 /\ 0 \in Int  BY DEF NoHour
<1>2. NoJob \in JobRecord /\ NoJob.st = "absent"  BY <1>1 DEF NoJob, JobRecord
<1>3. /\ NoProgress \in [from : Int, to : Int, retain : Int]
      /\ NoProgress.from = -1 /\ NoProgress.to = -1
  BY <1>1 DEF NoProgress
<1>4. Idle(0) \in WalkRecord /\ Idle(0).pc = "idle" /\ Idle(0).op = "none" /\ Idle(0).todo = {}
  BY IdleFields
<1>5. \A w \in Walkers : walker[w] = Idle(0)  OBVIOUS
<1>6. \A p \in Pruners : pruner[p] = NotPruning  OBVIOUS
<1>7. /\ \A j \in Jobs : job[j].st = "absent"
      /\ \A e \in Entries : at[e] = NoHour
      /\ \A h \in Hours : rows[h] = {}
  BY <1>2
<1>8. UpkeepShape
  <2>1. now \in Nat /\ now <= LastHour + 1  BY SizeAssumption
  <2>2. job \in [Jobs -> JobRecord]  BY <1>2
  <2>3. at \in [Entries -> Hours \cup {NoHour}]  OBVIOUS
  <2>4. rows \in [Hours -> SUBSET Entries]  OBVIOUS
  <2>5. walker \in [Walkers -> WalkRecord]  BY <1>4
  <2>6. pruner \in [Pruners -> PruneRecord]  BY NotPruningFields
  <2>7. prog \in [from : Int, to : Int, retain : Int]  BY <1>3
  <2>. QED  BY <2>1, <2>2, <2>3, <2>4, <2>5, <2>6, <2>7 DEF UpkeepShape
<1>9. Dated
  <2>1. \A e \in Entries : at[e] <= now  BY <1>1, <1>7
  <2>. QED  BY <1>7, <2>1 DEF Dated
<1>10. ProgressOK  BY DEF ProgressOK
<1>11. \A h \in Hours : ~Covers(prog, h)
  <2>1. \A h \in Hours : h \in Nat  BY SizeAssumption DEF Hours
  <2>. QED  BY <1>3, <2>1 DEF Covers
<1>12. CoveredWhole /\ UncoveredBare  BY <1>7, <1>11 DEF CoveredWhole, UncoveredBare
<1>13. DeletedCounted
  <2>1. \A e \in Entries : e[1] \in Jobs  BY DEF Entries
  <2>. QED  BY <1>7, <2>1 DEF DeletedCounted
<1>14. \A w \in Walkers : WalkOK(walker[w], prog, Floor, now) /\ ViewOK(w)
  <2>1. SUFFICES ASSUME NEW w \in Walkers PROVE WalkOK(walker[w], prog, Floor, now) /\ ViewOK(w)
    OBVIOUS
  <2>2. WalkOK(walker[w], prog, Floor, now)  BY <1>4, <1>5 DEF WalkOK, Walking
  <2>3. Uncommitted(w) = {}  BY <1>4, <1>5 DEF Uncommitted
  <2>. QED  BY <2>2, <2>3 DEF ViewOK
<1>15. \A p \in Pruners : PruneOK(pruner[p], prog, Oldest)  BY <1>6, NotPruningFields DEF PruneOK
<1>. QED  BY <1>8, <1>9, <1>10, <1>12, <1>13, <1>14, <1>15 DEF UpkeepInv

LEMMA UpkeepStep ==
    ASSUME UpkeepInv, [Next]_vars
    PROVE  UpkeepInv'
<1>1. CASE HourTurns  BY <1>1, TurnKeeps
<1>2. CASE Work
  <2>1. PICK j \in Jobs : \/ Enqueue(j) \/ Start(j) \/ Cancel(j) \/ Retry(j)
                          \/ \E a \in Runs, ends \in BOOLEAN, old \in {FALSE, OldBinary} :
                                Finish(j, a, ends, old)
    BY <1>2 DEF Work
  <2>. QED  BY <2>1, EnqueueKeeps, StartKeeps, CancelKeeps, RetryKeeps, FinishKeeps
<1>3. CASE \E w \in Walkers : Rebuild(w) \/ Pass(w) \/ WalkFails(w)
  <2>1. PICK w \in Walkers : Rebuild(w) \/ Pass(w) \/ WalkFails(w)  BY <1>3
  <2>2. CASE Rebuild(w)  BY <2>2, RebuildKeeps DEF Rebuild
  <2>3. CASE Pass(w)
    BY <2>3, BackfillKeeps, RerollStepKeeps, AdvanceKeeps, ProbeKeeps, AggregateKeeps, RollupKeeps,
       MarkKeeps, PruneRowsKeeps DEF Pass
  <2>4. CASE WalkFails(w)  BY <2>4, FailKeeps
  <2>. QED  BY <2>1, <2>2, <2>3, <2>4
<1>4. CASE \E p \in Pruners : Retain(p) \/ PruneFails(p)
  BY <1>4, StartPruneKeeps, SelectKeeps, DeleteKeeps, PruneFailKeeps DEF Retain
<1>5. CASE UNCHANGED vars
  <2>1. UNCHANGED upkeep /\ now' = now /\ job' = job /\ at' = at /\ log' = log
    BY <1>5 DEF vars, upkeep
  <2>2. UpkeepShape' /\ Dated'  BY <2>1 DEF UpkeepInv, UpkeepShape, Dated, upkeep
  <2>3. now \in Nat  BY DEF UpkeepInv, UpkeepShape
  <2>4. PastKept  BY <2>1, <2>3 DEF PastKept, Exists
  <2>. QED  BY <2>1, <2>2, <2>4, WorldKeeps
<1>. QED  BY <1>1, <1>2, <1>3, <1>4, <1>5 DEF Next

\* Whatever interleaves, what a covered hour's rows count is all it held, and what
\* a walk is about to commit is what it will find.
THEOREM UpkeepInvariant == Spec => []UpkeepInv
BY UpkeepInit, UpkeepStep, PTL DEF Spec

LEMMA Served ==
    ASSUME UpkeepInv
    PROVE  StatsServeEveryRun
<1>1. /\ UpkeepShape /\ now \in Nat /\ now <= LastHour + 1 /\ prog.retain \in Int /\ Floor \in Int
      /\ Floor <= prog.retain /\ prog.from \in Int /\ prog.to \in Int
  BY FloorType DEF UpkeepInv, UpkeepShape
<1>2. /\ Max({0, prog.retain}) \in Nat /\ prog.retain <= Max({0, prog.retain})
  BY <1>1, MaxOfTwo
<1>3. SUFFICES ASSUME NEW from \in Max({0, prog.retain})..now, NEW to \in Max({0, prog.retain})..now,
                      NEW h \in from..(to - 1),
                      NEW e \in (IF Covers(prog, h) THEN Logged(h) ELSE Raw(h))
               PROVE  e \in WindowAggs(from, to) \cup lost \cup Pending
  BY DEF StatsServeEveryRun
<1>4. /\ from \in Nat /\ to \in Nat /\ h \in Nat /\ to <= now /\ prog.retain <= h /\ h \in Hours
  BY <1>1, <1>2, SizeAssumption DEF Hours
<1>. DEFINE plan == PlanWindow(prog, from, to)
            rolled == {x \in from..(to - 1) : Covers(prog, x)}
            raw == (from..(to - 1)) \ rolled
<1>5. plan.rolled = rolled /\ plan.raw = raw  BY DEF PlanWindow
<1>. DEFINE hours == FitRawSpan(raw).hours
<1>6. WindowAggs(from, to) = (UNION {rows[x] : x \in rolled}) \cup (UNION {Raw(x) : x \in hours})
  <2>1. /\ WindowAggs(from, to) =
             LoadRolledHours(plan.rolled) \cup (UNION {Raw(x) : x \in FitRawSpan(plan.raw).hours})
        /\ LoadRolledHours(rolled) = UNION {rows[x] : x \in rolled}
    BY Zenon DEF WindowAggs, LoadRolledHours
  <2>. HIDE DEF plan, rolled, raw
  <2>. QED  BY <1>5, <2>1, Zenon
<1>7. CASE Covers(prog, h)
  <2>1. h \in rolled  BY <1>7
  <2>2. Floor <= h  BY <1>1, <1>4
  <2>3. e \in rows[h] \cup lost \cup Pending
    BY <1>3, <1>4, <1>7, <2>2 DEF UpkeepInv, CoveredWhole, Whole
  <2>. HIDE DEF rolled, raw, hours
  <2>. QED  BY <1>6, <2>1, <2>3
<1>8. CASE ~Covers(prog, h)
  <2>1. h \in raw /\ e \in Raw(h)  BY <1>3, <1>8
  <2>2. raw \in SUBSET Nat /\ \A x \in raw : x <= now
    <3>1. \A x \in from..(to - 1) : x \in Nat /\ x <= now  BY <1>1, <1>4
    <3>. QED  BY <3>1
  <2>. DEFINE active == {x \in Min(raw)..Max(raw) : Raw(x) # {}}
              kept == IF active = {} THEN {} ELSE {x \in raw : x >= Min(active)}
  <2>3. FitRawSpan(raw).hours = IF Cardinality(raw) <= MaxRawSpan THEN raw ELSE kept
    BY DEF FitRawSpan
  <2>. HIDE DEF raw, rolled
  <2>4. /\ Min(raw) \in Nat /\ Max(raw) \in Nat /\ Min(raw) <= h /\ h <= Max(raw)
    BY <1>1, <2>1, <2>2, LeastElement, GreatestElement
  <2>5. h \in active /\ active \in SUBSET Nat  BY <1>4, <2>1, <2>4
  <2>6. Min(active) <= h
    <3>. HIDE DEF active
    <3>. QED  BY <2>5, LeastElement
  <2>7. h \in kept
    <3>1. Min(active) \in Nat
      <4>. HIDE DEF active
      <4>. QED  BY <2>5, LeastElement
    <3>. HIDE DEF active
    <3>. QED  BY <1>4, <2>1, <2>5, <2>6, <3>1
  <2>8. h \in FitRawSpan(raw).hours
    <3>. HIDE DEF active, kept
    <3>. QED  BY <2>1, <2>3, <2>7
  <2>. HIDE DEF active, kept, hours
  <2>9. h \in hours  BY <2>8 DEF hours
  <2>. QED  BY <1>6, <2>1, <2>9
<1>. QED  BY <1>7, <1>8

\* Stats misses no insert and no run of a window the rollup keeps, jobs retention
\* has deleted included, but those lost marks and those a backfill is about to
\* roll up again (planWindow, windowAggs, rollupHour, refuseShrink).
THEOREM StatsSafety == Spec => []StatsServeEveryRun
BY UpkeepInvariant, Served, PTL

\* The most specific rule exists, so a job's age is a number.
LEMMA AgeType ==
    ASSUME NEW j \in Jobs
    PROVE  MaxAge(j) \in Int
<1>. DEFINE matching == {r \in Rules : Matches(r, j)}
<1>1. CASE matching = {}  BY <1>1, RulesAssumption DEF MaxAge
<1>2. CASE matching # {}
  <2>. DEFINE ranks == {Specificity(r) : r \in matching}
  <2>1. \A r \in matching : Specificity(r) \in Nat /\ Specificity(r) <= 3  BY DEF Specificity
  <2>2. ranks \in SUBSET Nat /\ ranks # {} /\ \A n \in ranks : n <= 3  BY <1>2, <2>1
  <2>3. Max(ranks) \in ranks /\ \A n \in ranks : n <= Max(ranks)
    <3>. HIDE DEF ranks
    <3>. QED  BY <2>2, GreatestElement
  <2>4. PICK m \in matching : Specificity(m) = Max(ranks)  BY <2>3
  <2>5. \A s \in matching : Specificity(s) <= Specificity(m)  BY <2>3, <2>4
  <2>. DEFINE best == CHOOSE r \in matching : \A s \in matching : Specificity(s) <= Specificity(r)
  <2>6. best \in matching  BY <2>5
  <2>7. MaxAge(j) = best.age  BY <1>2 DEF MaxAge
  <2>. HIDE DEF best
  <2>. QED  BY <2>6, <2>7, RulesAssumption
<1>. QED  BY <1>1, <1>2

LEMMA Held ==
    ASSUME UpkeepInv, NEW p \in Pruners, NEW e \in Entries, pruner[p].pc = "delete",
           Expired(p, e[1]), e[2] = 0 \/ e \in log, at[e] <= job[e[1]].fin
    PROVE  \/ Covers(prog, at[e]) /\ e \in rows[at[e]] \cup lost \cup Pending
           \/ at[e] < Max({pruner[p].retain, prog.retain})
<1>. DEFINE loc == pruner[p]
            h == at[e]
<1>1. loc \in PruneRecord /\ PruneOK(loc, prog, Oldest) /\ UpkeepShape  BY DEF UpkeepInv, UpkeepShape
<1>2. e[1] \in Jobs /\ h \in Int  BY <1>1, EntryParts
<1>3. loc.cap \in Int /\ loc.clock \in Int /\ loc.retain \in Int /\ job[e[1]].fin \in Int
  <2>1. job[e[1]] \in JobRecord  BY <1>1, <1>2 DEF UpkeepShape
  <2>. HIDE DEF loc
  <2>. QED  BY <1>1, <2>1 DEF PruneRecord, JobRecord
<1>4. h < loc.cap
  <2>. DEFINE c == loc.clock - MaxAge(e[1])
  <2>1. c \in Int  BY <1>2, <1>3, AgeType
  <2>2. job[e[1]].fin < Min({loc.cap, c})  BY DEF Expired
  <2>. HIDE DEF c
  <2>3. Min({loc.cap, c}) = IF loc.cap < c THEN loc.cap ELSE c  BY <1>3, <2>1, MinOfTwo
  <2>. QED  BY <1>2, <1>3, <2>1, <2>2, <2>3
<1>5. /\ prog # NoProgress
      /\ \/ loc.cap <= loc.retain
         \/ loc.cap <= prog.to /\ (prog.from <= loc.retain \/ prog.from <= prog.retain)
  BY <1>1 DEF PruneOK
<1>6. /\ prog.from \in Int /\ prog.to \in Int /\ prog.retain \in Int /\ Floor \in Int
      /\ Floor <= prog.retain /\ 0 <= prog.retain
  BY <1>1, <1>5, FloorType DEF UpkeepInv, ProgressOK
<1>. HIDE DEF loc
<1>7. Max({loc.retain, prog.retain}) = IF loc.retain < prog.retain THEN prog.retain ELSE loc.retain
  BY <1>3, <1>6, MaxOfTwo
<1>8. SUFFICES ASSUME loc.retain <= h, prog.retain <= h
               PROVE  Covers(prog, h) /\ e \in rows[h] \cup lost \cup Pending
  BY <1>2, <1>3, <1>6, <1>7 DEF loc
<1>9. Covers(prog, h)  BY <1>2, <1>3, <1>4, <1>5, <1>6, <1>8 DEF Covers
<1>10. h \in Hours /\ Floor <= h
  <2>1. h # NoHour  BY <1>6, <1>8 DEF NoHour
  <2>. QED  BY <1>1, <1>2, <1>6, <1>8, <2>1 DEF UpkeepShape
<1>11. e \in Logged(h)  BY DEF Logged
<1>. QED  BY <1>9, <1>10, <1>11 DEF UpkeepInv, CoveredWhole, Whole

\* Retention deletes no insert and no run the rollup has yet to count, below the
\* hours it keeps apart, for any rules, cutoffs, batch sizes and number of
\* retention passes beside any rollups and rebuilds (statsRetentionCap,
\* deleteFinishedBatch).
THEOREM RetentionSafety == Spec => RetentionHolds
<1>1. UpkeepInv /\ [Next]_vars =>
        [\A p \in Pruners, e \in Entries :
          /\ pruner[p].pc = "delete" /\ pruner'[p] # pruner[p]
          /\ Exists(e[1]) /\ job'[e[1]].st = "deleted" /\ Expired(p, e[1])
          /\ e[2] = 0 \/ e \in log
          /\ at[e] <= job[e[1]].fin
          => \/ Covers(prog, at[e]) /\ e \in rows[at[e]] \cup lost \cup Pending
             \/ at[e] < Max({pruner[p].retain, prog.retain})]_vars
  BY Held
<1>. QED  BY <1>1, UpkeepInvariant, PTL DEF RetentionHolds, Spec

=============================================================================
