----------------------------- MODULE RateProofs -----------------------------
(***************************************************************************)
(* Proofs about the rate limiter, for any keys, rates, TTL and delay of the *)
(* janitor: its types, the bound on the life of an idle bucket, and that it *)
(* implements buckets that are never dropped.                               *)
(***************************************************************************)
EXTENDS RateProperties, TLAPS

LEMMA CapNat == ASSUME NEW k \in Keys PROVE Cap(k) \in Nat
<1>1. Limit[k] \in Nat /\ Step[k] \in Nat
  BY RateAssumption
<1>2. \A m, n \in Nat : m * n \in Nat
  OBVIOUS
<1>3. QED
  BY <1>1, <1>2 DEF Cap

LEMMA Ages == TTL \in Nat /\ TTL > 0 /\ MaxDelay \in Nat /\ MaxDelay < TTL /\ Horizon \in Nat
BY DelayAssumption DEF Horizon

\* The bucket that an event finds, new or not, and what is in it.
LEMMA FoundOK ==
  ASSUME RateInv, NEW k \in Keys
  PROVE  /\ Found(k) \in Buckets(k)
         /\ Level(k) \in 0 .. Cap(k)
         /\ bucket[k] = None => Level(k) = Cap(k)
<1>1. Found(k) \in Buckets(k)
  <2>1. CASE bucket[k] = None
    BY <2>1, CapNat, Ages DEF Found, New, Buckets
  <2>2. CASE bucket[k] # None
    BY <2>2 DEF Found, RateInv, TypeOK
  <2>3. QED
    BY <2>1, <2>2
<1>2. Found(k).level \in 0 .. Cap(k) /\ Found(k).since \in 0 .. Cap(k)
  BY <1>1 DEF Buckets
<1>3. Level(k) \in 0 .. Cap(k)
  BY <1>2, CapNat DEF Level, Smaller
<1>4. ASSUME bucket[k] = None PROVE Level(k) = Cap(k)
  BY <1>4, CapNat DEF Level, Found, New, Smaller
<1>5. QED
  BY <1>1, <1>3, <1>4

\* An event that puts a well-formed, just used bucket in place keeps the invariant.
LEMMA KeepOK ==
  ASSUME RateInv, NEW k \in Keys, NEW b \in Buckets(k), Keep(k, b), b.idle = 0,
         phase' = phase, due' = due, answer' \in Keys \X BOOLEAN \union {None}
  PROVE  RateInv'
<1>1. bucket' = [bucket EXCEPT ![k] = b] /\ DOMAIN bucket = Keys
  BY DEF Keep, RateInv, TypeOK
<1>2. \A j \in Keys : bucket'[j] = IF j = k THEN b ELSE bucket[j]
  BY <1>1
<1>3. TypeOK'
  <2>1. \A j \in Keys : bucket'[j] = None \/ bucket'[j] \in Buckets(j)
    BY <1>2 DEF RateInv, TypeOK
  <2>2. DOMAIN bucket' = Keys
    BY <1>1
  <2>3. \A j \in Keys : Buckets(j)' = Buckets(j)
    BY DEF Buckets, Cap, Horizon
  <2>4. QED
    BY <2>1, <2>2, <2>3 DEF RateInv, TypeOK
<1>4. ClocksAgree'
  <2>1. b.since >= Smaller(b.idle, Cap(k))
    BY CapNat DEF Buckets, Smaller
  <2>2. \A j \in Keys : bucket'[j] # None => bucket'[j].since >= Smaller(bucket'[j].idle, Cap(j))
    BY <1>2, <2>1 DEF RateInv, ClocksAgree
  <2>3. QED
    BY <2>2 DEF ClocksAgree, Smaller, Cap
<1>5. PassesKeepUp'
  <2>1. b.idle - phase <= TTL /\ b.idle - phase <= 2 * TTL
    BY Ages DEF RateInv, TypeOK
  <2>2. \A j \in Keys : bucket'[j] # None =>
           bucket'[j].idle - phase <= IF due THEN 2 * TTL ELSE TTL
    BY <1>2, <2>1 DEF RateInv, PassesKeepUp
  <2>3. QED
    BY <2>2 DEF RateInv, PassesKeepUp
<1>6. QED
  BY <1>3, <1>4, <1>5 DEF RateInv

LEMMA InitRate == Init => RateInv
<1> SUFFICES ASSUME Init PROVE RateInv
  OBVIOUS
<1>1. /\ \A k \in Keys : bucket[k] = None
      /\ DOMAIN bucket = Keys /\ phase = 0 /\ due = FALSE /\ answer = None
  BY DEF Init
<1>2. phase \in 0 .. TTL - 1 /\ phase <= MaxDelay
  BY <1>1, Ages
<1>3. TypeOK
  BY <1>1, <1>2 DEF TypeOK
<1>4. QED
  BY <1>1, <1>3 DEF RateInv, ClocksAgree, PassesKeepUp

LEMMA AllowKeeps == ASSUME RateInv, NEW k \in Keys, Allow(k) PROVE RateInv'
<1>1. /\ Found(k).level \in 0 .. Cap(k) /\ Found(k).since \in 0 .. Cap(k)
      /\ Found(k) \in Buckets(k) /\ Level(k) \in 0 .. Cap(k)
  BY FoundOK DEF Buckets
<1>2. CASE Level(k) >= Step[k] /\ Keep(k, Charged(k)) /\ Says(k, TRUE)
  <2>1. Charged(k) \in Buckets(k) /\ Charged(k).idle = 0
    BY <1>1, <1>2, CapNat, Ages, RateAssumption DEF Charged, Buckets
  <2>2. QED
    BY <1>2, <2>1, KeepOK DEF Allow, Says
<1>3. CASE Level(k) < Step[k] /\ Keep(k, Refused(k)) /\ Says(k, FALSE)
  <2>1. Refused(k) \in Buckets(k) /\ Refused(k).idle = 0
    BY <1>1, Ages DEF Refused, Buckets
  <2>2. QED
    BY <1>3, <2>1, KeepOK DEF Allow, Says
<1>4. QED
  BY <1>2, <1>3 DEF Allow

LEMMA UnlimitedKeeps == ASSUME RateInv, NEW k \in Keys, AllowUnlimited(k) PROVE RateInv'
BY DEF AllowUnlimited, Says, RateInv, TypeOK, ClocksAgree, PassesKeepUp, Buckets

\* What a tick makes of a bucket.
LEMMA AgedOK ==
  ASSUME RateInv, NEW k \in Keys, bucket[k] # None
  PROVE  /\ Aged(k) \in Buckets(k)
         /\ Aged(k).level = bucket[k].level
         /\ Aged(k).since = Smaller(bucket[k].since + 1, Cap(k))
         /\ Aged(k).idle = Smaller(bucket[k].idle + 1, Horizon)
<1>1. bucket[k] \in Buckets(k)
  BY DEF RateInv, TypeOK
<1>2. Smaller(bucket[k].since + 1, Cap(k)) \in 0 .. Cap(k)
  BY <1>1, CapNat DEF Buckets, Smaller
<1>3. Smaller(bucket[k].idle + 1, Horizon) \in 0 .. Horizon
  BY <1>1, Ages DEF Buckets, Smaller
<1>4. QED
  BY <1>1, <1>2, <1>3 DEF Aged, Buckets

LEMMA TickKeeps == ASSUME RateInv, Tick PROVE RateInv'
<1>1. phase \in 0 .. TTL - 1 /\ due \in BOOLEAN /\ (due => phase < MaxDelay)
  BY DEF RateInv, TypeOK, Tick
<1>2. IF phase = TTL - 1 THEN phase' = 0 ELSE phase' = phase + 1
  BY <1>1, Ages DEF Tick
<1>3. phase' \in 0 .. TTL - 1 /\ due' = (due \/ phase' = 0)
  BY <1>1, <1>2, Ages DEF Tick
<1>4. \A k \in Keys : bucket'[k] = Aged(k)
  BY DEF Tick
<1>5. \A k \in Keys : bucket[k] = None => bucket'[k] = None
  BY <1>4 DEF Aged
<1>6. TypeOK'
  <2>1. \A k \in Keys : bucket'[k] = None \/ bucket'[k] \in Buckets(k)
    BY <1>4, <1>5, AgedOK
  <2>2. DOMAIN bucket' = Keys /\ answer' = answer
    BY DEF Tick
  <2>3. \A k \in Keys : Buckets(k)' = Buckets(k)
    BY DEF Buckets, Cap, Horizon
  <2>4. QED
    BY <1>1, <1>3, <2>1, <2>2, <2>3 DEF RateInv, TypeOK
<1>7. ClocksAgree'
  <2>1. SUFFICES ASSUME NEW k \in Keys, bucket'[k] # None
                 PROVE  bucket'[k].since >= Smaller(bucket'[k].idle, Cap(k))
    BY DEF ClocksAgree, Smaller, Cap
  <2>2. bucket[k] # None /\ bucket[k] \in Buckets(k)
    BY <1>5, <2>1 DEF RateInv, TypeOK
  <2>3. /\ bucket'[k].since = Smaller(bucket[k].since + 1, Cap(k))
        /\ bucket'[k].idle = Smaller(bucket[k].idle + 1, Horizon)
    BY <1>4, <2>2, AgedOK
  <2>4. bucket[k].since >= Smaller(bucket[k].idle, Cap(k))
    BY <2>2 DEF RateInv, ClocksAgree
  <2>5. bucket[k].since \in 0 .. Cap(k) /\ bucket[k].idle \in 0 .. Horizon
    BY <2>2 DEF Buckets
  <2>6. QED
    BY <2>3, <2>4, <2>5, CapNat, Ages DEF Smaller
<1>8. PassesKeepUp'
  <2>1. due' => phase' <= MaxDelay
    BY <1>1, <1>2, <1>3, Ages
  <2>2. SUFFICES ASSUME NEW k \in Keys, bucket'[k] # None
                 PROVE  bucket'[k].idle - phase' <= IF due' THEN 2 * TTL ELSE TTL
    BY <2>1 DEF PassesKeepUp
  <2>3. bucket[k] # None /\ bucket[k] \in Buckets(k)
    BY <1>5, <2>2 DEF RateInv, TypeOK
  <2>4. bucket'[k].idle = Smaller(bucket[k].idle + 1, Horizon)
    BY <1>4, <2>3, AgedOK
  <2>5. bucket[k].idle \in 0 .. Horizon
    BY <2>3 DEF Buckets
  <2>6. bucket[k].idle - phase <= IF due THEN 2 * TTL ELSE TTL
    BY <2>3 DEF RateInv, PassesKeepUp
  <2>7. bucket'[k].idle <= bucket[k].idle + 1 /\ bucket'[k].idle \in Nat
    BY <2>4, <2>5, Ages DEF Smaller
  <2>8. CASE phase = TTL - 1
    <3>1. ~due /\ due' /\ phase' = 0
      <4>1. ~(phase < MaxDelay) /\ phase' = 0
        BY <1>1, <1>2, <2>8, Ages
      <4>2. QED
        BY <1>1, <1>3, <4>1
    <3>2. QED
      BY <1>1, <2>5, <2>6, <2>7, <2>8, <3>1, Ages
  <2>9. CASE phase # TTL - 1
    <3>1. due' = due /\ phase' = phase + 1
      BY <1>1, <1>2, <1>3, <2>9, Ages
    <3>2. QED
      BY <1>1, <2>5, <2>6, <2>7, <3>1, Ages
  <2>10. QED
    BY <2>8, <2>9
<1>9. QED
  BY <1>6, <1>7, <1>8 DEF RateInv

LEMMA SweepKeeps == ASSUME RateInv, Sweep PROVE RateInv'
<1>1. /\ \A k \in Keys : bucket'[k] # None => bucket'[k] = bucket[k] /\ ~Abandoned(k)
      /\ DOMAIN bucket' = Keys
      /\ phase' = phase /\ answer' = answer /\ due' = FALSE
  BY DEF Sweep
<1>2. \A k \in Keys : Buckets(k)' = Buckets(k)
  BY DEF Buckets, Cap, Horizon
<1>3. TypeOK'
  BY <1>1, <1>2 DEF RateInv, TypeOK
<1>4. ClocksAgree'
  BY <1>1 DEF RateInv, ClocksAgree, Smaller, Cap
<1>5. PassesKeepUp'
  <2>1. SUFFICES ASSUME NEW k \in Keys, bucket'[k] # None
                 PROVE  bucket'[k].idle - phase <= TTL
    BY <1>1 DEF PassesKeepUp
  <2>2. bucket'[k] = bucket[k] /\ ~(bucket[k].idle - phase > TTL)
    BY <1>1, <2>1 DEF Abandoned
  <2>3. bucket[k].idle \in 0 .. Horizon /\ phase \in 0 .. TTL - 1
    BY <1>1, <2>1 DEF RateInv, TypeOK, Buckets
  <2>4. QED
    BY <2>2, <2>3, Ages
<1>6. QED
  BY <1>3, <1>4, <1>5 DEF RateInv

LEMMA RestartKeeps == ASSUME RateInv, Restart PROVE RateInv'
<1>1. phase' \in 0 .. TTL - 1 /\ due' = FALSE /\ answer' = answer
  <2>1. phase' = 0 /\ due' = FALSE /\ answer' = answer
    BY DEF Restart
  <2>2. QED
    BY <2>1, Ages
<1>2. DOMAIN bucket' = Keys /\ \A k \in Keys : bucket'[k] = None
  BY DEF Restart
<1>3. QED
  BY <1>1, <1>2 DEF Restart, RateInv, TypeOK, ClocksAgree, PassesKeepUp

LEMMA StepKeepsRate == RateInv /\ [Next]_vars => RateInv'
<1> SUFFICES ASSUME RateInv, [Next]_vars PROVE RateInv'
  OBVIOUS
<1>1. CASE UNCHANGED vars
  BY <1>1 DEF vars, RateInv, TypeOK, ClocksAgree, PassesKeepUp, Buckets
<1>2. CASE Next
  BY <1>2, AllowKeeps, UnlimitedKeeps, TickKeeps, SweepKeeps, RestartKeeps DEF Next
<1>3. QED
  BY <1>1, <1>2

THEOREM RateInvariant == Spec => []RateInv
<1>1. Init => RateInv
  BY InitRate
<1>2. RateInv /\ [Next]_vars => RateInv'
  BY StepKeepsRate
<1>3. QED
  BY <1>1, <1>2, PTL DEF Spec

\* Buckets, clocks and answers are well formed.
THEOREM RateTypes == Spec => []TypeOK
<1>1. RateInv => TypeOK
  BY DEF RateInv
<1>2. QED
  BY <1>1, RateInvariant, PTL

\* No bucket outlives its last event by more than two periods and a delay.
THEOREM IdleBucketsGo == Spec => []IdleBucketsAreDropped
<1>1. RateInv => IdleBucketsAreDropped
  <2>1. SUFFICES ASSUME RateInv, NEW k \in Keys, bucket[k] # None
                 PROVE  bucket[k].idle <= 2 * TTL + MaxDelay
    BY DEF IdleBucketsAreDropped
  <2>2. bucket[k].idle \in 0 .. Horizon /\ phase \in 0 .. TTL - 1 /\ due \in BOOLEAN
    BY <2>1 DEF RateInv, TypeOK, Buckets
  <2>3. /\ due => phase <= MaxDelay
        /\ bucket[k].idle - phase <= IF due THEN 2 * TTL ELSE TTL
    BY <2>1 DEF RateInv, PassesKeepUp
  <2>4. QED
    BY <2>2, <2>3, Ages
<1>2. QED
  BY <1>1, RateInvariant, PTL
-----------------------------------------------------------------------------
(* The refinement: the level an event would find is that of the ideal bucket. *)

LEMMA CapIsIdeal == \A k : Ideal!Cap(k) = Cap(k)
BY DEF Ideal!Cap, Cap

\* Putting a bucket in place changes the level of its key only.
LEMMA LevelOfKept ==
  ASSUME RateInv, NEW k \in Keys, NEW b \in Buckets(k), Keep(k, b)
  PROVE  /\ Level(k)' = Smaller(b.level + b.since, Cap(k))
         /\ \A j \in Keys \ {k} : Level(j)' = Level(j)
<1>1. \A j \in Keys : bucket'[j] = IF j = k THEN b ELSE bucket[j]
  BY DEF Keep, RateInv, TypeOK
<1>2. b # None
  BY NoneAssumption
<1>3. Found(k)' = b
  BY <1>1, <1>2 DEF Found
<1>4. \A j \in Keys \ {k} : Found(j)' = Found(j)
  BY <1>1 DEF Found, New, Cap
<1>5. QED
  BY <1>3, <1>4 DEF Level, Smaller, Cap

LEMMA InitRefines == Init => Ideal!Init
<1> SUFFICES ASSUME Init PROVE Levels = Ideal!Full /\ answer = None
  BY DEF Ideal!Init
<1>1. \A k \in Keys : Level(k) = Cap(k)
  BY InitRate, FoundOK DEF Init
<1>2. QED
  BY <1>1, CapIsIdeal DEF Levels, Ideal!Full, Init

LEMMA AllowRefines ==
  ASSUME RateInv, NEW k \in Keys, Allow(k)
  PROVE  Ideal!Admit(k) \/ Ideal!Refuse(k)
<1>1. /\ Found(k).level \in 0 .. Cap(k) /\ Found(k).since \in 0 .. Cap(k)
      /\ Found(k) \in Buckets(k) /\ Level(k) \in 0 .. Cap(k)
  BY FoundOK DEF Buckets
<1>2. Limit[k] # 0 /\ Levels[k] = Level(k)
  BY DEF Allow, Levels
<1>3. CASE Level(k) >= Step[k] /\ Keep(k, Charged(k)) /\ Says(k, TRUE)
  <2>1. Charged(k) \in Buckets(k)
    BY <1>1, <1>3, CapNat, Ages, RateAssumption DEF Charged, Buckets
  <2>2. Level(k)' = Level(k) - Step[k] /\ \A j \in Keys \ {k} : Level(j)' = Level(j)
    <3>1. Level(k) - Step[k] \in 0 .. Cap(k) /\ Cap(k) \in Nat
      BY <1>1, <1>3, CapNat, RateAssumption
    <3>2. Charged(k).level + Charged(k).since = Level(k) - Step[k]
      BY <3>1 DEF Charged
    <3>3. QED
      BY <1>3, <2>1, <3>1, <3>2, LevelOfKept DEF Smaller
  <2>3. Levels' = [Levels EXCEPT ![k] = @ - Step[k]]
    BY <2>2 DEF Levels
  <2>4. Ideal!Admit(k)
    BY <1>2, <1>3, <2>3 DEF Ideal!Admit, Says
  <2>5. QED
    BY <2>4
<1>4. CASE Level(k) < Step[k] /\ Keep(k, Refused(k)) /\ Says(k, FALSE)
  <2>1. /\ Refused(k) \in Buckets(k)
        /\ Refused(k).level = Found(k).level /\ Refused(k).since = Found(k).since
    BY <1>1, Ages DEF Refused, Buckets
  <2>2. \A j \in Keys : Level(j)' = Level(j)
    BY <1>4, <2>1, LevelOfKept DEF Level
  <2>3. Levels' = Levels
    BY <2>2 DEF Levels
  <2>4. Ideal!Refuse(k)
    BY <1>2, <1>4, <2>3 DEF Ideal!Refuse, Says
  <2>5. QED
    BY <2>4
<1>5. QED
  BY <1>3, <1>4 DEF Allow

LEMMA UnlimitedRefines ==
  ASSUME NEW k \in Keys, AllowUnlimited(k) PROVE Ideal!Admit(k)
<1>1. Levels' = Levels
  BY DEF AllowUnlimited, Levels, Level, Found, New, Smaller, Cap
<1>2. Levels = [Levels EXCEPT ![k] = IF Limit[k] = 0 THEN @ ELSE @ - Step[k]]
  BY DEF AllowUnlimited, Levels
<1>3. QED
  BY <1>1, <1>2 DEF AllowUnlimited, Says, Ideal!Admit

LEMMA TickRefines == ASSUME RateInv, Tick PROVE Ideal!Refill
<1>1. ASSUME NEW k \in Keys
      PROVE  Level(k)' = IF Level(k) < Cap(k) THEN Level(k) + 1 ELSE Cap(k)
  <2>1. bucket'[k] = Aged(k)
    BY DEF Tick
  <2>2. CASE bucket[k] = None
    <3>1. Level(k) = Cap(k) /\ bucket'[k] = None
      BY <2>1, <2>2, FoundOK DEF Aged
    <3>2. Level(k)' = Cap(k)
      BY <3>1, CapNat DEF Level, Found, New, Smaller, Cap
    <3>3. QED
      BY <3>1, <3>2, CapNat
  <2>3. CASE bucket[k] # None
    <3>1. /\ bucket'[k] \in Buckets(k)
          /\ bucket'[k].level = bucket[k].level
          /\ bucket'[k].since = Smaller(bucket[k].since + 1, Cap(k))
      BY <2>1, <2>3, AgedOK
    <3>2. Found(k)' = bucket'[k] /\ Found(k) = bucket[k]
      BY <2>3, <3>1, NoneAssumption DEF Found
    <3>3. bucket[k].level \in 0 .. Cap(k) /\ bucket[k].since \in 0 .. Cap(k)
      BY <2>3 DEF RateInv, TypeOK, Buckets
    <3>4. Level(k)' = Smaller(bucket[k].level + Smaller(bucket[k].since + 1, Cap(k)), Cap(k))
      BY <3>1, <3>2 DEF Level, Smaller, Cap
    <3>5. Level(k) = Smaller(bucket[k].level + bucket[k].since, Cap(k))
      BY <3>2 DEF Level
    <3>6. QED
      BY <3>3, <3>4, <3>5, CapNat DEF Smaller
  <2>4. QED
    BY <2>2, <2>3
<1>2. Levels' = [k \in Keys |-> IF Levels[k] < Ideal!Cap(k) THEN Levels[k] + 1 ELSE Ideal!Cap(k)]
  BY <1>1, CapIsIdeal DEF Levels
<1>3. QED
  BY <1>2 DEF Ideal!Refill, Tick

\* What the janitor drops and what has not refilled yet has refilled beyond TTL.
LEMMA AbandonedLevel ==
  ASSUME RateInv, NEW k \in Keys, Abandoned(k), Level(k) < Cap(k)
  PROVE  Level(k) > TTL
<1>1. bucket[k] # None /\ bucket[k].idle - phase > TTL /\ Found(k) = bucket[k]
  BY DEF Abandoned, Found
<1>2. /\ bucket[k].idle \in 0 .. Horizon /\ bucket[k].since \in 0 .. Cap(k)
      /\ bucket[k].level \in 0 .. Cap(k) /\ phase \in 0 .. TTL - 1
  BY <1>1 DEF RateInv, TypeOK, Buckets
<1>3. bucket[k].since >= Smaller(bucket[k].idle, Cap(k))
  BY <1>1 DEF RateInv, ClocksAgree
<1>4. Level(k) = Smaller(bucket[k].level + bucket[k].since, Cap(k)) /\ Level(k) < Cap(k)
  BY <1>1 DEF Level
<1>5. Cap(k) \in Nat
  BY CapNat
<1>6. QED
  BY <1>1, <1>2, <1>3, <1>4, <1>5, Ages DEF Smaller

LEMMA SweepRefines ==
  ASSUME RateInv, Sweep PROVE \E idle \in SUBSET Keys : Ideal!Forget(idle)
<1> DEFINE gone == {k \in Keys : Abandoned(k) /\ Level(k) < Cap(k)}
<1>1. ASSUME NEW k \in gone PROVE Level(k) > TTL
  BY <1>1, AbandonedLevel
<1>2. ASSUME NEW k \in Keys
      PROVE  Level(k)' = IF k \in gone THEN Cap(k) ELSE Level(k)
  <2>1. bucket'[k] = IF Abandoned(k) THEN None ELSE bucket[k]
    BY DEF Sweep
  <2>2. Level(k) \in 0 .. Cap(k) /\ Cap(k) \in Nat
    BY FoundOK, CapNat
  <2>3. CASE Abandoned(k)
    <3>1. Level(k)' = Cap(k)
      BY <2>1, <2>2, <2>3 DEF Level, Found, New, Smaller, Cap
    <3>2. QED
      BY <2>2, <2>3, <3>1
  <2>4. CASE ~Abandoned(k)
    BY <2>1, <2>4 DEF Level, Found, New, Smaller, Cap
  <2>5. QED
    BY <2>3, <2>4
<1> HIDE DEF gone
<1>3. Levels' = [k \in Keys |-> IF k \in gone THEN Ideal!Cap(k) ELSE Levels[k]]
  BY <1>2, CapIsIdeal DEF Levels
<1>4. gone \in SUBSET Keys
  BY DEF gone
<1>5. Ideal!Forget(gone)
  BY <1>1, <1>3, <1>4 DEF Ideal!Forget, Sweep, Levels
<1>6. QED
  BY <1>4, <1>5

LEMMA RestartRefines == ASSUME RateInv, Restart PROVE Ideal!Restart
<1>1. \A k \in Keys : bucket'[k] = None
  BY DEF Restart
<1>2. \A k \in Keys : Level(k)' = Cap(k)
  BY <1>1, CapNat DEF Level, Found, New, Smaller, Cap
<1>3. QED
  BY <1>2, CapIsIdeal DEF Levels, Ideal!Full, Ideal!Restart, Restart

\* The limiter admits exactly what buckets that are never dropped would admit,
\* but for a key that paused for more than TTL; there it gives back at most what
\* such a pause leaves to regain, which is nothing when a window fits in TTL.
THEOREM LimiterIsExact == Spec => ImplementsTokenBucket
<1>1. Init => Ideal!Init
  BY InitRefines
<1>2. RateInv /\ [Next]_vars => [Ideal!Next]_<<Levels, answer>>
  <2>1. SUFFICES ASSUME RateInv, [Next]_vars PROVE [Ideal!Next]_<<Levels, answer>>
    OBVIOUS
  <2>2. CASE UNCHANGED vars
    BY <2>2 DEF vars, Levels, Level, Found, New, Smaller, Cap
  <2>3. CASE \E k \in Keys : AllowUnlimited(k) \/ Allow(k)
    BY <2>1, <2>3, AllowRefines, UnlimitedRefines DEF Ideal!Next
  <2>4. CASE Tick
    BY <2>1, <2>4, TickRefines DEF Ideal!Next
  <2>5. CASE Sweep
    BY <2>1, <2>5, SweepRefines DEF Ideal!Next
  <2>6. CASE Restart
    BY <2>1, <2>6, RestartRefines DEF Ideal!Next
  <2>7. QED
    BY <2>1, <2>2, <2>3, <2>4, <2>5, <2>6 DEF Next
<1>3. QED
  BY <1>1, <1>2, RateInvariant, PTL DEF Spec, ImplementsTokenBucket, Ideal!Spec

\* With windows that fit in the idle time the janitor is invisible: the buckets it
\* drops had refilled, so a pass leaves the level of every such key as it is.
THEOREM JanitorTakesNothing == Spec => JanitorIsInvisible
<1>1. ASSUME RateInv, Sweep, NEW k \in Keys, Cap(k) <= TTL PROVE Level(k)' = Level(k)
  <2>1. bucket'[k] = IF Abandoned(k) THEN None ELSE bucket[k]
    BY <1>1 DEF Sweep
  <2>2. Level(k) \in 0 .. Cap(k) /\ Cap(k) \in Nat
    BY <1>1, FoundOK, CapNat
  <2>3. CASE Abandoned(k)
    <3>1. ~(Level(k) < Cap(k))
      <4>1. Level(k) < Cap(k) => Level(k) > TTL
        BY <1>1, <2>3, AbandonedLevel
      <4>2. QED
        BY <1>1, <2>2, <4>1, Ages
    <3>2. Level(k)' = Cap(k)
      BY <2>1, <2>2, <2>3 DEF Level, Found, New, Smaller, Cap
    <3>3. QED
      BY <2>2, <3>1, <3>2
  <2>4. CASE ~Abandoned(k)
    BY <2>1, <2>4 DEF Level, Found, New, Smaller, Cap
  <2>5. QED
    BY <2>3, <2>4
<1>2. RateInv => (Sweep => \A k \in Keys : Cap(k) <= TTL => Level(k)' = Level(k))
  BY <1>1
<1>3. QED
  BY <1>2, RateInvariant, PTL DEF JanitorIsInvisible, Spec
=============================================================================
