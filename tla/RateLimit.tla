------------------------------ MODULE RateLimit ------------------------------
(***************************************************************************)
(* The in-memory rate limiter: a bucket per key, made on the first event,   *)
(* refilled by arithmetic when it is next used, dropped by a janitor that a *)
(* ticker wakes every TTL.  Times are ages, so that time itself is not      *)
(* bounded.                                                                 *)
(*                                                                          *)
(* LevelUncapped, RefillOnRefusal, DropsNothing and DropsUnused are not part *)
(* of the system: each is the slip that the definition below it avoids.     *)
(***************************************************************************)
EXTENDS Integers

CONSTANTS
  Keys,      \* scope and caller: "presign:ip:...", "oneshot:user:...", ...
  Limit,     \* key |-> events per window, 0 for an unset rate
  Step,      \* key |-> window / limit, the ticks it takes to regain one event
  TTL,       \* idleTTL
  MaxDelay,  \* how late a pass of the janitor may start (a bound)
  None       \* no bucket, no answer

ASSUME RateAssumption  == /\ Limit \in [Keys -> Nat]
                          /\ Step \in [Keys -> Nat \ {0}]
ASSUME DelayAssumption == TTL \in Nat \ {0} /\ MaxDelay \in 0 .. TTL - 1

VARIABLES
  bucket,  \* key |-> [level, since, idle]: ticks' worth of events left when one
           \* was last admitted, and the ages of that event and of the last one
  phase,   \* ticks since the ticker fired
  due,     \* the ticker has fired and the janitor has not run yet
  answer   \* the last answer, <<key, admitted>>

vars == <<bucket, phase, due, answer>>

Cap(k)     == Limit[k] * Step[k]
Horizon    == 2 * TTL + MaxDelay + 1   \* an age is not counted beyond it
Buckets(k) == [level : 0 .. Cap(k), since : 0 .. Cap(k), idle : 0 .. Horizon]
ASSUME NoneAssumption == \A k \in Keys : None \notin Buckets(k)

New(k)     == [level |-> Cap(k), since |-> 0, idle |-> 0]
Smaller(m, n) == IF m < n THEN m ELSE n

Init ==
  /\ bucket = [k \in Keys |-> None]
  /\ phase  = 0
  /\ due    = FALSE
  /\ answer = None
-----------------------------------------------------------------------------
\* rate.Limiter: the level now, and reserveN of one event, which charges the
\* bucket and restarts its clock only when it admits.
Found(k)  == IF bucket[k] = None THEN New(k) ELSE bucket[k]
LevelUncapped(k) == Found(k).level + Found(k).since
Level(k)  == Smaller(Found(k).level + Found(k).since, Cap(k))
Charged(k) == [level |-> Level(k) - Step[k], since |-> 0, idle |-> 0]
RefillOnRefusal(k) == [level |-> Found(k).level, since |-> 0, idle |-> 0]
Refused(k) == [Found(k) EXCEPT !.idle = 0]

Keep(k, b)  == bucket' = [bucket EXCEPT ![k] = b]
Says(k, ok) == answer' = <<k, ok>>

\* Allow, under the mutex.  An unset rate admits and makes no bucket.
AllowUnlimited(k) ==
  /\ Limit[k] = 0
  /\ Says(k, TRUE)
  /\ UNCHANGED <<bucket, phase, due>>

Allow(k) ==
  /\ Limit[k] # 0
  /\ \/ Level(k) >= Step[k] /\ Keep(k, Charged(k)) /\ Says(k, TRUE)
     \/ Level(k) < Step[k] /\ Keep(k, Refused(k)) /\ Says(k, FALSE)
  /\ UNCHANGED <<phase, due>>
-----------------------------------------------------------------------------
\* A tick of the clock; the ticker fires every TTL, and the janitor, a
\* goroutine of its own, is not kept waiting for longer than MaxDelay.
Aged(k) == IF bucket[k] = None THEN None
           ELSE [bucket[k] EXCEPT !.since = Smaller(@ + 1, Cap(k)),
                                  !.idle  = Smaller(@ + 1, Horizon)]
Tick ==
  /\ due => phase < MaxDelay
  /\ bucket' = [k \in Keys |-> Aged(k)]
  /\ phase'  = (phase + 1) % TTL
  /\ due'    = (due \/ phase' = 0)
  /\ UNCHANGED answer

\* now.Sub(lastSeen) > idleTTL, for the time at which the ticker fired.
DropsNothing(k) == FALSE
DropsUnused(k) == bucket[k] # None /\ bucket[k].idle > phase
Abandoned(k) == bucket[k] # None /\ bucket[k].idle - phase > TTL

\* One pass of the janitor, under the mutex.
Sweep ==
  /\ due
  /\ due' = FALSE
  /\ bucket' = [k \in Keys |-> IF Abandoned(k) THEN None ELSE bucket[k]]
  /\ UNCHANGED <<phase, answer>>

\* Nothing is persisted: a restarted process knows no bucket.
Restart ==
  /\ bucket' = [k \in Keys |-> None]
  /\ phase' = 0
  /\ due' = FALSE
  /\ UNCHANGED answer

Next ==
  \/ \E k \in Keys : AllowUnlimited(k) \/ Allow(k)
  \/ Tick \/ Sweep \/ Restart

Spec == Init /\ [][Next]_vars
=============================================================================
