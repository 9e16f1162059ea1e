----------------------------- MODULE TokenBucket -----------------------------
(***************************************************************************)
(* What the rate limiter promises: every key has a bucket of its own that   *)
(* holds Limit events, refills by one event every Step ticks and is spent by *)
(* admitted events alone.  A key that has paused for more than TTL ticks may *)
(* find its bucket full again; by then it has regained that much anyway, so  *)
(* nothing is given away unless a bucket takes longer than TTL to fill.      *)
(***************************************************************************)
EXTENDS Integers

CONSTANTS
  Keys,   \* scope and caller: "presign:ip:...", "oneshot:user:...", ...
  Limit,  \* key |-> events per window, 0 for an unset rate
  Step,   \* key |-> ticks it takes to regain one event
  TTL,    \* ticks after which the bucket of an unused key may be dropped
  None    \* no answer yet

VARIABLES
  level,  \* key |-> ticks' worth of events left
  answer  \* the last answer, <<key, admitted>>

Cap(k) == Limit[k] * Step[k]
Full   == [k \in Keys |-> Cap(k)]

Init == level = Full /\ answer = None

Admit(k) ==
  /\ Limit[k] = 0 \/ level[k] >= Step[k]
  /\ level' = [level EXCEPT ![k] = IF Limit[k] = 0 THEN @ ELSE @ - Step[k]]
  /\ answer' = <<k, TRUE>>

Refuse(k) ==
  /\ Limit[k] # 0 /\ level[k] < Step[k]
  /\ answer' = <<k, FALSE>>
  /\ UNCHANGED level

Refill ==
  /\ level' = [k \in Keys |-> IF level[k] < Cap(k) THEN level[k] + 1 ELSE Cap(k)]
  /\ UNCHANGED answer

Forget(idle) ==
  /\ \A k \in idle : level[k] > TTL
  /\ level' = [k \in Keys |-> IF k \in idle THEN Cap(k) ELSE level[k]]
  /\ UNCHANGED answer

Restart == level' = Full /\ UNCHANGED answer

Next ==
  \/ \E k \in Keys : Admit(k) \/ Refuse(k)
  \/ \E idle \in SUBSET Keys : Forget(idle)
  \/ Refill \/ Restart

Spec == Init /\ [][Next]_<<level, answer>>
=============================================================================
