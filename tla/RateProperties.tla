--------------------------- MODULE RateProperties ---------------------------
(* What the rate limiter promises, and what its janitor must not spoil. *)
EXTENDS RateLimit

Levels == [k \in Keys |-> Level(k)]
Ideal  == INSTANCE TokenBucket WITH level <- Levels

\* Allow admits what buckets that are never dropped would admit, whatever is
\* refused, refilled late or dropped in between: refusals cost nothing, a
\* dropped bucket had regained more than TTL, and so with windows up to TTL the
\* janitor is invisible.
ImplementsTokenBucket == Ideal!Spec

TypeOK ==
  /\ \A k \in Keys : bucket[k] = None \/ bucket[k] \in Buckets(k)
  /\ DOMAIN bucket = Keys
  /\ phase \in 0 .. TTL - 1
  /\ due \in BOOLEAN
  /\ answer \in Keys \X BOOLEAN \union {None}

\* The janitor bounds the memory that a churn of keys takes: no bucket outlives
\* its last event by more than two of its periods and the delay of a pass.
IdleBucketsAreDropped ==
  \A k \in Keys : bucket[k] # None => bucket[k].idle <= 2 * TTL + MaxDelay

\* Where a window fits in the idle time, a pass of the janitor changes no answer
\* to come: what it drops is full, late as it is and whenever the key was used.
JanitorIsInvisible ==
  [][Sweep => \A k \in Keys : Cap(k) <= TTL => Level(k)' = Level(k)]_vars
-----------------------------------------------------------------------------
\* The inductive invariant: an event is refused no earlier than the last one was
\* admitted; what a pass leaves behind was in use within TTL of it.
ClocksAgree ==
  \A k \in Keys : bucket[k] # None => bucket[k].since >= Smaller(bucket[k].idle, Cap(k))
PassesKeepUp ==
  /\ due => phase <= MaxDelay
  /\ \A k \in Keys : bucket[k] # None =>
       bucket[k].idle - phase <= IF due THEN 2 * TTL ELSE TTL

RateInv == TypeOK /\ ClocksAgree /\ PassesKeepUp
=============================================================================
