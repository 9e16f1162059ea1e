------------------------------- MODULE MCRate -------------------------------
(* An instance of RateLimit for TLC. *)
EXTENDS RateProperties

\* Two events in four ticks, within the TTL of five; one in eight, beyond it;
\* and a rate left unset.
Rates   == {"minute", "hour", "unset"}
LimitOf == [k \in Rates |-> CASE k = "minute" -> 2 [] k = "hour" -> 1 [] OTHER -> 0]
StepOf  == [k \in Rates |-> CASE k = "minute" -> 2 [] k = "hour" -> 8 [] OTHER -> 1]
=============================================================================
