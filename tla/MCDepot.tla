------------------------------ MODULE MCDepot ------------------------------
(* Instances of Depot for TLC. *)
EXTENDS DepotClaims, TLC

CONSTANTS u1, u2, h1, h2

\* One account under two issuers, and a user of another account.
Alice          == <<"alice", "tenant1">>
AliceElsewhere == <<"alice", "tenant2">>
Root           == <<"root", "tenant1">>

OneUser    == {Alice}
Everyone   == {Alice, AliceElsewhere, Root}
OnlyRoot   == {Root}

\* Alice may store one large and one small file, or a single large one; Root
\* is unlimited.
AliceThree == [a \in Accounts |-> IF a = "alice" THEN 3 ELSE 0]

\* One file of one byte, and the race can take a second.
AliceOne   == [a \in Accounts |-> IF a = "alice" THEN 1 ELSE 0]

Symmetric == Permutations(Uniques) \union Permutations(Handlers)
=============================================================================
