------------------------------ MODULE MCRemoval ------------------------------
(* Instances of AccountRemoval for TLC. *)
EXTENDS AccountRemoval

CONSTANTS u1, u2, h1, h2

\* One account under two issuers.
Alice          == <<"alice", "tenant1">>
AliceElsewhere == <<"alice", "tenant2">>
OneUser        == {Alice}
BothAlices     == {Alice, AliceElsewhere}

NoLimit == [a \in Accounts |-> 0]
=============================================================================
