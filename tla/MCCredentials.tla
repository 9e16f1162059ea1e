---------------------------- MODULE MCCredentials ----------------------------
(* Instances of Credentials for TLC. *)
EXTENDS CredentialProperties, TLC

CONSTANTS alice, bob, k1, k2, h1, h2

\* Alice holds a token that ends early and one without an expiry, so that she
\* can be signed out for good; Bob one without an issue time that carries the
\* admin claim, and one that is dated ahead.
SomeJWTs == {[user |-> alice, iat |-> 0, exp |-> 0, grants |-> FALSE],
             [user |-> alice, iat |-> 0, exp |-> None, grants |-> FALSE],
             [user |-> bob, iat |-> None, exp |-> 2, grants |-> TRUE],
             [user |-> bob, iat |-> 2, exp |-> 2, grants |-> FALSE]}

Symmetric == Permutations(KeyIds) \union Permutations(Handlers)
=============================================================================
