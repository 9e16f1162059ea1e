------------------------------ MODULE MCUploads ------------------------------
(* An instance of UploadsTable for TLC. *)
EXTENDS UploadsProperties, TLC

CONSTANTS k1, k2, k3

Alice          == <<"alice", "tenant1">>
AliceElsewhere == <<"alice", "tenant2">>
TwoOwners      == {Alice, AliceElsewhere}
ByIssuer       == [o \in Owners |-> IF o = Alice THEN 1 ELSE 2]

\* One tenant, or the account at every issuer.
TwoScopes == {{Alice}, TwoOwners}

\* Of the rowids only their order matters, of a walk that is over the verdict; the
\* rows of one owner are in one place of the index.
Ranked(r) == [r EXCEPT !.id = Cardinality({s \in rows : s.id <= r.id})]
LiveState == <<{Ranked(r) : r \in rows}, wipe, inserts,
               CASE walk.pc = "done" -> <<WalkMissesBounded, WalkRepeatsBounded>>
                 [] walk.pc = "idle" -> walk
                 [] OTHER -> [walk EXCEPT !.plan.ties =
                                IF walk.scope = {Alice} /\ @ = "owner" THEN "asc" ELSE @]>>

Symmetric == Permutations(Keys)
=============================================================================
