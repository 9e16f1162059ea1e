----------------------------- MODULE Credentials -----------------------------
(***************************************************************************)
(* Who is calling: the credential chain that the configuration builds, and  *)
(* the life of an API key from mint to revocation, while requests that      *)
(* present it are in flight and the operator restarts Depot with other      *)
(* settings over the same database.                                         *)
(*                                                                          *)
(* An API key is resolved, touched and only then acted on; each of these is *)
(* a statement of its own, and a revocation can come between any two.       *)
(*                                                                          *)
(* A refusal (a 401 of the chain or of a verifier) leaves nothing behind,   *)
(* and is no step of the model.                                             *)
(*                                                                          *)
(* OptionalExpiry, AnyAdminClaim, ResolveOnly, TouchUpsert, ClosedToKeys    *)
(* and OpenToKeys are not part of the system: each is the plausible slip    *)
(* that the definition below it avoids.                                     *)
(***************************************************************************)
EXTENDS Integers, FiniteSets

CONSTANTS
  Users,      \* identities the OIDC provider vouches for
  Service,    \* the reserved identity of the service key, "_service"
  Nobody,     \* the anonymous caller's absent identity
  JWTs,       \* verified tokens that callers hold: user, iat, exp, grants
  KeyIds,     \* API keys that may be minted; each one at most once (a bound)
  Handlers,   \* request goroutines that may be in flight together (a bound)
  MaxTime,    \* bound on the clock
  PerSecond,  \* clock ticks per second
  Skew,       \* clockSkew of JWT verification, in ticks
  None        \* an absent row, key, expiry or issue time

Times == 0 .. MaxTime

ASSUME CallersAssumption == /\ Service \notin Users /\ Nobody \notin Users
                            /\ Service # Nobody
ASSUME JWTsAssumption    == JWTs \subseteq [user : Users, iat : Times \union {None},
                                            exp : Times \union {None}, grants : BOOLEAN]
ASSUME TimeAssumption    == /\ MaxTime \in Nat /\ Skew \in Nat
                            /\ PerSecond \in Nat \ {0}

KeyRows == [owner : Users, exp : Times \union {None}, used : BOOLEAN]

ASSUME AbsentAssumption  == None \notin Nat \union KeyIds \union KeyRows

VARIABLES
  conf,    \* the configuration Depot runs with
  keys,    \* the api_keys table: key |-> row, or None
  minted,  \* keys that have ever been in the table
  revoked, \* keys whose revocation was answered with 204
  req,     \* handler |-> the request it serves
  now      \* the clock, in ticks

vars == <<conf, keys, minted, revoked, req, now>>

\* The flags of [depot.credentials], service_key.enabled (with the environment
\* variable set) and whether an admin claim is configured.
Flags    == [anonymous : BOOLEAN, oidc : BOOLEAN, api_key : BOOLEAN,
             service : BOOLEAN, admin : BOOLEAN]
Stateful(c) == c.oidc \/ c.api_key
Configs     == {c \in Flags : c.anonymous \/ Stateful(c)}

Methods    == {"anonymous", "oidc", "api_key", "service_key"}
Identities == {i \in [user : Users \union {Service, Nobody}, method : Methods,
                       admin : BOOLEAN] :
                 i.method \in {"oidc", "api_key"} => i.user \in Users}
Stranger   == [user |-> Nobody, method |-> "anonymous", admin |-> FALSE]
Master     == [user |-> Service, method |-> "service_key", admin |-> TRUE]

\* lookup: a key was presented.  touch: its row was found, and read into id and
\* exp.  serve: the caller is known.  mint: a key's expiry exp has been accepted.
Phases   == {"idle", "lookup", "touch", "serve", "mint"}
Requests == {r \in [pc : Phases, id : Identities, key : KeyIds \union {None},
                    exp : Times \union {None},
                    bearer : BOOLEAN,  \* the request carries a Bearer token
                    dead : BOOLEAN] :  \* its key was not valid any more on arrival
               /\ r.pc \in {"lookup", "touch"} => r.key \in KeyIds
               /\ r.pc = "mint" => r.id.user \in Users}
Request(pc, id, key, bearer, dead) ==
  [pc |-> pc, id |-> id, key |-> key, exp |-> None, bearer |-> bearer, dead |-> dead]
Idle == Request("idle", Stranger, None, FALSE, FALSE)

Init ==
  /\ conf \in Configs
  /\ keys = [k \in KeyIds |-> None]
  /\ minted = {} /\ revoked = {}
  /\ req = [h \in Handlers |-> Idle]
  /\ now = 0

IsIdle(h)   == req[h].pc = "idle"
Enter(h, r) == req' = [req EXCEPT ![h] = r]
Finish(h)   == Enter(h, Idle)
Serve(h, id, bearer) == Enter(h, Request("serve", id, None, bearer, FALSE))
-----------------------------------------------------------------------------
\* A request without a token is anonymous, if that credential is enabled.
ArriveBare(h) ==
  /\ IsIdle(h)
  /\ conf.anonymous
  /\ Serve(h, Stranger, FALSE)
  /\ UNCHANGED <<conf, keys, minted, revoked, now>>

\* buildAuth makes no chain when neither a verifier nor the service key exists:
\* the plain anonymous authenticator does not look at the token.
NoTokenPath == ~conf.oidc /\ ~conf.api_key /\ ~conf.service
ArriveUnexamined(h) ==
  /\ IsIdle(h)
  /\ NoTokenPath
  /\ Serve(h, Stranger, TRUE)
  /\ UNCHANGED <<conf, keys, minted, revoked, now>>

\* The service key is compared first.  Any other token goes to the verifier its
\* shape calls for; when there is none it is refused.
ArriveService(h) ==
  /\ IsIdle(h)
  /\ conf.service
  /\ Serve(h, Master, TRUE)
  /\ UNCHANGED <<conf, keys, minted, revoked, now>>

\* verifyTime: an expiry is required, an issue time is not.
OptionalExpiry(t) ==
  /\ t.exp # None => now <= t.exp + Skew
  /\ t.iat # None => t.iat <= now + Skew
VerifyTime(t) ==
  /\ t.exp # None /\ now <= t.exp + Skew
  /\ t.iat # None => t.iat <= now + Skew

\* Admin comes from the configured claim of the verified token.
AnyAdminClaim(t) == t.grants
GrantsAdmin(t) == conf.admin /\ t.grants
ArriveJWT(h, t) ==
  /\ IsIdle(h)
  /\ conf.oidc
  /\ VerifyTime(t)
  /\ Serve(h, [user |-> t.user, method |-> "oidc", admin |-> GrantsAdmin(t)], TRUE)
  /\ UNCHANGED <<conf, keys, minted, revoked, now>>

\* The key's holder may present it from the moment its row exists; the answer
\* of the mint, which carries the raw key, comes right after.
Expired(exp) == exp # None /\ now > exp
Dead(k) == keys[k] = None \/ Expired(keys[k].exp)
ArriveKey(h, k) ==
  /\ IsIdle(h)
  /\ conf.api_key
  /\ k \in minted
  /\ Enter(h, Request("lookup", Stranger, k, TRUE, Dead(k)))
  /\ UNCHANGED <<conf, keys, minted, revoked, now>>
-----------------------------------------------------------------------------
\* ResolveKey finds the row by the key's hash; the expiry is compared with the
\* copy just read.  Anything else is a 401.
OfKey(owner) == [user |-> owner, method |-> "api_key", admin |-> FALSE]
Resolved(r, row) == [r EXCEPT !.pc = "touch", !.id = OfKey(row.owner), !.exp = row.exp]
ResolveOnly(h) ==
  /\ req[h].pc = "lookup"
  /\ IF keys[req[h].key] = None
     THEN Finish(h)
     ELSE Enter(h, Resolved(req[h], keys[req[h].key]))
  /\ UNCHANGED <<conf, keys, minted, revoked, now>>
Resolve(h) ==
  /\ req[h].pc = "lookup"
  /\ IF Dead(req[h].key)
     THEN Finish(h)
     ELSE Enter(h, Resolved(req[h], keys[req[h].key]))
  /\ UNCHANGED <<conf, keys, minted, revoked, now>>

\* TouchKey updates the row if it is still there; its failure is ignored, and
\* the request goes on with the identity of the copy.
TouchUpsert(h) ==
  /\ req[h].pc = "touch"
  /\ keys' = [keys EXCEPT ![req[h].key] =
                [owner |-> req[h].id.user, exp |-> req[h].exp, used |-> TRUE]]
  /\ Enter(h, [req[h] EXCEPT !.pc = "serve"])
  /\ UNCHANGED <<conf, minted, revoked, now>>
Touch(h) ==
  /\ req[h].pc = "touch"
  /\ \/ /\ keys[req[h].key] # None
        /\ keys' = [keys EXCEPT ![req[h].key].used = TRUE]
     \/ UNCHANGED keys
  /\ Enter(h, [req[h] EXCEPT !.pc = "serve"])
  /\ UNCHANGED <<conf, minted, revoked, now>>
-----------------------------------------------------------------------------
\* requireOIDC closes key management to everything but a login.
ClosedToKeys(h) ==
  req[h].pc = "serve" /\ Stateful(conf) /\ req[h].id.method # "api_key"
OpenToKeys(h) ==
  req[h].pc = "serve" /\ Stateful(conf) /\ req[h].id.method \in {"oidc", "api_key"}
RequireOIDC(h) ==
  req[h].pc = "serve" /\ Stateful(conf) /\ req[h].id.method = "oidc"

\* handleCreateKey: an expiry, if given, must not have passed; the table holds
\* whole seconds.
Seconds(t) == IF t = None THEN None ELSE t - (t % PerSecond)
AcceptExpiry(h, exp) ==
  /\ RequireOIDC(h)
  /\ ~Expired(exp)
  /\ Enter(h, [req[h] EXCEPT !.pc = "mint", !.exp = exp])
  /\ UNCHANGED <<conf, keys, minted, revoked, now>>

MintKey(h, k) ==
  /\ req[h].pc = "mint"
  /\ k \notin minted
  /\ keys' = [keys EXCEPT ![k] = [owner |-> req[h].id.user,
                                  exp |-> Seconds(req[h].exp), used |-> FALSE]]
  /\ minted' = minted \union {k}
  /\ Finish(h)
  /\ UNCHANGED <<conf, revoked, now>>

\* handleRevokeKey deletes one of the caller's own keys and answers 204.
RevokeKey(h, k) ==
  /\ RequireOIDC(h)
  /\ keys[k] # None /\ keys[k].owner = req[h].id.user
  /\ keys' = [keys EXCEPT ![k] = None]
  /\ revoked' = revoked \union {k}
  /\ Finish(h)
  /\ UNCHANGED <<conf, minted, now>>

\* Every other answer: another endpoint, a refusal, or a failing insert.
Answer(h) ==
  /\ req[h].pc \in {"serve", "mint"}
  /\ Finish(h)
  /\ UNCHANGED <<conf, keys, minted, revoked, now>>
-----------------------------------------------------------------------------
Tick ==
  /\ now < MaxTime
  /\ now' = now + 1
  /\ UNCHANGED <<conf, keys, minted, revoked, req>>

\* The operator starts Depot again, with any valid configuration, on the same
\* database; requests in flight are lost.
Restart(c) ==
  /\ conf' = c
  /\ req' = [h \in Handlers |-> Idle]
  /\ UNCHANGED <<keys, minted, revoked, now>>

Next ==
  \/ \E h \in Handlers : \/ ArriveBare(h) \/ ArriveUnexamined(h) \/ ArriveService(h)
                         \/ Resolve(h) \/ Touch(h) \/ Answer(h)
  \/ \E h \in Handlers, t \in JWTs : ArriveJWT(h, t)
  \/ \E h \in Handlers, k \in KeyIds : ArriveKey(h, k) \/ MintKey(h, k) \/ RevokeKey(h, k)
  \/ \E h \in Handlers, exp \in Times \union {None} : AcceptExpiry(h, exp)
  \/ Tick
  \/ \E c \in Configs : Restart(c)

Spec == Init /\ [][Next]_vars
=============================================================================
