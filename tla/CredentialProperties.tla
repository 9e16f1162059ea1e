------------------------ MODULE CredentialProperties ------------------------
(***************************************************************************)
(* What the credential chain and the API keys of module Credentials promise. *)
(***************************************************************************)
EXTENDS Credentials

\* Type invariant of the configuration, the api_keys table and the requests.
TypeOK ==
  /\ conf \in Configs
  /\ keys \in [KeyIds -> KeyRows \union {None}]
  /\ minted \subseteq KeyIds /\ revoked \subseteq KeyIds
  /\ req \in [Handlers -> Requests]
  /\ now \in Times
-----------------------------------------------------------------------------
\* keys.go: "unlike a JWT, a key is revoked instantly".  A revocation that was
\* answered with 204 holds for good: no request that had resolved the key before
\* it brings the row back when it records the use, and no later mint does.
RevokedForGood == \A k \in revoked : keys[k] = None

\* A key that had been revoked or had expired when a request arrived with it
\* never authenticates that request, however long the lookup takes.
DeadKeysAreRefused == \A h \in Handlers : req[h].dead => req[h].pc \in {"idle", "lookup"}

\* keys.go: "a leaked key cannot mint or revoke keys".  No key appears
\* in the table and none leaves it but by a request that a verified token of the
\* key's own owner authenticates: not by a key, not by the service key, not by
\* the login of another user, and not by the record of a use that comes late.
Owner(k) == IF keys[k] = None THEN keys'[k].owner ELSE keys[k].owner
KeysNeedALogin ==
  [][\A k \in KeyIds : (keys[k] = None) # (keys'[k] = None) =>
       \E h \in Handlers : /\ req[h].pc \in {"serve", "mint"}
                           /\ req[h].id.method = "oidc" /\ req[h].id.user = Owner(k)
                           /\ req'[h] = Idle]_vars

\* A request is served by a credential the running configuration enables, and
\* as an admin only through the service key or a login that the configured
\* claim admits.
Admitted(id) ==
  \/ id.method = "anonymous" /\ conf.anonymous /\ ~id.admin
  \/ id.method = "oidc" /\ conf.oidc /\ (id.admin => conf.admin)
  \/ id.method = "api_key" /\ conf.api_key /\ ~id.admin
  \/ id.method = "service_key" /\ conf.service
EnabledCredentialsOnly ==
  \A h \in Handlers : req[h].pc \in {"touch", "serve", "mint"} => Admitted(req[h].id)

\* The window in which a login can manage keys closes for good.  Once every
\* token that a user holds has run out (one without an expiry counts as having
\* none to begin with, oidc.go) and no request of that user's login is in flight,
\* the set of the user's keys is frozen and no login of that user is served
\* again, whatever the user's API keys do and whatever configuration Depot is
\* restarted with.
RunOut(t)    == t.exp = None \/ now > t.exp + Skew
SignedOut(u) == /\ \A t \in JWTs : t.user = u => RunOut(t)
                /\ \A h \in Handlers : req[h].id.user = u => req[h].id.method # "oidc"
KeysOf(u)    == {k \in KeyIds : keys[k] # None /\ keys[k].owner = u}
SignedOutForGood ==
  [][\A u \in Users : SignedOut(u) => SignedOut(u)' /\ KeysOf(u)' = KeysOf(u)]_vars
-----------------------------------------------------------------------------
\* chain.go and auth.go: a token that was presented never falls through to
\* anonymous, in every configuration.
NoSilentDowngrade ==
  \A h \in Handlers : req[h].bearer /\ req[h].pc = "serve" => req[h].id.method # "anonymous"
=============================================================================
