-------------------------- MODULE CredentialProofs --------------------------
(***************************************************************************)
(* Proofs about the credential chain and the life of API keys.              *)
(***************************************************************************)
EXTENDS CredentialProperties, TLAPS

\* Cutting an expiry to whole seconds leaves a time, and no later one.
LEMMA SecondsIsTime ==
  ASSUME NEW t \in Times \union {None}
  PROVE  Seconds(t) \in Times \union {None}
<1>1. ASSUME NEW n \in Nat, NEW d \in Nat \ {0}
      PROVE  n % d \in 0 .. n
  OBVIOUS
<1>2. QED
  BY <1>1, TimeAssumption, AbsentAssumption DEF Seconds, Times

LEMMA StrangerTyped == Stranger \in Identities
  BY DEF Identities, Stranger, Methods

LEMMA IdleTyped == Idle \in Requests
  BY StrangerTyped DEF Idle, Request, Requests, Phases

\* A handler that moves to a well-formed request keeps req well-formed.
LEMMA EnterTyped ==
  ASSUME req \in [Handlers -> Requests], NEW h \in Handlers, NEW r \in Requests, Enter(h, r)
  PROVE  req' \in [Handlers -> Requests]
  BY DEF Enter

LEMMA TypeInit == Init => TypeOK
  BY IdleTyped, TimeAssumption DEF Init, TypeOK, Times

LEMMA ArrivalTyped ==
  ASSUME TypeOK, NEW h \in Handlers, NEW id \in Identities, NEW b \in BOOLEAN,
         Serve(h, id, b)
  PROVE  req' \in [Handlers -> Requests]
<1>1. Request("serve", id, None, b, FALSE) \in Requests
  BY StrangerTyped DEF Request, Requests, Phases
<1>2. QED
  BY <1>1, EnterTyped DEF Serve, TypeOK

LEMMA TypeStep == TypeOK /\ [Next]_vars => TypeOK'
<1> SUFFICES ASSUME TypeOK, [Next]_vars
             PROVE  TypeOK'
  OBVIOUS
<1>1. ASSUME NEW h \in Handlers, ArriveBare(h) \/ ArriveUnexamined(h) \/ ArriveService(h)
      PROVE  TypeOK'
  <2>1. Stranger \in Identities /\ Master \in Identities
    BY DEF Stranger, Master, Identities, Methods
  <2>2. req' \in [Handlers -> Requests]
    BY <1>1, <2>1, ArrivalTyped DEF ArriveBare, ArriveUnexamined, ArriveService
  <2>3. QED
    BY <1>1, <2>2 DEF ArriveBare, ArriveUnexamined, ArriveService, TypeOK
<1>2. ASSUME NEW h \in Handlers, NEW t \in JWTs, ArriveJWT(h, t)
      PROVE  TypeOK'
  <2>1. t.user \in Users /\ t.grants \in BOOLEAN /\ conf.admin \in BOOLEAN
    BY JWTsAssumption DEF TypeOK, Configs, Flags
  <2>2. [user |-> t.user, method |-> "oidc", admin |-> GrantsAdmin(t)] \in Identities
    BY <2>1 DEF Identities, Methods, GrantsAdmin
  <2>3. req' \in [Handlers -> Requests]
    BY <1>2, <2>2, ArrivalTyped DEF ArriveJWT
  <2>4. QED
    BY <1>2, <2>1, <2>3 DEF ArriveJWT, TypeOK
<1>3. ASSUME NEW h \in Handlers, NEW k \in KeyIds, ArriveKey(h, k)
      PROVE  TypeOK'
  <2>1. PICK d \in BOOLEAN :
          Enter(h, Request("lookup", Stranger, k, TRUE, d))
    BY <1>3 DEF ArriveKey, Dead, Expired
  <2>2. req' \in [Handlers -> Requests]
    <3>1. Request("lookup", Stranger, k, TRUE, d) \in Requests
      BY StrangerTyped DEF Request, Requests, Phases
    <3>2. QED
      BY <2>1, <3>1, EnterTyped DEF TypeOK
  <2>3. QED
    BY <1>3, <2>2 DEF ArriveKey, TypeOK
<1>4. ASSUME NEW h \in Handlers, Resolve(h)
      PROVE  TypeOK'
  <2>1. req[h] \in Requests /\ req[h].key \in KeyIds
    BY <1>4 DEF TypeOK, Requests, Resolve
  <2>2. CASE Finish(h)
    BY <1>4, <2>2, IdleTyped, EnterTyped DEF Resolve, Finish, TypeOK
  <2>3. CASE keys[req[h].key] # None /\ Enter(h, Resolved(req[h], keys[req[h].key]))
    <3>1. ASSUME NEW row \in KeyRows
          PROVE  Resolved(req[h], row) \in Requests
      <4>1. OfKey(row.owner) \in Identities /\ row.exp \in Times \union {None}
        BY <3>1 DEF OfKey, Identities, Methods, KeyRows
      <4>2. QED
        BY <2>1, <4>1 DEF Resolved, Requests, Phases
    <3>2. keys[req[h].key] \in KeyRows
      BY <2>1, <2>3 DEF TypeOK
    <3>3. req' \in [Handlers -> Requests]
      BY <2>3, <3>1, <3>2, EnterTyped DEF TypeOK
    <3>4. QED
      BY <1>4, <3>3 DEF Resolve, TypeOK
  <2>4. QED
    BY <1>4, <2>2, <2>3 DEF Resolve, Dead
<1>5. ASSUME NEW h \in Handlers, Touch(h)
      PROVE  TypeOK'
  <2>1. req[h] \in Requests /\ req[h].key \in KeyIds
    BY <1>5 DEF TypeOK, Requests, Touch
  <2>2. [req[h] EXCEPT !.pc = "serve"] \in Requests
    BY <2>1 DEF Requests, Phases
  <2>3. req' \in [Handlers -> Requests]
    BY <1>5, <2>2, EnterTyped DEF Touch, TypeOK
  <2>4. keys' \in [KeyIds -> KeyRows \union {None}]
    <3>1. ASSUME NEW row \in KeyRows
          PROVE  [row EXCEPT !.used = TRUE] \in KeyRows
      BY <3>1 DEF KeyRows
    <3>2. QED
      BY <1>5, <2>1, <3>1 DEF Touch, TypeOK
  <2>5. QED
    BY <1>5, <2>3, <2>4 DEF Touch, TypeOK
<1>6. ASSUME NEW h \in Handlers, NEW e \in Times \union {None}, AcceptExpiry(h, e)
      PROVE  TypeOK'
  <2>1. req[h] \in Requests /\ req[h].id.user \in Users
    BY <1>6 DEF AcceptExpiry, RequireOIDC, TypeOK, Requests, Identities
  <2> DEFINE r == [req[h] EXCEPT !.pc = "mint", !.exp = e]
  <2>2. r \in Requests
    BY <2>1 DEF Requests, Phases
  <2>3. req' \in [Handlers -> Requests]
    BY <1>6, <2>2, EnterTyped DEF AcceptExpiry, TypeOK
  <2>4. QED
    BY <1>6, <2>3 DEF AcceptExpiry, TypeOK
<1>7. ASSUME NEW h \in Handlers, NEW k \in KeyIds, MintKey(h, k)
      PROVE  TypeOK'
  <2>1. req[h].id.user \in Users /\ req[h].exp \in Times \union {None}
    BY <1>7 DEF MintKey, TypeOK, Requests, Identities
  <2>2. [owner |-> req[h].id.user, exp |-> Seconds(req[h].exp), used |-> FALSE] \in KeyRows
    BY <2>1, SecondsIsTime DEF KeyRows
  <2>3. keys' \in [KeyIds -> KeyRows \union {None}]
    BY <1>7, <2>2 DEF MintKey, TypeOK
  <2>4. req' \in [Handlers -> Requests]
    BY <1>7, IdleTyped, EnterTyped DEF MintKey, Finish, TypeOK
  <2>5. QED
    BY <1>7, <2>3, <2>4 DEF MintKey, TypeOK
<1>8. ASSUME NEW h \in Handlers, NEW k \in KeyIds, RevokeKey(h, k)
      PROVE  TypeOK'
  BY <1>8, IdleTyped, EnterTyped DEF RevokeKey, Finish, TypeOK
<1>9. ASSUME NEW h \in Handlers, Answer(h)
      PROVE  TypeOK'
  BY <1>9, IdleTyped, EnterTyped DEF Answer, Finish, TypeOK
<1>10. CASE Tick
  BY <1>10, TimeAssumption DEF Tick, TypeOK, Times
<1>11. ASSUME NEW c \in Configs, Restart(c)
       PROVE  TypeOK'
  BY <1>11, IdleTyped DEF Restart, TypeOK
<1>12. CASE UNCHANGED vars
  BY <1>12 DEF vars, TypeOK
<1>13. QED
  BY <1>1, <1>2, <1>3, <1>4, <1>5, <1>6, <1>7, <1>8, <1>9, <1>10, <1>11, <1>12 DEF Next

\* Type correctness of the api_keys table and of the callers' identities: no
\* row belongs to the service key or to nobody, since requireOIDC guards mint.
THEOREM TypeCorrect == Spec => []TypeOK
  BY TypeInit, TypeStep, PTL DEF Spec
-----------------------------------------------------------------------------
\* A key out of the table never comes back: TouchKey only updates, and a minted
\* key is a new one.
KeyLife ==
  /\ revoked \subseteq minted
  /\ \A k \in KeyIds : keys[k] # None => k \in minted /\ k \notin revoked

\* A key that was dead on arrival is one that can only stay dead.
DeadStayDead ==
  \A h \in Handlers : req[h].dead =>
    /\ req[h].pc \in {"idle", "lookup"}
    /\ \A k \in KeyIds : req[h].pc = "lookup" /\ req[h].key = k => k \in minted /\ Dead(k)

KeyInv == KeyLife /\ DeadStayDead

\* What a step may do to a row of the table.
SameKey(k) == /\ keys[k] # None /\ keys'[k] # None
              /\ keys'[k].owner = keys[k].owner /\ keys'[k].exp = keys[k].exp

LEMMA KeysStep ==
  ASSUME TypeOK, [Next]_vars, NEW k \in KeyIds
  PROVE  \/ keys'[k] = keys[k]
         \/ keys'[k] = None
         \/ SameKey(k)
         \/ \E h \in Handlers : MintKey(h, k)
<1>1. ASSUME NEW h \in Handlers, Touch(h)
      PROVE  keys'[k] = keys[k] \/ SameKey(k)
  <2>1. CASE UNCHANGED keys
    BY <2>1
  <2>2. CASE /\ keys[req[h].key] # None
             /\ keys' = [keys EXCEPT ![req[h].key].used = TRUE]
    <3>1. CASE k # req[h].key
      BY <2>2, <3>1 DEF TypeOK
    <3>2. CASE k = req[h].key
      <4>1. keys[k] \in KeyRows /\ keys'[k] = [keys[k] EXCEPT !.used = TRUE]
        BY <2>2, <3>2 DEF TypeOK
      <4>2. keys'[k] \in KeyRows
        BY <4>1 DEF KeyRows
      <4>3. keys'[k].owner = keys[k].owner /\ keys'[k].exp = keys[k].exp
        BY <4>1 DEF KeyRows
      <4>4. QED
        BY <4>1, <4>2, <4>3, AbsentAssumption DEF SameKey
    <3>3. QED
      BY <3>1, <3>2
  <2>3. QED
    BY <1>1, <2>1, <2>2 DEF Touch
<1>2. ASSUME NEW h \in Handlers, NEW d \in KeyIds, MintKey(h, d) \/ RevokeKey(h, d)
      PROVE  d = k \/ keys'[k] = keys[k]
  BY <1>2 DEF MintKey, RevokeKey, TypeOK
<1>3. ASSUME NEW h \in Handlers, RevokeKey(h, k)
      PROVE  keys'[k] = None
  BY <1>3 DEF RevokeKey, TypeOK
<1>4. QED
  BY <1>1, <1>2, <1>3
     DEF Next, vars, ArriveBare, ArriveUnexamined, ArriveService, ArriveJWT, ArriveKey,
         Resolve, AcceptExpiry, Answer, Tick, Restart

LEMMA KeyLifeStep == TypeOK /\ KeyLife /\ [Next]_vars => KeyLife'
<1> SUFFICES ASSUME TypeOK, KeyLife, [Next]_vars
             PROVE  KeyLife'
  OBVIOUS
<1>1. ASSUME NEW h \in Handlers, Touch(h)
      PROVE  KeyLife'
  <2>1. req[h].key \in KeyIds
    BY <1>1 DEF Touch, TypeOK, Requests
  <2>2. QED
    BY <1>1, <2>1 DEF Touch, KeyLife, TypeOK
<1>2. ASSUME NEW h \in Handlers, NEW k \in KeyIds, MintKey(h, k)
      PROVE  KeyLife'
  BY <1>2 DEF MintKey, KeyLife, TypeOK
<1>3. ASSUME NEW h \in Handlers, NEW k \in KeyIds, RevokeKey(h, k)
      PROVE  KeyLife'
  BY <1>3 DEF RevokeKey, KeyLife, TypeOK
<1>4. CASE UNCHANGED <<keys, minted, revoked>>
  BY <1>4 DEF KeyLife
<1>5. QED
  BY <1>1, <1>2, <1>3, <1>4
     DEF Next, vars, ArriveBare, ArriveUnexamined, ArriveService, ArriveJWT, ArriveKey,
         Resolve, AcceptExpiry, Answer, Tick, Restart

LEMMA StaysDead ==
  ASSUME TypeOK, KeyLife, [Next]_vars, NEW k \in KeyIds, k \in minted, Dead(k)
  PROVE  k \in minted' /\ Dead(k)'
<1>1. minted \subseteq minted'
  BY DEF Next, vars, ArriveBare, ArriveUnexamined, ArriveService, ArriveJWT, ArriveKey,
         Resolve, Touch, AcceptExpiry, MintKey, RevokeKey, Answer, Tick, Restart
<1>2. now' \in {now, now + 1}
  BY DEF Next, vars, ArriveBare, ArriveUnexamined, ArriveService, ArriveJWT, ArriveKey,
         Resolve, Touch, AcceptExpiry, MintKey, RevokeKey, Answer, Tick, Restart
<1>3. keys'[k] = keys[k] \/ keys'[k] = None \/ SameKey(k)
  BY KeysStep DEF MintKey
<1>4. CASE keys[k] = None
  BY <1>1, <1>3, <1>4 DEF Dead, SameKey
<1>5. CASE keys[k] # None
  <2>1. keys[k] \in KeyRows
    BY <1>5 DEF TypeOK
  <2>2. keys'[k] = None \/ keys'[k].exp = keys[k].exp
    BY <1>3 DEF SameKey
  <2>3. now' > keys[k].exp /\ keys[k].exp # None
    BY <1>2, <1>5, <2>1, TimeAssumption DEF Dead, Expired, KeyRows, Times, TypeOK
  <2>4. QED
    BY <1>1, <2>2, <2>3 DEF Dead, Expired
<1>6. QED
  BY <1>4, <1>5

\* A request is dead when it arrives with a dead key, or was so already.
LEMMA DeadFromArrival ==
  ASSUME TypeOK, DeadStayDead, [Next]_vars, NEW g \in Handlers, req'[g].dead
  PROVE  \/ req[g].dead /\ req'[g] = req[g]
         \/ /\ req'[g].pc = "lookup" /\ UNCHANGED <<keys, minted, now>>
            /\ \E k \in KeyIds : req'[g].key = k /\ k \in minted /\ Dead(k)
<1>1. ASSUME NEW h \in Handlers, NEW k \in KeyIds, ArriveKey(h, k), g = h
      PROVE  /\ req'[g].pc = "lookup" /\ req'[g].key = k /\ k \in minted /\ Dead(k)
             /\ UNCHANGED <<keys, minted, now>>
  BY <1>1 DEF ArriveKey, Enter, Request, TypeOK
<1>2. ASSUME NEW h \in Handlers, NEW r, Enter(h, r)
      PROVE  IF g = h THEN req'[g] = r ELSE req'[g] = req[g]
  BY <1>2 DEF Enter, TypeOK
<1>3. ~Idle.dead
  BY DEF Idle, Request
<1>4. ASSUME NEW h \in Handlers, NEW id, NEW b, Serve(h, id, b), g = h
      PROVE  FALSE
  <2>1. req'[g] = Request("serve", id, None, b, FALSE)
    BY <1>4 DEF Serve, Enter, TypeOK
  <2>2. QED
    BY <2>1 DEF Idle, Request
<1>5. ASSUME NEW h \in Handlers, Finish(h), g = h
      PROVE  FALSE
  BY <1>2, <1>3, <1>5 DEF Finish
<1>6. ASSUME NEW h \in Handlers, Resolve(h), g = h
      PROVE  FALSE
  <2>1. req[h].pc = "lookup" /\ req[h] \in Requests /\ req[h].key \in KeyIds
    BY <1>6 DEF Resolve, TypeOK, Requests
  <2>2. ~Finish(h)
    BY <1>5, <1>6
  <2>3. ~req[h].dead
    BY <1>6, <2>1, <2>2 DEF Resolve, DeadStayDead
  <2>4. req'[g] = Resolved(req[h], keys[req[h].key])
    BY <1>2, <1>6, <2>2 DEF Resolve
  <2>5. QED
    BY <2>1, <2>3, <2>4 DEF Resolved, Requests
<1>7. ASSUME NEW h \in Handlers, Touch(h) \/ \E e \in Times \union {None} : AcceptExpiry(h, e),
             g = h
      PROVE  FALSE
  <2>1. ~req[h].dead /\ req[h] \in Requests
    BY <1>7 DEF Touch, AcceptExpiry, RequireOIDC, DeadStayDead, TypeOK
  <2>2. CASE Touch(h)
    <3>1. req'[g] = [req[h] EXCEPT !.pc = "serve"]
      BY <1>7, <2>2 DEF Touch, Enter, TypeOK
    <3>2. QED
      BY <2>1, <3>1 DEF Requests
  <2>3. CASE \E e \in Times \union {None} : AcceptExpiry(h, e)
    <3>1. PICK e : req'[g] = [req[h] EXCEPT !.pc = "mint", !.exp = e]
      BY <1>7, <2>3 DEF AcceptExpiry, Enter, TypeOK
    <3>2. QED
      BY <2>1, <3>1 DEF Requests
  <2>4. QED
    BY <1>7, <2>2, <2>3
<1>8. CASE \E c \in Configs : Restart(c)
  BY <1>3, <1>8 DEF Restart
<1>9. CASE Tick \/ UNCHANGED vars
  BY <1>9 DEF Tick, vars
<1>10. QED
  BY <1>1, <1>2, <1>4, <1>5, <1>6, <1>7, <1>8, <1>9
     DEF Next, ArriveBare, ArriveUnexamined, ArriveService, ArriveJWT, ArriveKey,
         Resolve, Touch, AcceptExpiry, MintKey, RevokeKey, Answer, Serve, Finish

LEMMA DeadStep == TypeOK /\ KeyInv /\ [Next]_vars => DeadStayDead'
<1> SUFFICES ASSUME TypeOK, KeyInv, [Next]_vars, NEW g \in Handlers, req'[g].dead
             PROVE  /\ req'[g].pc \in {"idle", "lookup"}
                    /\ \A k \in KeyIds : req'[g].pc = "lookup" /\ req'[g].key = k
                                           => k \in minted' /\ Dead(k)'
  BY DEF DeadStayDead
<1>1. CASE req[g].dead /\ req'[g] = req[g]
  <2>1. req[g].pc \in {"idle", "lookup"}
    BY <1>1 DEF KeyInv, DeadStayDead
  <2>2. ASSUME NEW k \in KeyIds, req[g].pc = "lookup", req[g].key = k
        PROVE  k \in minted' /\ Dead(k)'
    BY <1>1, <2>2, StaysDead DEF KeyInv, DeadStayDead
  <2>3. QED
    BY <1>1, <2>1, <2>2
<1>2. CASE /\ req'[g].pc = "lookup" /\ UNCHANGED <<keys, minted, now>>
           /\ \E k \in KeyIds : req'[g].key = k /\ k \in minted /\ Dead(k)
  BY <1>2 DEF Dead, Expired
<1>3. QED
  BY <1>1, <1>2, DeadFromArrival DEF KeyInv

\* The inductive invariant of the table and of the dead keys in flight.
THEOREM KeyInvariant == Spec => [](TypeOK /\ KeyInv)
<1>1. Init => KeyInv
  BY DEF Init, KeyInv, KeyLife, DeadStayDead, Idle, Request
<1>2. TypeOK /\ KeyInv /\ [Next]_vars => KeyInv'
  BY KeyLifeStep, DeadStep DEF KeyInv
<1>3. QED
  BY <1>1, <1>2, TypeCorrect, PTL DEF Spec

\* A revocation that was answered holds for good (handleRevokeKey, TouchKey).
THEOREM RevocationIsFinal == Spec => []RevokedForGood
<1>1. TypeOK /\ KeyInv => RevokedForGood
  BY DEF TypeOK, KeyInv, KeyLife, RevokedForGood
<1>2. QED
  BY <1>1, KeyInvariant, PTL

\* A revoked or expired key authenticates no request that arrives with it, at
\* whatever point its lookup meets other requests (ResolveKey, Authenticate).
THEOREM DeadKeysRefused == Spec => []DeadKeysAreRefused
<1>1. KeyInv => DeadKeysAreRefused
  BY DEF KeyInv, DeadStayDead, DeadKeysAreRefused
<1>2. QED
  BY <1>1, KeyInvariant, PTL
-----------------------------------------------------------------------------
\* What the chain guarantees of the caller of one request.
CallerInv(h) ==
  /\ req[h].pc \in {"touch", "serve", "mint"} => Admitted(req[h].id)
  /\ req[h].pc = "lookup" => conf.api_key
  /\ req[h].pc = "touch" => req[h].id.method = "api_key"
  /\ req[h].pc = "mint" => req[h].id.method = "oidc"

ChainInv == \A h \in Handlers : CallerInv(h)

\* A request that moves keeps its caller admitted.
LEMMA CallersStep == TypeOK /\ ChainInv /\ [Next]_vars => ChainInv'
<1> SUFFICES ASSUME TypeOK, ChainInv, [Next]_vars, NEW g \in Handlers
             PROVE  CallerInv(g)'
  BY DEF ChainInv
<1> USE DEF CallerInv, Admitted
<1>1. CallerInv(g)
  BY DEF ChainInv
<1>2. ASSUME UNCHANGED conf, req'[g] = req[g]
      PROVE  CallerInv(g)'
  BY <1>1, <1>2
<1>3. ASSUME req'[g] = Idle
      PROVE  CallerInv(g)'
  BY <1>3 DEF Idle, Request, Stranger
<1>4. ASSUME NEW h \in Handlers, NEW r, Enter(h, r)
      PROVE  IF g = h THEN req'[g] = r ELSE req'[g] = req[g]
  BY <1>4 DEF Enter, TypeOK
<1>5. ASSUME NEW h \in Handlers, ArriveBare(h) \/ ArriveUnexamined(h) \/ ArriveService(h)
      PROVE  CallerInv(g)'
  <2>1. PICK b \in BOOLEAN, id \in {Stranger, Master} :
          /\ Enter(h, Request("serve", id, None, b, FALSE))
          /\ \/ id = Stranger /\ conf.anonymous
             \/ id = Master /\ conf.service
    BY <1>5 DEF ArriveBare, ArriveUnexamined, ArriveService, Serve, TypeOK, Configs, Stateful, NoTokenPath
  <2>2. CASE g = h
    <3>1. req'[g].id = id /\ req'[g].pc = "serve"
      BY <1>4, <2>1, <2>2 DEF Idle, Request
    <3>2. UNCHANGED conf
      BY <1>5 DEF ArriveBare, ArriveUnexamined, ArriveService
    <3>3. QED
      BY <2>1, <3>1, <3>2 DEF Stranger, Master
  <2>3. CASE g # h
    <3>1. UNCHANGED conf
      BY <1>5 DEF ArriveBare, ArriveUnexamined, ArriveService
    <3>2. QED
      BY <1>2, <1>4, <2>1, <2>3, <3>1
  <2>4. QED
    BY <2>2, <2>3
<1>6. ASSUME NEW h \in Handlers, NEW t \in JWTs, ArriveJWT(h, t)
      PROVE  CallerInv(g)'
  <2>1. Enter(h, Request("serve", [user |-> t.user, method |-> "oidc", admin |-> GrantsAdmin(t)],
                     None, TRUE, FALSE))
    BY <1>6 DEF ArriveJWT, Serve, Idle, Request
  <2>2. conf.oidc /\ UNCHANGED conf
    BY <1>6 DEF ArriveJWT
  <2>3. CASE g = h
    <3>1. /\ req'[g].id = [user |-> t.user, method |-> "oidc", admin |-> GrantsAdmin(t)]
          /\ req'[g].pc = "serve"
      BY <1>4, <2>1, <2>3 DEF Idle, Request
    <3>2. /\ req'[g].id.user = t.user /\ req'[g].id.method = "oidc"
          /\ req'[g].id.admin = GrantsAdmin(t)
      BY <3>1
    <3>3. req'[g].id.admin => conf'.admin
      BY <2>2, <3>2 DEF GrantsAdmin
    <3>4. QED
      BY <2>2, <3>1, <3>2, <3>3
  <2>4. QED
    BY <1>2, <1>4, <2>1, <2>2, <2>3
<1>7. ASSUME NEW h \in Handlers, NEW k \in KeyIds, ArriveKey(h, k)
      PROVE  CallerInv(g)'
  <2>1. PICK d : Enter(h, Request("lookup", Stranger, k, TRUE, d))
    BY <1>7 DEF ArriveKey
  <2>2. conf.api_key /\ UNCHANGED conf
    BY <1>7 DEF ArriveKey
  <2>3. CASE g = h
    <3>1. req'[g].id = Stranger /\ req'[g].pc = "lookup"
      BY <1>4, <2>1, <2>3 DEF Idle, Request
    <3>2. QED
      BY <2>2, <3>1 DEF Stranger
  <2>4. QED
    BY <1>2, <1>4, <2>1, <2>2, <2>3
<1>8. ASSUME NEW h \in Handlers, Resolve(h)
      PROVE  CallerInv(g)'
  <2>1. req[h].pc = "lookup" /\ req[h] \in Requests /\ req[h].key \in KeyIds
    BY <1>8 DEF Resolve, TypeOK, Requests
  <2>2. conf.api_key /\ UNCHANGED conf
    BY <1>8, <2>1 DEF Resolve, ChainInv
  <2>3. CASE g = h /\ ~Finish(h)
    <3>1. keys[req[h].key] # None /\ req'[g] = Resolved(req[h], keys[req[h].key])
      BY <1>4, <1>8, <2>3 DEF Resolve, Dead
    <3>2. req'[g].id = OfKey(keys[req[h].key].owner) /\ req'[g].pc = "touch"
      BY <2>1, <3>1 DEF Resolved, Requests
    <3>3. QED
      BY <2>2, <3>2 DEF OfKey
  <2>4. CASE g # h /\ ~Finish(h)
    BY <1>2, <1>4, <1>8, <2>2, <2>4 DEF Resolve
  <2>5. CASE Finish(h)
    BY <1>2, <1>3, <1>4, <2>2, <2>5 DEF Finish
  <2>6. QED
    BY <2>3, <2>4, <2>5
<1>9. ASSUME NEW h \in Handlers, NEW pc \in {"serve", "mint"}, NEW r,
             Enter(h, r), UNCHANGED conf,
             r.id = req[h].id, r.pc = pc,
             pc = "serve" => req[h].pc = "touch",
             pc = "mint" => req[h].pc = "serve" /\ req[h].id.method = "oidc"
      PROVE  CallerInv(g)'
  <2>1. CallerInv(h)
    BY DEF ChainInv
  <2>2. QED
    BY <1>2, <1>4, <1>9, <2>1
<1>10. ASSUME NEW h \in Handlers, Touch(h)
       PROVE  CallerInv(g)'
  <2>1. req[h] \in Requests
    BY DEF TypeOK
  <2>2. /\ [req[h] EXCEPT !.pc = "serve"].id = req[h].id
        /\ [req[h] EXCEPT !.pc = "serve"].pc = "serve"
    BY <2>1 DEF Requests
  <2>3. QED
    BY <1>9, <1>10, <2>2 DEF Touch
<1>11. ASSUME NEW h \in Handlers, NEW e \in Times \union {None}, AcceptExpiry(h, e)
       PROVE  CallerInv(g)'
  <2>1. req[h] \in Requests
    BY DEF TypeOK
  <2>2. /\ [req[h] EXCEPT !.pc = "mint", !.exp = e].id = req[h].id
        /\ [req[h] EXCEPT !.pc = "mint", !.exp = e].pc = "mint"
    BY <2>1 DEF Requests
  <2>3. QED
    BY <1>9, <1>11, <2>2 DEF AcceptExpiry, RequireOIDC
<1>12. ASSUME NEW h \in Handlers,
              Answer(h) \/ \E k \in KeyIds : MintKey(h, k) \/ RevokeKey(h, k)
       PROVE  CallerInv(g)'
  <2>1. Finish(h) /\ UNCHANGED conf
    BY <1>12 DEF Answer, MintKey, RevokeKey
  <2>2. QED
    BY <1>2, <1>3, <1>4, <2>1 DEF Finish
<1>13. ASSUME NEW c \in Configs, Restart(c)
       PROVE  CallerInv(g)'
  BY <1>3, <1>13 DEF Restart
<1>14. CASE Tick \/ UNCHANGED vars
  BY <1>2, <1>14 DEF Tick, vars
<1>15. QED
  BY <1>5, <1>6, <1>7, <1>8, <1>10, <1>11, <1>12, <1>13, <1>14 DEF Next

\* The inductive invariant of the credential chain.
THEOREM ChainInvariant == Spec => [](TypeOK /\ ChainInv)
<1>1. Init => ChainInv
  BY DEF Init, ChainInv, CallerInv, Idle, Request
<1>2. QED
  BY <1>1, CallersStep, TypeCorrect, PTL DEF Spec

\* No configuration serves a caller by a credential it does not enable, and no
\* API key and no anonymous caller is ever an admin (buildAuth, Identity.Admin).
THEOREM OnlyEnabled == Spec => []EnabledCredentialsOnly
<1>1. ChainInv => EnabledCredentialsOnly
  BY DEF ChainInv, CallerInv, EnabledCredentialsOnly
<1>2. QED
  BY <1>1, ChainInvariant, PTL

-----------------------------------------------------------------------------
\* A key appears in the table and leaves it only by a mint or a revocation, and
\* what is minted or revoked is a key of the caller's.
LEMMA KeysMove ==
  ASSUME TypeOK, [Next]_vars, NEW k \in KeyIds, (keys[k] = None) # (keys'[k] = None)
  PROVE  \E h \in Handlers : /\ MintKey(h, k) \/ RevokeKey(h, k)
                             /\ req[h].id.user = Owner(k)
<1>1. ASSUME NEW h \in Handlers, NEW d \in KeyIds, MintKey(h, d) \/ RevokeKey(h, d)
      PROVE  d = k
  BY <1>1 DEF MintKey, RevokeKey, TypeOK
<1>2. ASSUME NEW h \in Handlers
      PROVE  ~Touch(h)
  <2>1. SUFFICES ASSUME Touch(h) PROVE FALSE
    OBVIOUS
  <2>2. PICK d \in KeyIds : d = req[h].key
    BY <2>1 DEF Touch, TypeOK, Requests
  <2>3. keys[d] # None /\ keys' = [keys EXCEPT ![d].used = TRUE]
    BY <2>1, <2>2 DEF Touch
  <2>4. d = k
    BY <2>3 DEF TypeOK
  <2>5. keys[d] \in KeyRows /\ keys'[d] = [keys[d] EXCEPT !.used = TRUE]
    BY <2>3 DEF TypeOK
  <2>6. keys'[d] \in KeyRows
    BY <2>5 DEF KeyRows
  <2>7. QED
    BY <2>3, <2>4, <2>6, AbsentAssumption
<1>3. keys' # keys
  OBVIOUS
<1>4. PICK h \in Handlers : MintKey(h, k) \/ RevokeKey(h, k)
  BY <1>1, <1>2, <1>3
     DEF Next, vars, ArriveBare, ArriveUnexamined, ArriveService, ArriveJWT, ArriveKey,
         Resolve, AcceptExpiry, Answer, Tick, Restart
<1>5. CASE MintKey(h, k)
  <2>1. keys'[k] = [owner |-> req[h].id.user, exp |-> Seconds(req[h].exp), used |-> FALSE]
    BY <1>5 DEF MintKey, TypeOK
  <2>2. req[h].id.user \in Users /\ req[h].exp \in Times \union {None}
    BY <1>5 DEF MintKey, TypeOK, Requests
  <2>3. keys'[k] \in KeyRows
    BY <2>1, <2>2, SecondsIsTime DEF KeyRows
  <2>4. keys'[k] # None
    BY <2>3, AbsentAssumption
  <2>5. keys[k] = None
    BY <2>4
  <2>6. Owner(k) = req[h].id.user
    BY <2>1, <2>5 DEF Owner
  <2>7. QED
    BY <1>5, <2>6
<1>6. CASE RevokeKey(h, k)
  BY <1>6 DEF RevokeKey, Owner
<1>7. QED
  BY <1>4, <1>5, <1>6

\* A leaked API key can neither mint nor revoke: whatever else is in flight, the
\* table gains and loses keys by the logins of their owners (requireOIDC,
\* handleCreateKey, handleRevokeKey, TouchKey).
THEOREM KeysByLogins == Spec => KeysNeedALogin
<1>1. ASSUME TypeOK, ChainInv, [Next]_vars, NEW k \in KeyIds, (keys[k] = None) # (keys'[k] = None)
      PROVE  \E h \in Handlers : /\ req[h].pc \in {"serve", "mint"}
                                 /\ req[h].id.method = "oidc" /\ req[h].id.user = Owner(k)
                                 /\ req'[h] = Idle
  <2>2. PICK g \in Handlers : /\ MintKey(g, k) \/ RevokeKey(g, k)
                              /\ req[g].id.user = Owner(k)
    BY <1>1, KeysMove
  <2>3. req[g].pc \in {"serve", "mint"} /\ req[g].id.method = "oidc"
    BY <1>1, <2>2 DEF MintKey, RevokeKey, RequireOIDC, ChainInv, CallerInv
  <2>4. req'[g] = Idle
    BY <1>1, <2>2 DEF MintKey, RevokeKey, Finish, Enter, TypeOK
  <2>5. QED
    BY <2>2, <2>3, <2>4
<1>2. TypeOK /\ ChainInv /\ [Next]_vars =>
        \A k \in KeyIds : (keys[k] = None) # (keys'[k] = None) =>
          \E h \in Handlers : /\ req[h].pc \in {"serve", "mint"}
                              /\ req[h].id.method = "oidc" /\ req[h].id.user = Owner(k)
                              /\ req'[h] = Idle
  BY <1>1
<1>3. QED
  BY <1>2, ChainInvariant, PTL DEF Spec, KeysNeedALogin

\* A login of u enters only with a token of u that has not run out.
LEMMA LoginStep ==
  ASSUME TypeOK, [Next]_vars, NEW u \in Users, SignedOut(u), NEW g \in Handlers
  PROVE  req'[g].id.user = u => req'[g].id.method # "oidc"
<1>1. req[g].id.user = u => req[g].id.method # "oidc"
  BY DEF SignedOut
<1>2. ASSUME NEW h \in Handlers, NEW r, Enter(h, r)
      PROVE  IF g = h THEN req'[g] = r ELSE req'[g] = req[g]
  BY <1>2 DEF Enter, TypeOK
<1>3. Idle.id.method # "oidc"
  BY DEF Idle, Request, Stranger
<1>4. ASSUME NEW h \in Handlers, NEW id, NEW b, Serve(h, id, b), id.user = u => id.method # "oidc"
      PROVE  req'[g].id.user = u => req'[g].id.method # "oidc"
  BY <1>1, <1>2, <1>4 DEF Serve, Request, Idle
<1>5. ASSUME NEW h \in Handlers, ArriveBare(h) \/ ArriveUnexamined(h) \/ ArriveService(h)
      PROVE  req'[g].id.user = u => req'[g].id.method # "oidc"
  <2>1. Stranger.method # "oidc" /\ Master.method # "oidc"
    BY DEF Stranger, Master
  <2>2. QED
    BY <1>4, <1>5, <2>1 DEF ArriveBare, ArriveUnexamined, ArriveService
<1>6. ASSUME NEW h \in Handlers, NEW t \in JWTs, ArriveJWT(h, t)
      PROVE  req'[g].id.user = u => req'[g].id.method # "oidc"
  <2>1. t.user # u
    <3>1. SUFFICES ASSUME t.user = u PROVE FALSE
      OBVIOUS
    <3>2. t.exp \in Nat /\ now \in Nat /\ Skew \in Nat /\ now <= t.exp + Skew
      BY <1>6, JWTsAssumption, TimeAssumption DEF ArriveJWT, VerifyTime, TypeOK, Times
    <3>3. t.exp = None \/ now > t.exp + Skew
      BY <3>1 DEF SignedOut, RunOut
    <3>4. QED
      BY <3>2, <3>3, AbsentAssumption
  <2>2. QED
    BY <1>4, <1>6, <2>1 DEF ArriveJWT
<1>7. ASSUME NEW h \in Handlers, NEW k \in KeyIds, ArriveKey(h, k)
      PROVE  req'[g].id.user = u => req'[g].id.method # "oidc"
  <2>1. PICK d : Enter(h, Request("lookup", Stranger, k, TRUE, d))
    BY <1>7 DEF ArriveKey
  <2>2. QED
    BY <1>1, <1>2, <2>1 DEF Request, Stranger
<1>8. ASSUME NEW h \in Handlers, Resolve(h)
      PROVE  req'[g].id.user = u => req'[g].id.method # "oidc"
  <2>1. ASSUME NEW row PROVE Resolved(req[h], row).id.method = "api_key"
    BY DEF Resolved, OfKey, TypeOK, Requests
  <2>2. QED
    BY <1>1, <1>2, <1>3, <1>8, <2>1 DEF Resolve, Finish
<1>9. ASSUME NEW h \in Handlers, Touch(h) \/ \E e \in Times \union {None} : AcceptExpiry(h, e)
      PROVE  req'[g].id.user = u => req'[g].id.method # "oidc"
  <2>1. req'[g].id = req[g].id
    <3>1. req[h] \in Requests
      BY DEF TypeOK
    <3>2. CASE Touch(h)
      BY <1>2, <3>1, <3>2 DEF Touch, Requests
    <3>3. CASE \E e \in Times \union {None} : AcceptExpiry(h, e)
      <4>1. PICK e : Enter(h, [req[h] EXCEPT !.pc = "mint", !.exp = e])
        BY <3>3 DEF AcceptExpiry
      <4>2. [req[h] EXCEPT !.pc = "mint", !.exp = e].id = req[h].id
        BY <3>1 DEF Requests
      <4>3. QED
        BY <1>2, <4>1, <4>2
    <3>4. QED
      BY <1>9, <3>2, <3>3
  <2>2. QED
    BY <1>1, <2>1
<1>10. ASSUME NEW h \in Handlers,
              Answer(h) \/ \E k \in KeyIds : MintKey(h, k) \/ RevokeKey(h, k)
       PROVE  req'[g].id.user = u => req'[g].id.method # "oidc"
  BY <1>1, <1>2, <1>3, <1>10 DEF Answer, MintKey, RevokeKey, Finish
<1>11. ASSUME NEW c \in Configs, Restart(c)
       PROVE  req'[g].id.user = u => req'[g].id.method # "oidc"
  BY <1>3, <1>11 DEF Restart
<1>12. CASE Tick \/ UNCHANGED vars
  BY <1>1, <1>12 DEF Tick, vars
<1>13. QED
  BY <1>5, <1>6, <1>7, <1>8, <1>9, <1>10, <1>11, <1>12 DEF Next

\* A token that has run out stays so.
LEMMA RunOutStays ==
  ASSUME TypeOK, [Next]_vars, NEW t \in JWTs, RunOut(t)
  PROVE  RunOut(t)'
<1>1. now \in Nat /\ now' \in {now, now + 1}
  <2>1. now \in Nat
    BY TimeAssumption DEF TypeOK, Times
  <2>2. now' \in {now, now + 1}
    BY DEF Next, vars, ArriveBare, ArriveUnexamined, ArriveService, ArriveJWT, ArriveKey,
           Resolve, Touch, AcceptExpiry, MintKey, RevokeKey, Answer, Tick, Restart
  <2>3. QED
    BY <2>1, <2>2
<1>2. CASE t.exp = None
  BY <1>2 DEF RunOut
<1>3. CASE t.exp # None
  <2>1. t.exp \in Nat /\ Skew \in Nat /\ now > t.exp + Skew
    BY <1>3, JWTsAssumption, TimeAssumption DEF Times, RunOut
  <2>2. now' > t.exp + Skew
    BY <1>1, <2>1
  <2>3. QED
    BY <2>2 DEF RunOut
<1>4. QED
  BY <1>2, <1>3

\* The keys of a user who is signed out are frozen.
LEMMA KeysFrozen ==
  ASSUME TypeOK, KeyInv, ChainInv, [Next]_vars, NEW u \in Users, SignedOut(u)
  PROVE  KeysOf(u)' = KeysOf(u)
<1> SUFFICES ASSUME NEW k \in KeyIds
             PROVE  (keys[k] # None /\ keys[k].owner = u) <=> (keys'[k] # None /\ keys'[k].owner = u)
  BY DEF KeysOf
<1>1. CASE (keys[k] = None) # (keys'[k] = None)
  <2>1. PICK h \in Handlers : /\ MintKey(h, k) \/ RevokeKey(h, k)
                              /\ req[h].id.user = Owner(k)
    BY <1>1, KeysMove
  <2>2. req[h].id.method = "oidc"
    BY <2>1 DEF MintKey, RevokeKey, RequireOIDC, ChainInv, CallerInv
  <2>3. Owner(k) # u
    BY <2>1, <2>2 DEF SignedOut
  <2>4. CASE keys[k] = None
    <3>1. keys'[k].owner # u
      BY <2>3, <2>4 DEF Owner
    <3>2. QED
      BY <2>4, <3>1
  <2>5. CASE keys[k] # None
    <3>1. keys[k].owner # u
      BY <2>3, <2>5 DEF Owner
    <3>2. keys'[k] = None
      BY <1>1, <2>5
    <3>3. QED
      BY <3>1, <3>2
  <2>6. QED
    BY <2>4, <2>5
<1>2. CASE keys[k] = None /\ keys'[k] = None
  BY <1>2
<1>3. CASE keys[k] # None /\ keys'[k] # None
  <2>1. ASSUME NEW h \in Handlers PROVE ~MintKey(h, k)
    BY <1>3 DEF MintKey, KeyInv, KeyLife
  <2>2. keys'[k] = keys[k] \/ SameKey(k)
    BY <1>3, <2>1, KeysStep
  <2>3. QED
    BY <1>3, <2>2 DEF SameKey
<1>4. QED
  BY <1>1, <1>2, <1>3

\* Once a user's tokens have run out and no login of theirs is in flight, their
\* keys are frozen for good, across restarts with any configuration (verifyTime,
\* requireOIDC, ResolveKey).
THEOREM SignedOutIsFinal == Spec => SignedOutForGood
<1>1. ASSUME TypeOK, KeyInv, ChainInv, [Next]_vars, NEW u \in Users, SignedOut(u)
      PROVE  SignedOut(u)' /\ KeysOf(u)' = KeysOf(u)
  <2>1. \A t \in JWTs : t.user = u => RunOut(t)'
    BY <1>1, RunOutStays DEF SignedOut
  <2>2. \A g \in Handlers : req'[g].id.user = u => req'[g].id.method # "oidc"
    BY <1>1, LoginStep
  <2>3. KeysOf(u)' = KeysOf(u)
    BY <1>1, KeysFrozen
  <2>4. QED
    BY <2>1, <2>2, <2>3 DEF SignedOut
<1>2. TypeOK /\ KeyInv /\ ChainInv /\ [Next]_vars =>
        \A u \in Users : SignedOut(u) => SignedOut(u)' /\ KeysOf(u)' = KeysOf(u)
  BY <1>1
<1>3. QED
  BY <1>2, KeyInvariant, ChainInvariant, PTL DEF Spec, SignedOutForGood
=============================================================================
