------------------------------ MODULE Admission ------------------------------
(***************************************************************************)
(* From the configuration file to the decision on an upload: what the file  *)
(* must hold for the process to serve, how the seams are built from it, and *)
(* how a request is resolved to a place, validated, checked against the     *)
(* quota in int64 arithmetic and recorded.  One request at a time: module   *)
(* Depot has the interleavings.                                             *)
(*                                                                          *)
(* Sizes are whole bytes: the decoder drops the fraction of a byte.         *)
(*                                                                          *)
(* BytesUnbounded, GlobalCapFirst, KeepsIdentityFlag, LeavesOpen and        *)
(* ChecksSizeOnly are not part of the system: each is the slip that the     *)
(* definition below it avoids.                                              *)
(***************************************************************************)
EXTENDS Integers, FiniteSets

CONSTANTS
  Names,      \* names a file or a request may give a place
  Users,      \* identified callers, by account
  MaxInt,     \* the largest int64, 2^63 - 1
  Written,    \* sizes a file may state, 0 for none; int64 need not hold them
  Precise,    \* every size up to it is a float64, 2^53
  Float,      \* size written |-> the float64 nearest to it
  TooBig,     \* what the platform makes of a float that int64 cannot hold
  Declared,   \* sizes a presign request may declare
  Held,       \* the largest file a client really has
  Overhead,   \* oneshotOverhead
  Configured, \* the files under study
  MaxUploads, \* bound on the rows of identified callers
  None        \* no place named, no override, no row, no request

MinInt == -(MaxInt + 1)

\* Two's complement: what int64 makes of a sum of two sizes.
Wrap(n) == IF n > MaxInt THEN n - 2 * (MaxInt + 1) ELSE n

Callers == Users \union {"anonymous"}

Definition == [strategy : {"", "dump", "account", "other"}, max : Written, identity : BOOLEAN]
File == [driver    : {"fs", "s3", "other"},
         flags     : SUBSET {"anonymous", "oidc", "api_key"},
         backend   : {"sqlite", "postgres", "other"},
         service   : BOOLEAN,   \* service_key.enabled
         secret    : BOOLEAN,   \* DEPOT_SERVICE_KEY is not empty
         places    : UNION {[S -> Definition] : S \in SUBSET Names},
         default   : Names \union {None},
         max       : Written,
         quota     : Written,
         overrides : [Users -> Written \union {None}]]

ASSUME AdmissionAssumption ==
  /\ MaxInt \in Nat \ {0} /\ MaxUploads \in Nat /\ Held \in Nat /\ Overhead \in Nat
  /\ Precise \in Nat \ {0} /\ Float \in [Written -> Nat]
  /\ \A n \in Written : IF n <= Precise THEN Float[n] = n ELSE Float[n] >= Precise
  /\ Written \subseteq Nat /\ TooBig \in {MinInt, MaxInt} /\ Declared \subseteq MinInt .. MaxInt
  /\ Held <= MaxInt /\ Overhead <= MaxInt
  /\ Configured \subseteq File
  /\ "anonymous" \notin Users /\ None \notin Names /\ None \notin Nat

VARIABLES
  file,    \* the configuration the process was started with
  stage,   \* how far run has got
  places,  \* the registry: name |-> place, its defaults filled in
  store,   \* the database is open
  rows,    \* slot |-> the row of an identified caller's upload, or None
  req      \* the upload that passed every check and is not recorded yet

vars == <<file, stage, places, store, rows, req>>

Stages == {"load", "driver", "places", "store", "migrate", "auth", "serving", "exited"}

Stateful(f) == f.flags \intersect {"oidc", "api_key"} # {}

Init ==
  /\ file \in Configured
  /\ stage  = "load"
  /\ places = <<>>
  /\ store  = FALSE
  /\ rows   = [i \in 1 .. MaxUploads |-> None]
  /\ req    = None
-----------------------------------------------------------------------------
\* ByteSize.UnmarshalText goes through a float64: a size above 2^53 is rounded,
\* up or down, and the conversion of one that int64 cannot hold is the platform's.
BytesUnbounded(n) == Float[n]
Bytes(n) == IF Float[n] > MaxInt THEN TooBig ELSE Float[n]

\* Config.Validate.
Valid(f) ==
  /\ f.driver # "other"
  /\ f.flags # {}
  /\ Stateful(f) => f.backend # "other"
  /\ DOMAIN f.places # {}
  /\ f.default # None => f.default \in DOMAIN f.places

\* A step of run: go on, or return the error.
Advance(from, ok, to) ==
  /\ stage = from
  /\ stage' = IF ok THEN to ELSE "exited"

\* The file may not be there or not decode.
Load ==
  \E decodes \in BOOLEAN :
    /\ Advance("load", decodes /\ Valid(file), "driver")
    /\ UNCHANGED <<file, places, store, rows, req>>

\* Only fs exists, and fs.New may fail: its root, its public URL, its secret.
BuildDriver ==
  \E built \in BOOLEAN :
    /\ Advance("driver", built /\ file.driver = "fs", "places")
    /\ UNCHANGED <<file, places, store, rows, req>>

\* place.New: an empty strategy is dump, no cap is the global cap, and a key
\* that belongs to an account needs an account.
GlobalCapFirst(d) == IF file.max # 0 THEN Bytes(file.max) ELSE Bytes(d.max)
Cap(d) == IF Bytes(d.max) = 0 THEN Bytes(file.max) ELSE Bytes(d.max)
KeepsIdentityFlag(d) == d.identity
NeedsIdentity(d) == d.identity \/ d.strategy = "account"
Build(d) == [strategy |-> IF d.strategy = "" THEN "dump" ELSE d.strategy,
             max      |-> Cap(d),
             identity |-> NeedsIdentity(d)]
BuildPlaces ==
  LET known == \A n \in DOMAIN file.places : file.places[n].strategy # "other"
  IN /\ Advance("places", known, "store")
     /\ places' = IF known THEN [n \in DOMAIN file.places |-> Build(file.places[n])] ELSE places
     /\ UNCHANGED <<file, store, rows, req>>

\* A pure-anonymous Depot has no store; postgres is not implemented; sql.Open may
\* fail, before there is a handle to close.
BuildStore ==
  \E opened \in IF file.backend = "sqlite" THEN BOOLEAN ELSE {FALSE} :
    /\ IF Stateful(file) THEN Advance("store", opened, "migrate") ELSE Advance("store", TRUE, "auth")
    /\ store' = (Stateful(file) /\ opened)
    /\ UNCHANGED <<file, places, rows, req>>

\* What an error leaves open: sqlite.Open closes the handle itself, run defers it.
LeavesOpen(ok) == store
OpenAfter(ok) == store /\ ok

\* The ping and the schema.
Migrate ==
  \E ok \in BOOLEAN :
    /\ Advance("migrate", ok, "auth")
    /\ store' = OpenAfter(ok)
    /\ UNCHANGED <<file, places, rows, req>>

\* An enabled service key must not be empty; the OIDC issuer may be out of
\* reach when its keys are first fetched.
HasServiceKey(f) == f.service => f.secret
BuildAuth ==
  \E reached \in IF "oidc" \in file.flags THEN BOOLEAN ELSE {TRUE} :
    LET ok == reached /\ HasServiceKey(file) /\ ("api_key" \in file.flags => store)
    IN /\ Advance("auth", ok, "serving")
       /\ store' = OpenAfter(ok)
       /\ UNCHANGED <<file, places, rows, req>>

\* A signal, or a listener that fails.
Shutdown ==
  /\ stage = "serving" /\ req = None
  /\ stage' = "exited"
  /\ store' = FALSE
  /\ UNCHANGED <<file, places, rows, req>>
-----------------------------------------------------------------------------
\* Who can be authenticated at all: module Credentials has the chain.
Admitted(c) == IF c = "anonymous" THEN "anonymous" \in file.flags
                                  ELSE Stateful(file) \/ file.service

\* Registry.Resolve and Place.Validate.
Resolve(name) == IF name = None THEN file.default ELSE name
Validates(p, c, n) ==
  /\ c = "anonymous" => ~p.identity
  /\ n > 0
  /\ p.max > 0 => n <= p.max

\* enforcer: an override replaces the default, and nothing positive is no limit.
\* The rows of a user are summed, byte by byte (a recorded size is positive).
\* SUM fails when it overflows, and the check with it; used+addBytes wraps.
Stated(u) == IF file.overrides[u] # None THEN file.overrides[u] ELSE file.quota
Limit(u)  == Bytes(Stated(u))
ChargedBytes(u) ==
  {e \in (DOMAIN rows) \X (1 .. MaxInt) : /\ rows[e[1]] # None
                                         /\ rows[e[1]].user = u
                                         /\ e[2] <= rows[e[1]].size}
Usage(u) == Cardinality(ChargedBytes(u))
ChecksSizeOnly(u, n) == Limit(u) > 0 => n <= Limit(u)
Check(u, n) == Limit(u) > 0 => Usage(u) <= MaxInt /\ Wrap(Usage(u) + n) <= Limit(u)

\* The checks both endpoints make before they derive a key; without a store the
\* enforcer is quota.Allow.  A request that fails one changes nothing.
Pass(c, name, n) ==
  /\ stage = "serving" /\ req = None /\ \E i \in DOMAIN rows : rows[i] = None
  /\ Admitted(c)
  /\ Resolve(name) \in DOMAIN places
  /\ Validates(places[Resolve(name)], c, n)
  /\ c # "anonymous" /\ store => Check(c, n)
  /\ req' = [caller |-> c, place |-> Resolve(name), size |-> n]
  /\ UNCHANGED <<file, stage, places, store, rows>>

\* handlePresign takes the client's word for the size.
Presign(c, name, n) == Pass(c, name, n)

\* handleUpload has the file, behind a guard on the body as a whole.
Upload(c, name, n) ==
  /\ n <= Held
  /\ Bytes(file.max) > 0 => n <= Wrap(Bytes(file.max) + Overhead)
  /\ Pass(c, name, n)

\* DeriveKey refuses an anonymous caller in an account place itself.
DeriveRefuses == req.caller = "anonymous" /\ places[req.place].strategy = "account"

\* DeriveKey and RecordUpload; rows of anonymous callers charge nobody.
Record ==
  /\ req # None
  /\ req' = None
  /\ IF ~DeriveRefuses /\ store /\ req.caller # "anonymous"
     THEN \E i \in DOMAIN rows :
            /\ rows[i] = None
            /\ rows' = [rows EXCEPT ![i] = [user |-> req.caller, size |-> req.size]]
     ELSE UNCHANGED rows
  /\ UNCHANGED <<file, stage, places, store>>

\* DeleteUpload gives the bytes back.
Delete(i) ==
  /\ stage = "serving" /\ req = None /\ rows[i] # None
  /\ rows' = [rows EXCEPT ![i] = None]
  /\ UNCHANGED <<file, stage, places, store, req>>

Next ==
  \/ Load \/ BuildDriver \/ BuildPlaces \/ BuildStore \/ Migrate \/ BuildAuth \/ Shutdown
  \/ \E c \in Callers, name \in Names \union {None}, n \in Declared :
       Presign(c, name, n) \/ Upload(c, name, n)
  \/ Record
  \/ \E i \in DOMAIN rows : Delete(i)

Spec == Init /\ [][Next]_vars
=============================================================================
