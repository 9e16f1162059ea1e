------------------------ MODULE AdmissionProperties ------------------------
(* What a Depot that serves owes the file it was started with. *)
EXTENDS Admission

\* Types.  Every size of a built place is one that int64 holds, whatever the
\* file states.
TypeOK ==
  /\ file \in Configured
  /\ stage \in Stages
  /\ DOMAIN places \subseteq Names
  /\ \A n \in DOMAIN places :
       places[n] \in [strategy : {"dump", "account"}, max : MinInt .. MaxInt, identity : BOOLEAN]
  /\ store \in BOOLEAN
  /\ rows \in [1 .. MaxUploads -> [user : Users, size : MinInt .. MaxInt] \union {None}]
  /\ req \in [caller : Callers, place : Names, size : MinInt .. MaxInt] \union {None}

\* The comments of Validate, ServiceKey and BuildStore: a process that serves
\* has every seam its file asks for (a driver that exists, each place of the
\* file, the default among them, a database exactly when a credential is
\* stateful, a service key that is not the empty string), and one that has left
\* run holds no database open, whichever step of it failed: not when the ping or
\* the schema fails on the open handle, nor when the authenticator does after it.
ServesAsConfigured ==
  /\ stage = "serving" =>
       /\ file.driver = "fs"
       /\ DOMAIN places = DOMAIN file.places /\ places # <<>>
       /\ Resolve(None) # None => Resolve(None) \in DOMAIN places
       /\ store <=> Stateful(file)
       /\ file.service => file.secret
  /\ stage = "exited" => ~store

\* A size cap holds as the file states it: an admitted upload is no larger than
\* max_size of its place or, where the place states none, max_file_size, as the
\* nearest float64 has it.  Up to 2^53 bytes that is the size stated; above, a cap
\* may be rounded up, and one beyond int64 is whatever the platform makes of it.
StatedCap(n) == IF file.places[n].max # 0 THEN file.places[n].max ELSE file.max
CapsHoldAsStated ==
  req # None /\ StatedCap(req.place) > 0 =>
    /\ req.size <= Float[StatedCap(req.place)]
    /\ StatedCap(req.place) <= Precise => req.size <= StatedCap(req.place)

\* One request at a time the quota is exact: where every place has a cap and a
\* cap on top of the quota still fits int64, the rows of a user never exceed the
\* quota the file states, as the nearest float64 has it.  Without such caps
\* used+addBytes may wrap.
Quota(u) == Float[Stated(u)]
QuotaFitsInt(u) ==
  /\ Stated(u) > 0
  /\ \A n \in DOMAIN places : places[n].max > 0 /\ places[n].max + Quota(u) <= MaxInt
QuotaIsExact == \A u \in Users : QuotaFitsInt(u) => Usage(u) <= Quota(u)

\* The comment in DeriveKey: what passed Validate never meets the refusal of
\* DeriveKey, so that a strategy that needs an account always has one.
DeriveNeverRefuses == req # None => ~DeriveRefuses
-----------------------------------------------------------------------------
\* The inductive invariant: what each step of run has established by the time the
\* next one starts, and what the checks have established about a request.
Built == [n \in DOMAIN file.places |-> Build(file.places[n])]
BootProgress ==
  /\ stage \notin {"load", "exited"} => Valid(file)
  /\ stage \in {"places", "store", "migrate", "auth", "serving"} => file.driver = "fs"
  /\ stage \in {"store", "migrate", "auth", "serving"} => places = Built
  /\ stage \in {"auth", "serving"} => (store <=> Stateful(file))
  /\ stage = "migrate" => store /\ Stateful(file)
  /\ stage \notin {"migrate", "auth", "serving"} => ~store
  /\ stage = "serving" => HasServiceKey(file)
RequestChecked ==
  req # None =>
    /\ stage = "serving"
    /\ req.place \in DOMAIN places
    /\ Validates(places[req.place], req.caller, req.size)

\* What makes QuotaIsExact inductive: a process that does not serve yet has no
\* rows, and a request that passed Check still fits when it is recorded.
NoRowsBeforeServing ==
  stage \notin {"serving", "exited"} => \A i \in DOMAIN rows : rows[i] = None
RequestFits ==
  \A u \in Users : QuotaFitsInt(u) /\ store /\ req # None /\ req.caller = u =>
    Usage(u) + req.size <= Quota(u)
QuotaInv == QuotaIsExact /\ NoRowsBeforeServing /\ RequestFits

AdmissionInv == TypeOK /\ BootProgress /\ RequestChecked
=============================================================================
