------------------------------- MODULE Depot -------------------------------
(***************************************************************************)
(* The upload lifecycle of Orbit Depot in its stateful shape (a metadata    *)
(* store is configured, so every identified request reads and writes it):  *)
(* presign, proxied PUT, one-shot upload, single delete, self wipe, admin   *)
(* wipe, and restart of the process.                                        *)
(*                                                                          *)
(* Every HTTP request runs in a goroutine of its own and nothing in the     *)
(* program serialises two of them: the SQLite table and the object tree are *)
(* shared, each SQL statement (or transaction) and each rename or unlink is *)
(* atomic, and requests interleave between those points.  A step below is   *)
(* the code from one such point to the next.                                *)
(*                                                                          *)
(* SomeQuotaLeft, ValidatesUpperBound, TimestampSegment, DeriveByAccount,   *)
(* PutObjectUnchecked, FitsReader, WipeUploadsUnscoped,                     *)
(* WipeUploadsUncommitted and AfterFirstUnlink are not part of the system:  *)
(* each is the plausible slip that the definition below it avoids.          *)
(***************************************************************************)
EXTENDS Integers, FiniteSets

CONSTANTS
  Users,       \* identities: pairs <<account (JWT sub), issuer (JWT iss)>>
  Admins,      \* the users some credential of whom carries the admin flag
  Anonymous,   \* the caller without an identity
  Uniques,     \* fresh path segments; each is drawn at most once (a bound)
  Filenames,   \* sanitised filenames uploaded to the account-strategy place
  MaxSize,     \* the largest file size a place accepts
  Limit,       \* account |-> resolved quota in bytes, 0 for unlimited
  Handlers,    \* request goroutines that may be in flight together (a bound)
  MaxFaults,   \* bound on failing database writes and object deletions
  MaxCrashes,  \* bound on restarts of the process
  None         \* the absent row, object, issuer or key

Account(u) == u[1]
Issuer(u)  == u[2]
Accounts   == {Account(u) : u \in Users}
Issuers    == {Issuer(u) : u \in Users}
Callers    == Users \union {Anonymous}

\* {prefix}/{owner}/{unique}/{filename} and {prefix}/{owner}/{filename}: the
\* owner segment and the segment that tells an owner's keys apart.
DumpKeys    == Callers \X Uniques
AccountKeys == Users \X Filenames
Keys        == DumpKeys \union AccountKeys

Sizes == 1 .. MaxSize
Rows  == [owner : Callers, size : Sizes]
Caps  == [key : Keys, size : Sizes]

ASSUME UsersAssumption     == IsFiniteSet(Users) /\ Admins \subseteq Users
ASSUME AnonymousAssumption == Anonymous \notin Users
ASSUME NamesAssumption     == /\ IsFiniteSet(Uniques) /\ IsFiniteSet(Filenames)
                              /\ Uniques \intersect Filenames = {}
ASSUME SizeAssumption      == MaxSize \in Nat \ {0}
ASSUME LimitAssumption     == Limit \in [Accounts -> Nat]
ASSUME HandlersAssumption  == IsFiniteSet(Handlers) /\ Handlers # {}
ASSUME BoundsAssumption    == MaxFaults \in Nat /\ MaxCrashes \in Nat
ASSUME NoneAssumption      == None \notin Rows \union Nat \union Keys \union Issuers

VARIABLES
  rows,     \* the uploads table: key |-> row, or None
  objects,  \* the object tree: key |-> number of bytes, or None
  caps,     \* the upload capabilities handed out that verifyUpload accepts
  used,     \* the unique segments drawn so far
  req,      \* handler |-> what the request it serves still has to do
  leaked,   \* keys logged as "object delete failed; orphaned"
  faults,   \* failures so far
  crashes   \* restarts so far

vars == <<rows, objects, caps, used, req, leaked, faults, crashes>>

\* presign: checked and signed, row not yet inserted.  reply: row inserted,
\* URL not yet returned.  put, record: a one-shot upload before its bytes are
\* stored and before its row is inserted.  transfer: a PUT whose capability
\* has been verified.  unlink: rows deleted, objects in todo still to delete.
Phases == {"idle", "presign", "reply", "put", "record", "transfer", "unlink"}

Requests == {r \in [pc : Phases, owner : Callers, key : Keys \union {None},
                    size : 0 .. MaxSize, todo : SUBSET Keys] :
               r.pc \in {"idle", "unlink"} \/ (r.key \in Keys /\ r.size \in Sizes)}

Storing(pc, u, k, n) == [pc |-> pc, owner |-> u, key |-> k, size |-> n, todo |-> {}]
Unlinking(ks) == [pc |-> "unlink", owner |-> Anonymous, key |-> None, size |-> 0,
                  todo |-> ks]
Idle == Storing("idle", Anonymous, None, 0)

Init ==
  /\ rows    = [k \in Keys |-> None]
  /\ objects = [k \in Keys |-> None]
  /\ caps    = {}
  /\ used    = {}
  /\ req     = [h \in Handlers |-> Idle]
  /\ leaked  = {}
  /\ faults  = 0
  /\ crashes = 0

IsIdle(h)    == req[h].pc = "idle"
Enter(h, r)  == req' = [req EXCEPT ![h] = r]
Goto(h, pc)  == Enter(h, [req[h] EXCEPT !.pc = pc])
Finish(h)    == Enter(h, Idle)
CanFail      == faults < MaxFaults
Fault        == faults' = faults + 1
-----------------------------------------------------------------------------
\* SUM(file_size) over the rows of a user, counted byte by byte.
ChargedBytes(u) ==
  {e \in Keys \X Sizes : /\ rows[e[1]] # None
                         /\ rows[e[1]].owner = u
                         /\ e[2] <= rows[e[1]].size}
Usage(u) == Cardinality(ChargedBytes(u))

\* Check: an anonymous caller is never checked, a limit of 0 is no limit.
Limited(u) == u # Anonymous /\ Limit[Account(u)] # 0
SomeQuotaLeft(u, n) == Limited(u) => Usage(u) <= Limit[Account(u)]
WithinQuota(u, n) == Limited(u) => Usage(u) + n <= Limit[Account(u)]

\* Validate: what is left of a place's policy once the size is the only datum.
ValidatesUpperBound(n) == n <= MaxSize
Validates(n) == n > 0 /\ n <= MaxSize

\* DeriveKey: a dump place draws a fresh segment for anyone; the key of an
\* account place is the same on every upload of that name and needs a user.
TimestampSegment(s) == s \in Uniques
FreshSegment(s) == s \notin used
DeriveByAccount(u, k) ==
  \/ /\ k \in DumpKeys /\ k[1] = u /\ FreshSegment(k[2])
     /\ used' = used \union {k[2]}
  \/ /\ k \in AccountKeys /\ u # Anonymous /\ Account(k[1]) = Account(u)
     /\ UNCHANGED used
Derive(u, k) ==
  \/ /\ k \in DumpKeys /\ k[1] = u /\ FreshSegment(k[2])
     /\ used' = used \union {k[2]}
  \/ /\ k \in AccountKeys /\ k[1] = u
     /\ UNCHANGED used

\* RecordUpload is a plain INSERT under PRIMARY KEY (object_key).
Conflict(k)  == rows[k] # None
Insert(r)    == rows' = [rows EXCEPT ![r.key] = [owner |-> r.owner, size |-> r.size]]
Reject(h)    == Finish(h) /\ UNCHANGED <<rows, faults>>
-----------------------------------------------------------------------------
\* handlePresign up to the signed URL.
Presign(h, u, k, n) ==
  /\ IsIdle(h)
  /\ Validates(n)
  /\ WithinQuota(u, n)
  /\ Derive(u, k)
  /\ Enter(h, Storing("presign", u, k, n))
  /\ UNCHANGED <<rows, objects, caps, leaked, faults, crashes>>

\* The row is written before the URL is returned; a conflicting or a failing
\* insert ends in a 500 and the URL stays unknown.
RecordPresign(h) ==
  /\ req[h].pc = "presign"
  /\ \/ ~Conflict(req[h].key) /\ Insert(req[h]) /\ Goto(h, "reply") /\ UNCHANGED faults
     \/ Conflict(req[h].key) /\ Reject(h)
     \/ CanFail /\ Fault /\ Finish(h) /\ UNCHANGED rows
  /\ UNCHANGED <<objects, caps, used, leaked, crashes>>

ReplyPresign(h) ==
  /\ req[h].pc = "reply"
  /\ caps' = caps \union {[key |-> req[h].key, size |-> req[h].size]}
  /\ Finish(h)
  /\ UNCHANGED <<rows, objects, used, leaked, faults, crashes>>

\* Fifteen minutes pass: verifyUpload answers errExpired from here on.
Expire(c) ==
  /\ c \in caps
  /\ caps' = caps \ {c}
  /\ UNCHANGED <<rows, objects, used, req, leaked, faults, crashes>>
-----------------------------------------------------------------------------
\* handleUpload up to the write of the bytes.
Upload(h, u, k, n) ==
  /\ IsIdle(h)
  /\ Validates(n)
  /\ WithinQuota(u, n)
  /\ Derive(u, k)
  /\ Enter(h, Storing("put", u, k, n))
  /\ UNCHANGED <<rows, objects, caps, leaked, faults, crashes>>

\* writer.PutObject: the rename makes the bytes visible, or the write fails
\* and leaves no trace (temp file removed).
PutObjectUnchecked(h) ==
  /\ req[h].pc = "put"
  /\ \/ objects' = [objects EXCEPT ![req[h].key] = req[h].size]
     \/ UNCHANGED objects
  /\ Goto(h, "record")
  /\ UNCHANGED <<rows, caps, used, leaked, faults, crashes>>
PutObject(h) ==
  /\ req[h].pc = "put"
  /\ \/ objects' = [objects EXCEPT ![req[h].key] = req[h].size] /\ Goto(h, "record")
     \/ UNCHANGED objects /\ Finish(h)
  /\ UNCHANGED <<rows, caps, used, leaked, faults, crashes>>

\* RecordUpload of the one-shot path; a failure leaves the bytes behind.
RecordUpload(h) ==
  /\ req[h].pc = "record"
  /\ \/ ~Conflict(req[h].key) /\ Insert(req[h]) /\ Finish(h) /\ UNCHANGED faults
     \/ Conflict(req[h].key) /\ Reject(h)
     \/ CanFail /\ Fault /\ Finish(h) /\ UNCHANGED rows
  /\ UNCHANGED <<objects, caps, used, leaked, crashes>>
-----------------------------------------------------------------------------
\* UploadHandler: the capability is verified once, when the PUT arrives; it is
\* neither consumed nor compared with the uploads table.
Transfer(h, c) ==
  /\ IsIdle(h)
  /\ c \in caps
  /\ Enter(h, Storing("transfer", Anonymous, c.key, c.size))
  /\ UNCHANGED <<rows, objects, caps, used, leaked, faults, crashes>>

\* The body ends, of any length up to the signed size (a chunked body may be
\* shorter or empty), and is renamed into place; or it is too long, breaks off
\* or cannot be stored, and nothing changes.
FitsReader(r, n) == n <= r.size + 1
FitsCap(r, n) == n <= r.size
CommitTransfer(h, n) ==
  /\ req[h].pc = "transfer"
  /\ \/ FitsCap(req[h], n) /\ objects' = [objects EXCEPT ![req[h].key] = n]
     \/ UNCHANGED objects
  /\ Finish(h)
  /\ UNCHANGED <<rows, caps, used, leaked, faults, crashes>>
-----------------------------------------------------------------------------
\* Rows first, objects after: both deletions hand the removed keys to Unlink.
RemoveRows(h, ks) ==
  /\ rows' = [k \in Keys |-> IF k \in ks THEN None ELSE rows[k]]
  /\ Enter(h, Unlinking(ks))
  /\ UNCHANGED <<objects, caps, used, leaked, faults, crashes>>

\* A caller deletes a row it owns, an admin any row; otherwise 404.
DeleteFile(h, u, admin, k) ==
  /\ IsIdle(h)
  /\ rows[k] # None
  /\ IF admin THEN u \in Admins ELSE rows[k].owner = u
  /\ RemoveRows(h, {k})

OwnedRows(account, issuer) ==
  {k \in Keys : /\ rows[k] # None
                /\ rows[k].owner # Anonymous
                /\ Account(rows[k].owner) = account
                /\ issuer \in {None, Issuer(rows[k].owner)}}

\* One transaction selects and deletes; with no row nothing is left to do.
WipeUploadsUnscoped(h, account, issuer) ==
  /\ IsIdle(h)
  /\ OwnedRows(account, issuer) # {}
  /\ rows' = [k \in Keys |-> IF k \in OwnedRows(account, issuer) THEN None ELSE rows[k]]
  /\ Enter(h, Unlinking(OwnedRows(account, None)))
  /\ UNCHANGED <<objects, caps, used, leaked, faults, crashes>>
WipeUploadsUncommitted(h, account, issuer) ==
  /\ IsIdle(h)
  /\ OwnedRows(account, issuer) # {}
  /\ Enter(h, Unlinking(OwnedRows(account, issuer)))
  /\ UNCHANGED <<rows, objects, caps, used, leaked, faults, crashes>>
WipeUploads(h, account, issuer) ==
  /\ IsIdle(h)
  /\ OwnedRows(account, issuer) # {}
  /\ RemoveRows(h, OwnedRows(account, issuer))

WipeFiles(h, u) == WipeUploads(h, Account(u), Issuer(u))

\* The issuer is optional on the admin route.
AdminWipeFiles(h, account, issuer) == Admins # {} /\ WipeUploads(h, account, issuer)

\* DeleteObject of one key; a missing file is no error, any other failure is
\* logged and the loop goes on.
AfterFirstUnlink(r, k) == IF k \in r.todo THEN Idle ELSE r
AfterUnlink(r, k) == IF r.todo = {k} THEN Idle ELSE [r EXCEPT !.todo = @ \ {k}]
Unlink(h, k) ==
  /\ k \in req[h].todo
  /\ \/ objects' = [objects EXCEPT ![k] = None] /\ UNCHANGED <<leaked, faults>>
     \/ CanFail /\ Fault /\ leaked' = leaked \union {k} /\ UNCHANGED objects
  /\ Enter(h, AfterUnlink(req[h], k))
  /\ UNCHANGED <<rows, caps, used, crashes>>
-----------------------------------------------------------------------------
\* The process dies (or Shutdown's ten seconds run out) and starts again: every
\* request is lost, and the new signing secret voids every capability.
Crash ==
  /\ crashes < MaxCrashes
  /\ crashes' = crashes + 1
  /\ req' = [h \in Handlers |-> Idle]
  /\ caps' = {}
  /\ UNCHANGED <<rows, objects, used, leaked, faults>>

Next ==
  \/ \E h \in Handlers, u \in Callers, k \in Keys, n \in 0 .. MaxSize + 1 :
       Presign(h, u, k, n) \/ Upload(h, u, k, n)
  \/ \E h \in Handlers :
       RecordPresign(h) \/ ReplyPresign(h) \/ PutObject(h) \/ RecordUpload(h)
  \/ \E c \in caps : Expire(c)
  \/ \E h \in Handlers, c \in caps : Transfer(h, c)
  \/ \E h \in Handlers, n \in 0 .. MaxSize : CommitTransfer(h, n)
  \/ \E h \in Handlers, u \in Users, admin \in BOOLEAN, k \in Keys :
       DeleteFile(h, u, admin, k)
  \/ \E h \in Handlers, u \in Users : WipeFiles(h, u)
  \/ \E h \in Handlers, a \in Accounts, i \in Issuers \union {None} :
       AdminWipeFiles(h, a, i)
  \/ \E h \in Handlers, k \in Keys : Unlink(h, k)
  \/ Crash

Spec == Init /\ [][Next]_vars

\* The steps a goroutine takes without waiting for its client.  A transfer is
\* not among them: the server sets no read timeout, a client may stall forever.
Serve(h) ==
  \/ RecordPresign(h) \/ ReplyPresign(h) \/ PutObject(h) \/ RecordUpload(h)
  \/ \E k \in Keys : Unlink(h, k)

\* Every runnable goroutine is scheduled, and the clock passes every expiry.
Fairness == /\ \A h \in Handlers : WF_vars(Serve(h))
            /\ \A c \in Caps : WF_vars(Expire(c))

FairSpec == Spec /\ Fairness
=============================================================================
