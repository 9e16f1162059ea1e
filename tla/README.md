# Orbit Depot: specifications and proofs

Orbit Depot is a small Go service that lets the users of an Orbit server upload
files and hands out public download URLs. This directory holds TLA+ modules
translated from its source, the TLC configurations that model-check them, and
theorems about them that TLAPS checks. It says what the program promises when
its requests interleave, fail and are cut off, which is what the unit tests of
the repository, all of them sequential, do not reach.

    tlc -workers 2 -config depot_dump.cfg MCDepot      # any run of PROJECT.json
    tlapm FsProofs.tla                                 # or any other *Proofs module

Paths below are relative to the repository (`src/...` in `PROJECT.json`).

## 1. Inventory

### Components

| component | code | state | operations |
|---|---|---|---|
| Upload lifecycle | `internal/api/upload.go`, `file.go`, `admin.go` | none of its own: what a goroutine has still to do | `handlePresign`, `handleUpload`, `handleDeleteFile`, `handleWipeFiles`, `handleAdminWipeFiles` |
| fs driver | `internal/storage/fs/` | the object tree; the per-process signing secret | `PresignUpload`, `UploadHandler` (PUT), `DownloadHandler` (GET), `PutObject`, `DeleteObject` |
| Metadata store | `internal/store/sqlite/sqlite.go` | tables `uploads` and `api_keys` | `RecordUpload`, `DeleteUpload`, `DeleteUploadAny`, `WipeUploads`, `Usage`, listings; `CreateKey`, `ResolveKey`, `TouchKey`, `RevokeKey` |
| Quota | `internal/quota/enforce.go` | configured limits only | `Limit`, `Check` |
| Places and keys | `internal/place/` | registry, fixed at start | `New`, `Resolve`, `Validate`, `DeriveKey` |
| Credentials | `internal/auth/` | configuration; the OIDC key set | chain of service key, API key, OIDC, anonymous |
| API keys | `internal/api/keys.go`, `internal/auth/apikey.go` | `api_keys` rows | mint, list, revoke, authenticate |
| Rate limiter | `internal/ratelimit/memory.go`, `internal/api/limit.go` | token bucket per key, under a mutex | `Allow`, janitor |
| Listings | `internal/api/files.go`, `admin.go` | none | pages of `uploads`, statistics |
| Boot | `internal/config/`, `cmd/depot/main.go` | none after start | parse, validate, wire, serve, shut down |
| Proxy cache | `system/nginx/depot.conf` | cached responses | cache and revalidate GETs |

### Interactions

A presign calls, in this order, the authenticator, the rate limiter, the place
registry, the quota (which reads `uploads`), the key derivation, the driver (which
signs a URL), and the store (which inserts the row); only then is the URL returned.
The client PUTs the bytes to the URL without any credential: the signature is
the capability. The one-shot `POST /upload` makes the same checks, stores the
bytes and inserts the row last. Deletions remove rows first and objects
after. Nothing in the program serialises two requests: `net/http` runs each in
its goroutine, and what they share is the SQLite database and the file system,
whose single statements, transactions, renames and unlinks are atomic.

### What is hard

- **Check then write.** Usage is read by `quota.Check` and charged by
  `RecordUpload`; on the one-shot path the whole body is written in between.
- **Two stores, no transaction over both.** A row and its bytes are written and
  deleted in two steps, each of which can fail, and between which other
  requests run and the process can stop.
- **A capability is verified once** and used at the end of a transfer of
  unbounded length; it is not consumed, and not revoked by a delete or a wipe.
- **Keys that recur.** A dump place draws a fresh segment per upload; an
  account place derives the same key each time, so bytes and rows of different
  requests meet there.
- **Restart.** The signing secret is per process: every URL handed out dies
  with it while its row stays.
- **A key used while it dies.** An API key is looked up, its use recorded and the
  request served in three statements; a revocation or the expiry can come
  between any two.
- **A chain wired from optional parts.** OIDC, API keys, the service key and
  anonymous callers are enabled in any combination; a part that is missing must
  refuse a token. The keys stored under one configuration survive into the next.
- **A tree shared by writers that make and prune its directories.** A put makes
  directories, copies for as long as its client likes, and renames; a delete
  unlinks and prunes. No lock covers any two of these system calls.
- **A transaction that reads before it writes.** SQLite refuses to upgrade its
  snapshot if anything at all was committed meanwhile.
- **Pages that move.** A client walks a listing by offset while rows come and go.
- **A janitor that forgets** what a bucket of the rate limiter still owes.
- **Integers of 64 bits** that hold sizes decoded from floats, which round above
  2^53, and sums of them.
- **A boot of several steps**, each of which may fail after an earlier one opened
  something, the opening of the database itself included.
- **A proxy cache** that rests on bytes never changing.

### What makes each component correct

- Lifecycle: keys of a dump place are never shared; the quota covers what is
  stored, and can be passed by a bounded amount only; a deletion leaves no row
  without bytes; bytes without a row have one of few causes.
- fs driver: a reader sees a whole object or none; temp files and empty
  directories go away; a prune never takes a file away.
- Store: `object_key` is unique; a wipe is all or nothing and scoped to account
  and issuer; a revoked or expired key resolves to nobody.
- Quota: the sum does not wrap; an override replaces the default.
- Places: an account place requires an identity; the owner segment and the
  unique segment keep keys of different owners apart.
- Credentials: a bad token is never downgraded to anonymous; only OIDC and the
  service key make an admin; only a login makes or revokes keys.
- Rate limiter: at most `limit` events plus refill per window and key.
- Boot: a configuration that validates yields a server whose parts are present.
- Listings: a client that pages to the end sees every row that was there all the
  time, except for what was removed or inserted under it.

`PROJECT.json` lists the hazards, each at its line, with the properties that
cover it or the reason why none does.

## 2. The modules

| module | content |
|---|---|
| `Depot` | the upload lifecycle: table, tree, capabilities, requests in flight |
| `DepotProperties` | type invariant, safety, action and liveness properties, and the inductive invariant of the dump strategy |
| `DepotClaims` | two statements of comments that the code does not keep |
| `AccountRemoval` | `Depot` with the wipe as account deletion calls it; what that achieves and what it does not |
| `Credentials` | the credential chain of every configuration, and API keys from mint to revocation |
| `CredentialProperties` | its type invariant and safety properties, and one statement of comments that the code does not keep |
| `ObjectStore` | abstract: puts, deletes and gets of whole objects, each at one instant |
| `FsDriver` | the fs driver, one system call at a time |
| `FsProperties` | its invariants and the refinement mapping to `ObjectStore` |
| `UploadStore` | abstract: one row per key, a wipe at one instant or not at all |
| `UploadsTable` | the uploads table statement by statement under SQLite's locking, and a client that pages |
| `UploadsProperties` | its properties, the refinement mapping to `UploadStore`, and the inductive invariants of the wipe and of a walk |
| `TokenBucket` | abstract: a bucket per key that is never dropped, but may forgive a long pause |
| `RateLimit` | the in-memory limiter: lazy refill, ages, the janitor |
| `RateProperties` | its properties and the refinement mapping to `TokenBucket` |
| `Admission` | from the configuration file through boot to the decision on an upload, over integers of a width |
| `AdmissionProperties` | what a serving process owes its file, and the inductive invariants |
| `MCDepot`, `MCRemoval`, `MCCredentials`, `MCFs`, `MCUploads`, `MCRate`, `MCAdmission` | instances for TLC |
| `DepotProofs`, `DumpProofs`, `CredentialProofs`, `FsProofs`, `UploadsProofs`, `WalkProofs`, `RateProofs`, `AdmissionProofs` | theorems and their proofs; `DepotProofs` has those about `AccountRemoval` too |

**How they fit together.** `Depot` takes the rename of a put, the unlink of a
delete and the transaction of a wipe as single steps. That is what `ObjectStore`
and `UploadStore` promise, and `FsDriver` and `UploadsTable` are shown, by TLC
and by proof, to keep that promise although each of these steps is several.
`Depot` begins a request only after it was authenticated, admitted by the rate
limiter and validated: these are `Credentials`, `RateLimit` and `Admission`.
`Admission` has the arithmetic of the quota, one request at a time over integers
that wrap; `Depot` has its interleavings, over integers that do not.

### Depot: state

| variable | in the code |
|---|---|
| `rows` | the `uploads` table: key to owner and declared size, or `None` |
| `objects` | the tree under the fs root: key to number of bytes stored, or `None` |
| `caps` | the upload URLs that `verifyUpload` still accepts |
| `used` | unique segments `DeriveKey` has drawn (timestamp plus random part) |
| `req` | per handler: at which of its atomic points the goroutine stands, and what it carries |
| `leaked` | keys of the log line `object delete failed; orphaned` |
| `faults`, `crashes` | counters that bound failures and restarts |

A key is its owner segment and the segment that tells the owner's keys apart; a
user is a pair of account (`sub`) and issuer (`iss`), since the store scopes by
both and the quota override by the account alone. The content, name, MIME type
and hash of a file play no part in any property and are left out. The size of a
file is a number of bytes; `Usage` counts pairs of key and byte, which is the
sum of the sizes and can be reasoned about with cardinalities.

### Depot: steps

| action | code |
|---|---|
| `Presign`, `RecordPresign`, `ReplyPresign` | `handlePresign` up to the signed URL; the insert (or conflict, or failure: 500); the response |
| `Upload`, `PutObject`, `RecordUpload` | `handleUpload` up to the write; the rename of the temp file; the insert |
| `Transfer`, `CommitTransfer` | `UploadHandler`: the capability is verified; the body ends and is renamed into place, with any length up to the signed size |
| `Expire` | the fifteen minutes of a capability pass |
| `DeleteFile` | `handleDeleteFile` and its admin route, up to the row's deletion |
| `WipeFiles`, `AdminWipeFiles` | the transaction of `WipeUploads`, for an account and an optional issuer |
| `Unlink` | one `DeleteObject`; a failure is logged and the loop goes on |
| `Crash` | the process stops or `Shutdown` gives up after ten seconds, and starts again |

Early returns that change nothing (401, 403, 404, 413, 415, 429, and a body that
does not arrive) are requests that take no step. The check, the key
derivation and the signature of one request share a step: `Check` is the only
one of them that reads shared state, and the others depend on the request alone,
so nothing can be observed between them. The scope is the stateful shape
(`store != nil`), the fs driver, the only one implemented, and places with a
positive size limit.

The definitions named in the header of a module as slips (`SomeQuotaLeft`,
`FitsReader`, ...) are not used by `Next`: each is a plausible mistake, kept to
show that the properties would notice it (`mutants` in `PROJECT.json`).

### AccountRemoval

`file.go` says that account deletion calls the wipe. Nothing else in the program
takes part: the wipe waits for no request, and the user's API keys and unexpired
tokens go on being accepted. So the module only watches. `removed` is history: the
users for whom a wipe ran while no upload of theirs was in flight (`Quiet`) and who
have sent none since. Every step of `Depot` stays possible, the restarts, the
failures, the other wipes and the removed user's own requests included; an upload
of the user ends the interval, since what it stores is rightly there. Within it
bytes may still come back (`RemovedUserLeavesNothing` is violated). What does hold
is stated beside it: no row is left or comes back (`RemovedUserHasNoRow`), and bytes
come only by a capability (`RemovedUserStoresByCapability`). For a user whose
upload is in flight during the wipe nothing of the kind is promised: the upload
records its row after it.

### Credentials: state

| variable | in the code |
|---|---|
| `conf` | the flags of `[depot.credentials]`, `service_key.enabled`, and whether an admin claim is set |
| `keys` | the `api_keys` table: key to owner, expiry and whether it was used, or `None` |
| `req` | per handler: where its request stands, the `Identity` it has, the key it presented |
| `now` | the clock, in ticks; `PerSecond` of them make the second the table stores |
| `minted`, `revoked` | history: keys ever inserted, keys whose revocation was answered |

A request also remembers whether it carried a token (`bearer`) and whether the
key it presented was already dead when it arrived (`dead`); no action reads
either. A token is its user, issue time, expiry and whether its claim grants
admin: its signature, issuer and audience are checked by the OIDC library, and a
token that fails is a request that takes no step. So is every other 401, which
leaves nothing behind; no property is about refusals.

### Credentials: steps

| action | code |
|---|---|
| `ArriveBare` | `chain.Authenticate` of a request without a token |
| `ArriveUnexamined` | `anonymous.Authenticate`, which `buildAuth` wires alone when nothing verifies tokens |
| `ArriveService` | `serviceKeyAuth.Authenticate` on a match |
| `ArriveJWT` | `oidcAuth.Authenticate` after the signature: times, subject, admin claim |
| `ArriveKey`, `Resolve`, `Touch` | `apiKeyAuth.Authenticate`: the request, `ResolveKey` with the comparison of the expiry, `TouchKey` with its failure ignored |
| `AcceptExpiry`, `MintKey` | `handleCreateKey`: the expiry is accepted; the row is inserted |
| `RevokeKey` | `handleRevokeKey` |
| `Answer` | every endpoint that leaves the keys alone, refusals and failing inserts |
| `Tick` | time passes |
| `Restart` | `run` with any configuration that `Validate` accepts, over the same database |

Each step is one statement of SQLite or none, so the steps are as fine as what
two requests can observe of each other. In the code the clock may move between
the read of a row and the comparison with its expiry, which `Resolve` does
together. Nothing is lost: if the comparison passes later it passes at the read
too, and if it fails the request is refused, as `Resolve` refuses it at the
later moment, whether the row is still there or not.

### FsDriver: state

| variable | in the code |
|---|---|
| `dirs` | the directories below the root |
| `entry` | the link from an object's name to its file |
| `temps` | the link from a temp name to its file, by directory |
| `data` | what each file holds: so many bytes of some body |
| `op` | per goroutine: its call, the system call it is at, the levels `MkdirAll` found missing, the open file |
| `pruned` | history: puts whose directory a delete pruned while they counted on it |
| `crashes`, `lost` | counters that bound restarts and removals of a temp file that failed |

Names and files are kept apart, as the kernel does: a get that has opened an
object reads it to the end whatever happens to the name.

### FsDriver: steps

| action | code |
|---|---|
| `Stat`, `Mkdir` | `os.MkdirAll`: upwards to the deepest level that exists, then down |
| `CreateTemp`, `NoDirectory` | `os.CreateTemp` beside the object; the directory is gone |
| `Copy`, `RejectTooLarge` | `io.Copy` through a limit of one byte past the cap (negative for the largest int64: nothing is read), and the check of what it read |
| `Rename` | `os.Rename` over the object |
| `PutFails`, `Cleanup` | a broken body or a failing call; the deferred `os.Remove`, whose own error is ignored |
| `Remove`, `Prune` | `DeleteObject`: the unlink; the `os.Remove` of the directory, which fails if it is not empty and may fail otherwise |
| `Open`, `ServeContent` | `DownloadHandler`; a failing open is answered like a missing file |
| `Crash` | the process dies; the tree stays |

The mapping to `ObjectStore` reads the object through the link, and the phase of
a call from its program counter: a put takes effect at `Rename`, a delete at
`Remove`, a get at `Open`. No key is taken to be a directory of another. After a
crash, or a put that fails after `MkdirAll`, empty directories may remain. The error
of the temp file's `Close`, which the code ignores, is left out: a copy that
succeeded is taken to be on disk.

### UploadsTable: state and steps

`rows` is the committed table with its rowids, `wipe` the transaction of each
goroutine in `WipeUploads`, `walk` the client that pages. `fresh` says whether
anything was committed since a transaction's snapshot.

| action | code |
|---|---|
| `RecordUpload`, `DeleteUpload`, `DeleteUploadAny` | one statement, which waits for the write lock and commits |
| `OtherCommit` | a commit to the `api_keys` table of the same database (`TouchKey`, `CreateKey`, `RevokeKey`) |
| `WipeBegin`, `WipeSelect`, `WipeDelete`, `WipeCommit`, `WipeRollback`, `WipeReturn` | `WipeUploads`: `BeginTx`, the `SELECT`, the `DELETE`, `Commit`, the deferred `Rollback`, the return |
| `StartWalk` | a client, outside the repository, asks for the first page; it will stop at a short page or at the total |
| `CountUploads`, `SelectUploads` | the two statements of `ListUploads`; rows that are equal in the sort column come by rowid, either way, or as `idx_uploads_owner` has their owners (`IndexPlace`) and then by rowid, as the plan of the query has it |
| `Crash` | the process dies and SQLite rolls back |

The `DELETE` of a wipe is enabled only while the snapshot is current: SQLite
answers `BUSY_SNAPSHOT` otherwise, at once, as its busy timeout does not apply
to the upgrade of a read transaction. So a wipe fails with a 500 if anything, the
use of an API key included, is committed between its two statements. It is safe
to retry, since it removed nothing.

### RateLimit: state and steps

`bucket` has, per key, the level after the last admitted event and the ages of
that event and of the last one asked for; `rate.Limiter` refills by arithmetic
when it is next used, so nothing happens to a bucket in between. `Allow` and
`AllowUnlimited` are `Memory.Allow`, `Sweep` one pass of the janitor with the time
at which its ticker fired, `Tick` the clock, `Restart` a new process. A bucket is
measured in ticks' worth of events, so that it stays an integer; the rounding of
the library's floats is left out. A tick of the ticker is not dropped, since a
pass is never as late as `TTL`.

### Admission: state and steps

| variable | in the code |
|---|---|
| `file` | the configuration, as `toml` decoded it |
| `stage` | how far `run` has got |
| `places` | the registry that `place.New` built |
| `store` | the database is open |
| `rows` | the rows that `Usage` sums, by user and size |
| `req` | the request that has passed every check and is not recorded yet |

| action | code |
|---|---|
| `Load`, `BuildDriver`, `BuildPlaces` | `config.Load` with `Validate`; `fs.New`; `place.New`. Each may return its error: the file does not decode, the root or the public URL is unusable, a strategy is unknown |
| `BuildStore`, `Migrate` | `sqlite.Open`: the handle; the ping and the schema, after a failure of which it closes the handle itself |
| `BuildAuth` | `buildAuth`: the service key, the issuer that may be out of reach; after its error the deferred `Close` runs |
| `Shutdown` | `run` returns; the deferred `Close` |
| `Presign`, `Upload` | the checks of both endpoints in their order: place, `Validate`, `quota.Check`, the guard on the body |
| `Record` | `DeriveKey` and `RecordUpload` |
| `Delete` | `DeleteUpload` |

`Bytes` is what the decoder makes of a size. It goes through a float64, so that a
size above 2^53 (`Precise`) is rounded, up or down (`Float`), and Go leaves the
conversion of one that int64 cannot hold to the platform: the module takes the
result (`TooBig`) as a constant, the smallest integer on amd64. `Wrap` is addition
in two's complement, and a `SUM` that overflows is an error of SQLite. Fractions of
a byte in a stated size are dropped by the decoder and left out.

## 3. What is checked

| run | instance | properties | states |
|---|---|---|---|
| `depot_dump` | three users (one account under two issuers, one admin) and the anonymous caller, dump place, 2 unique segments, 2 handlers, sizes to 2, 1 fault, 1 restart | `TypeOK`, `DumpKeyIsFresh`, `StoredWithinRow`, `DeletionLeavesNoPhantom`, `CommittedUploadHasBytes`, `BytesBecomeFinal` | 0.2 M |
| `depot_account` | one user with a quota of one file, a dump key and two account keys that recur, 2 handlers, 1 fault, 1 restart | `QuotaOvershootBounded`, `OrphansHaveACause` | 2.0 M |
| `credentials` | two users, two API keys, four tokens, two handlers, clock to 2 (two ticks a second, skew of one), all 28 valid configurations | `TypeOK`, `RevokedForGood`, `DeadKeysAreRefused`, `EnabledCredentialsOnly`, `KeysNeedALogin`, `SignedOutForGood` | 0.9 M |
| `fs_driver` | a dump key in a directory below that of an account key, a body that fits and one that does not, 2 clients, 3 files, 1 clean-up that fails, 1 restart | `TypeOK`, `LinkedFilesAreWhole`, `StrayTempsHaveACause`, `DirectoryMissingOnlyByPrune`, `NamesGoByTheirOwners`, `ImplementsObjectStore` | 1.4 M |
| `uploads_table` | three keys, one account at two issuers, scopes of one issuer and of both, two values to sort by, three orders of ties, pages of one and of two, one wipe, 3 inserts | `TypeOK`, `WalkMissesBounded`, `WalkRepeatsBounded`, `ImplementsUploadStore` | 1.7 M |
| `account_removal` | one account under two issuers, one of them admin, one account key each, 2 handlers, 1 fault, 1 restart, `FairRemovalSpec` | `RemovedUserHasNoRow`, `RemovedUserStoresByCapability`, `RemovedRowsLoseBytes` | 0.3 M |
| `rate_limit` | a rate whose bucket fills within the idle time, one whose does not, one unset; idle time 5, janitor late by up to 2 | `TypeOK`, `IdleBucketsAreDropped`, `JanitorIsInvisible`, `ImplementsTokenBucket` | 30 k |
| `admission` | integers of five bits, floats exact up to 4, a size that is rounded up and one that does not fit, every policy of one place and every way to boot, three rows | `TypeOK`, `ServesAsConfigured`, `CapsHoldAsStated`, `QuotaIsExact`, `DeriveNeverRefuses` | 2.1 M |
| `claim_reupload` | one user, one dump key and one account key, 2 handlers, 1 fault, 1 restart | `ReuploadOverwrites` is violated | |
| `claim_cleanup` | one handler, no fault, no restart, `FairSpec` | `OrphansReconciled` is violated | |
| `claim_removal` | one user, one dump key, two handlers, no fault, no restart | `RemovedUserLeavesNothing` is violated | |
| `claim_downgrade` | as `credentials`, one key and one handler | `NoSilentDowngrade` is violated | |

**Bounds.** Every hazard modelled here needs two requests: one that stands
between two of its steps and one that runs past it. Two handlers give every
interleaving of two, and a finished handler serves again, so sequences of
requests are unbounded except for the unique segments: `Uniques` bounds how
many dump keys a behaviour draws. Two suffice for a key and its
neighbour in a wipe; `depot_account` has one dump key and two account keys, which
recur for ever. `MaxSize` is 2 where a short transfer, a full one and one
past the end must differ. The quota of one in `depot_account` makes the bound of
`QuotaOvershootBounded` tight: with two handlers a usage of 2 occurs. `MaxFaults` and `MaxCrashes` of 1 put one failure and one
restart at every point. TLC permutes handlers and unique segments where no
liveness property is checked; both sets are otherwise interchangeable in the
model.

In `account_removal` the two issuers of one account are the users whose keys might
meet under a mistaken owner segment, and an admin wipe of the account at any issuer
takes the rows of both, which is the wipe of two keys that liveness needs. An
account key recurs for ever, while a dump key is drawn once and shows nothing more
here: the segment of its owner is derived the same way. (A dump key is what
`claim_removal` uses.)

In `credentials` a revocation needs one request and the key it kills another, so
two handlers again give every order of the two. The clock has a moment before,
at and after an expiry that is not a whole second. One user holds a token that ends
early (and is still good within the skew) and one without an expiry, which is
refused, and so can be signed out for good; the other holds one without an issue
time that carries the admin claim, and one that is dated ahead. A key is minted at
most once, as its identifier is random.

In `fs_driver` every hazard is one of two calls: a put and a delete that meet at
a directory, two puts or a put and a get that meet at a name. The two directories
are nested, so that a prune can take a level away between two levels of a
`MkdirAll`. A client holds at most one file besides those that are linked, so
three allow two puts to write beside an object, or a put beside an object and what a
crash or a failed clean-up left behind; where none is free a put waits, which adds no
behaviour. `VIEW` drops what a free file held, which `CreateTemp` overwrites.

In `uploads_table` a miss needs a row removed before the offset of a walk and a
repeat one inserted, so three rows and pages of one give both, and both bounds
are reached. One wipe meets inserts, deletes, commits to the other table and the
walk; two wipes were checked against each other without a walk (27 thousand
states), and the proof has any number. A walk that starts at another direction
of the sort column is the same walk over the values of that column reversed; the
order of ties is chosen per walk. `VIEW` drops the values of rowids and keeps
their order.

In `rate_limit` nothing is bounded but the rates: times are ages, and an age is
not counted past the point at which nothing depends on it. The keys do not
interact except through the janitor's pass, so one of each kind is enough.

In `admission` a width of five bits has every relation of a size to the limits,
to their sum and to the largest integer: sizes below, at and above a cap, a quota
that together with a cap just fits or does not, a stated size that the float
rounds up (11 to 12), and one the integer does not hold. `Configured` is the
union of every policy under one way to boot and every way to boot under a few policies: boot reads of a place only whether its
strategy is known, and admission reads nothing that boot leaves undecided.

**Deadlock** is checked where an account place lets a user upload again for
ever. With dump places alone every segment may be used up and every file
deleted; there the model stops because of the bound on `Uniques`. `Admission`
stops when the process exits. The other modules do not stop.

**Fairness.** `FairSpec` assumes weak fairness of the steps a goroutine takes
without waiting for its client: the runtime schedules every runnable goroutine,
and SQLite and the file system answer, if only with an error. It does not cover
`CommitTransfer`, because `cmd/depot/main.go` sets `ReadHeaderTimeout` and no
read timeout: a client may keep a PUT open for ever. `Expire` is fair since
clocks advance. No client action is fair. `FairRemovalSpec` is the same with the
wipe of account deletion. The modules other than these state no fairness:
what they promise is safety, the refinements included.

**The properties.**

- `QuotaOvershootBounded`: `quota.go` admits the race between check and insert.
  The property says how much it can cost: a limited user's charge, together
  with what the requests in flight may still insert, exceeds the limit by at
  most one largest file for each other request in flight.
- `DumpKeyIsFresh`: an insert under the dump strategy never meets its primary
  key, and a write never replaces bytes.
- `StoredWithinRow`: what is stored at a dump key never exceeds what its row
  charges, although its capability can be used again and late.
- `DeletionLeavesNoPhantom`: bytes under the dump strategy go away only when no
  row claims them. Under the account strategy this is not so (a re-upload
  between a row's deletion and its object's): see section 5.
- `CommittedUploadHasBytes`: when the row of a one-shot upload to a dump place
  appears, exactly its bytes are in place.
- `OrphansHaveACause`: under both strategies, bytes become orphaned (no row, and
  no request about to insert or to delete them) only through a restart, a failure
  that is logged, or a transfer by capability that stores at a key without a row:
  one verified before the row was deleted, or a later one, since a deletion does not
  revoke the capability. In particular a wipe that meets a failing deletion, and a
  one-shot upload that loses the race for an account key, orphan nothing else.
- `RemovedRowsLoseBytes`: a key whose row a deletion removed eventually loses
  its bytes or is logged.
- `RemovedUserHasNoRow`: from a wipe that finds no upload of the user in flight to
  the user's next upload there is no row of the user. No other wipe, no upload of the
  same account under another issuer, no failure and no restart leaves or inserts one.
- `RemovedUserStoresByCapability`: in that interval bytes appear or change under the
  user's segment only by the end of a transfer.
- `RevokedForGood`: a revocation that was answered is never undone, by a request
  that resolved the key before it and records the use after it, or by a mint.
- `DeadKeysAreRefused`: a key revoked or expired when a request arrives does not
  authenticate it. A request that arrived in time may still be served after the
  revocation.
- `KeysNeedALogin`: a key enters the table, or leaves it, only by a request that a
  verified token of the key's own owner authenticates: not by an API key, leaked or
  not, nor by the service key, another user's login, or the late record of a use.
- `EnabledCredentialsOnly`: callers are served by credentials that the running
  configuration enables, whatever is stored from before; an API key is never
  admin, a login only by the configured claim.
- `SignedOutForGood`: once every token a user holds has run out and no request of a
  login of theirs is in flight, their keys are frozen and no login of theirs is served
  again, over any restarts. So the harm a stolen token can do ends with the token.
- `BytesBecomeFinal`: once the capability of a dump key is gone and no request
  works on it, its bytes only ever go away. This is the part of the proxy cache's
  premise that holds; while the capability lives they may change.
- `LinkedFilesAreWhole`: what a name links to is the whole body of one put,
  within its limit, however slow or broken other transfers are. This is for limits
  below the largest int64; for that one see the disagreements below.
- `NamesGoByTheirOwners`: the name of an object goes only by its own deletion, a temp
  name only by its own upload. No prune reaches either, though writers make the
  directory and fill it in separate calls.
- `DirectoryMissingOnlyByPrune`: a put that finds its directory gone, which the
  code answers with a 500, lost it to a concurrent delete and to nothing else.
- `StrayTempsHaveACause`: every way out of a put removes its temp file; what remains
  is at most one per call that a restart cut off, and one per removal that itself
  failed. It is never removed, and keeps its directory from being pruned.
- `ImplementsObjectStore`: each call of the driver takes effect at one instant
  or not at all. In particular what a get serves is what was stored at one
  moment between its call and its return.
- `ImplementsUploadStore`: the keys a wipe returns, whose objects are deleted
  next, are exactly the rows it removed. `Depot` relies on this.
- `WalkMissesBounded`, `WalkRepeatsBounded`: the price of paging by offset. A
  row that was there all the time is missed at most once per row removed during
  the walk, and, for a client that trusts the total, once per row inserted
  between the count and the page of its last answer; rows are shown again at
  most once per insert.
- `ImplementsTokenBucket`: refusals cost nothing, refill is exact, and a bucket
  is forgotten only once it has regained more than the idle time's worth. For a
  window up to ten minutes that is all of it; for "N/hour" the burst comes back
  early, which `TokenBucket` admits as `Forget`. A pass that
  cleared the whole map would look like a `Restart` of the buckets; for windows within
  the idle time `JanitorIsInvisible` excludes it.
- `JanitorIsInvisible`: where a window fits in the idle time, a pass of the janitor
  changes no answer to come, though it judges a bucket by the time its ticker
  fired and runs later.
- `IdleBucketsAreDropped`: a churn of keys costs memory for twice the idle time
  and the delay of a pass, no longer.
- `ServesAsConfigured`: a process that serves has every seam its file asks for, and
  one that leaves `run`, at whichever step, the ping and the schema of the database
  included, holds no database open.
- `CapsHoldAsStated`: an admitted upload is within the cap the file states for its
  place, or the global one, also when that is beyond int64. Up to 2^53 bytes this is
  exact; above it the cap is that of the nearest float64, which may be larger.
- `QuotaIsExact`: where every place has a cap and cap and quota together fit
  int64, requests served one at a time never exceed the quota, as its float64 has it.
  Without caps `used+addBytes` may wrap, after which `SUM` overflows and the checks
  of that user fail with a 500.
- `DeriveNeverRefuses`: the second check of the identity, in `DeriveKey`, is
  never reached, since an account place forces `require_identity`.

**The disagreements** between comments and code, each with its run:

- `place.go` says of the account strategy that "a re-upload overwrites".
  `RecordUpload` is a plain `INSERT`, so the second upload ends in a 500; on the
  one-shot path its bytes have already replaced the first ones.
- `store.go` and `file.go` count on a periodic cleanup job for orphaned rows and
  objects. The repository has none; an abandoned presign charges its user for
  ever.
- `file.go` says that a removed user leaves nothing behind. A PUT with a URL
  handed out before the wipe stores an object after it.
- `chain.go` and `auth.go` say that a presented token never falls through to
  anonymous. With the anonymous credential alone and no service key, `buildAuth`
  wires no chain but `Anonymous()`, which does not look at the token. The chain
  that `chain_test.go` tests for this case, with no token authenticator, is not
  the one the program builds.

Smaller ones have no run. `depot.conf` says that "a given URL's bytes never
change"; an upload URL can be used again while it lives, and the proxy keeps what
it fetched in between. `ratelimit.go` says that at most `limit` events are allowed
per window; a bucket that starts full admits up to `2 * limit - 1` within one.
`units.go` says that a bare number is taken as bytes: 9007199254740995 becomes
9007199254740996. `transfer.go` says that the copy is
capped one byte past the limit: for a signed size of 2^63-1, which a presign gets in a
place without a cap when the caller has no quota, `maxSize+1` is negative,
`LimitReader` reads nothing, and an empty object is stored with a 201 (`Limit` in
`FsDriver`; with `Caps = {3}` and `MaxInt = 3` TLC finds `LinkedFilesAreWhole`
violated). `main.go` calls the "uploads" place always present,
which no code ensures; it speaks of a Depot with the service key alone, which
`Validate` rejects.

## 4. What is proved

**The lifecycle.** The theorems hold for every set of users, keys and handlers, every size and
limit, and any number of failures and restarts, under the assumptions of
`Depot` on its constants: finite sets of users, segments, names and
handlers, segments and names that do not coincide, positive sizes, natural
limits, and a `None` that is none of the values it stands beside.

| theorem | statement |
|---|---|
| `TypeCorrect` | `Spec => []TypeOK` |
| `QuotaOvershoot` | `Spec => []QuotaOvershootBounded` |
| `OrphansAreCaused` | `Spec => OrphansHaveACause`, under both strategies |
| `RemovalRefines` | `RemovalSpec => Spec` |
| `RemovedUserIsCleared` | `RemovalSpec => []RemovedUserHasNoRow` |
| `RemovedUserGetsNoBytes` | `RemovalSpec => RemovedUserStoresByCapability` |
| `DumpInvariant` | `Spec => [](TypeOK /\ DumpInv)` |
| `DumpKeysAreFresh` | `Spec => []DumpKeyIsFresh` |
| `BytesWithinRows` | `Spec => []StoredWithinRow` |
| `NoPhantomRows` | `Spec => DeletionLeavesNoPhantom` |
| `UploadsHaveBytes` | `Spec => CommittedUploadHasBytes` |
| `DumpBytesAreFinal` | `Spec => BytesBecomeFinal` |

| theorem of `CredentialProofs` | statement |
|---|---|
| `TypeCorrect` | `Spec => []TypeOK` |
| `KeyInvariant` | `Spec => [](TypeOK /\ KeyInv)` |
| `RevocationIsFinal` | `Spec => []RevokedForGood` |
| `DeadKeysRefused` | `Spec => []DeadKeysAreRefused` |
| `ChainInvariant` | `Spec => [](TypeOK /\ ChainInv)` |
| `OnlyEnabled` | `Spec => []EnabledCredentialsOnly` |
| `KeysByLogins` | `Spec => KeysNeedALogin` |
| `SignedOutIsFinal` | `Spec => SignedOutForGood` |

| theorem | statement |
|---|---|
| `FsProofs`: `DriverInvariant` | `Spec => []FsInv` |
| `DriverTypes` | `Spec => []TypeOK` |
| `FilesAreWhole` | `Spec => []LinkedFilesAreWhole`, assuming `MaxInt \notin Caps` |
| `StraysAreBounded` | `Spec => []StrayTempsHaveACause` |
| `OnlyPruneLosesDirectories` | `Spec => []DirectoryMissingOnlyByPrune` |
| `PruneSparesFiles` | `Spec => NamesGoByTheirOwners` |
| `Refinement` | `Spec => ImplementsObjectStore`, assuming `MaxInt \notin Caps` |
| `UploadsProofs`: `TableInvariant`, `TableTypes` | `Spec => []TableInv`, `Spec => []TypeOK` |
| `WipeIsAtomic` | `Spec => ImplementsUploadStore` |
| `WalkProofs`: `WalkInvariant` | `Spec => []WalkInv` |
| `MissesBounded`, `RepeatsBounded` | `Spec => []WalkMissesBounded`, `Spec => []WalkRepeatsBounded` |
| `RateProofs`: `RateInvariant`, `RateTypes` | `Spec => []RateInv`, `Spec => []TypeOK` |
| `IdleBucketsGo` | `Spec => []IdleBucketsAreDropped` |
| `LimiterIsExact` | `Spec => ImplementsTokenBucket` |
| `JanitorTakesNothing` | `Spec => JanitorIsInvisible` |
| `AdmissionProofs`: `AdmissionInvariant`, `AdmissionTypes` | `Spec => []AdmissionInv`, `Spec => []TypeOK` |
| `ServesWhatIsConfigured` | `Spec => []ServesAsConfigured` |
| `CapsHold` | `Spec => []CapsHoldAsStated` |
| `DeriveAccepts` | `Spec => []DeriveNeverRefuses` |
| `QuotaExact` | `Spec => []QuotaIsExact` |

The assumptions on the constants are the named `ASSUME`s of each module, which
TLC evaluates. Beyond the shape of the values they ask: `FsDriver` that the root
is none of the directories below it and that clients and inodes are finitely
many (any tree of directories, any depth); `RateLimit` that the janitor is late by
less than its period and that a rate has at least one tick per event;
`Admission` that stated sizes are naturals, that int64 holds the largest file a
client has and the overhead of the one-shot body, that floats are exact up to
`Precise` and no smaller than it above, and that a conversion out of range yields the
largest or the smallest integer. `UploadsTable` asks for a natural
bound on the inserts, for integers in the columns a listing sorts by, for
some order of the owners' index, and for page limits of at least one, as `boundedInt` refuses a smaller `limit`.

The assumptions of `Credentials` are that the service key's identity and the
anonymous one are no user's, that tokens are well-formed, that the bound of the
clock and the skew are naturals and a second has at least one tick, and that
`None` is none of the values it stands beside. Users, keys and handlers may be
any sets.

**The quota.** `Usage(u) <= limit + slack` is not inductive: a request that has
passed the check may insert later. Adding what all pending requests of the user
may still insert makes it so. A step that begins a request may assume
`Usage + n <= limit`; the other pending requests number at most
`|Handlers| - 1` and carry at most `MaxSize` bytes each
(`ReservedByOthers`), which is the slack (`BoundKept`). An insert moves a
request's bytes from the reserved to the charged side (`ChargedFromPending`),
and every other step raises neither (`NothingRaised`). `StepMoves` sorts the
actions into these three kinds. Both sides are sets of pairs of a key (a handler)
and a byte, so that the sums are cardinalities and no induction over a table is
needed.

**The dump strategy.** `DumpInv` has four parts. `DumpKeyIsFresh` needs to know
that a segment not drawn yet has left no trace (`UndrawnUntouched`): then a
request that draws it is alone with its key. `OneShotHasBytes` says that the bytes
at such a key are its own. Once the row is inserted `SizesAgree` takes over:
capabilities, transfers and bytes at the key agree with the row's size, and a key
with a row is in nobody's list of objects to delete. That last conjunct
is what row first, object second amounts to, and what fails for account
keys. The invariant is a statement about each key, so it is proved for one key
(`KeyInv`), one lemma per kind of step.

`NoPhantomRows`, `UploadsHaveBytes` and `DumpBytesAreFinal` are action properties.
For the last, `FinalStep` goes through the steps: a key that is final is drawn, so
no presign and no one-shot upload draws it again, and without a capability no
transfer begins. For the others `BytesGoByUnlink`
and `RowsComeByInsert` name the only steps that can be concerned, and `DumpInv`
does the rest.

**Orphans.** `OrphanStep` goes through the steps of `Depot` with one key in view.
Bytes without a row are an orphan unless somebody is about to insert the row or to
delete the bytes; these are the *claims* on a key (`Claims`), and a step can only
orphan it by dropping a claim, by removing the row, or by storing
(`NothingOrphaned`). An insert turns a claim into the row, a deletion the row into
a claim, and `PutObject` stores under a claim; what is left are the failures,
restarts and transfers that the property names. The account strategy, where
several requests meet at a key, needs nothing more than that a request with
objects to delete is a deletion (`TodoOnlyUnlinking`).

**Account removal.** The wipe of account deletion is one more call of the wipe, so
the composed system implements `Depot` (`RemovalRefines`) and inherits its theorems.
`RemovalInv` adds to `RemovedUserHasNoRow` that removed users are quiet and that an
upload in flight works on a key of its own caller (`RemovedUserIsSilent`). A row that
appears is that of a pending upload, and an upload that becomes pending is at a key
of its own caller (`PendingStep`); as removed users have none pending, the row is not
theirs, and what stores under their segment is no one-shot upload. What is left is a
transfer. Nothing is assumed of restarts, failures or credentials: an upload of the
user is not forbidden, it ends the interval the theorems speak of.

**The credentials.** Two inductive invariants, one for each question. `KeyInv`
says that the table holds minted keys that were not revoked (`KeyLife`), and that
a request whose key was dead on arrival is still looking it up and the key is
dead now (`DeadStayDead`). It is inductive because a row, while it is there,
keeps its owner and expiry and can only go away (`KeysStep`), a minted key is
never minted again, and the clock only advances (`StaysDead`). `ChainInv` says
for each request what its phase implies about its caller (`CallerInv`): in
particular a request about to mint is that of a login. A restart that changes the
configuration keeps it because it drops the requests. `KeysMove` then names the only
steps that add or remove a key, and the login behind each. For `SignedOutForGood` a
token that has run out stays so (`RunOutStays`) and `verifyTime` refuses it, so that
no login of the user begins (`LoginStep`), and without one no key of the user moves
(`KeysFrozen`).

**The fs driver.** `FsInv` says what a call at each of its steps holds. `CallOK`
ties the step to the request and makes `todo` the chain of missing levels
down to the object's directory. `FileOK` says that a file being written has a
temp name, no other name and no other user, so that a rename links a whole
file and nobody writes to it afterwards; a file being served is whole and has no
temp name, so nobody writes to it either. `Footing` says that the directory a put
stands on exists unless a delete pruned it, which needs `TreeOK`: a directory with a
directory in it is not empty. A step concerns one call, and
`OthersLookAlike` and `OthersKeepFooting` settle the rest. For the refinement
every step moves one call of the abstract store or none (`ClientImplements`),
since what is linked changes at `Rename` and `Remove` alone. The bound on stray
files is by cardinalities: a restart adds at most one per client
(`StraysOfARestart`), a clean-up that fails adds its own (`StrayOfAFailedRemove`), and
no other step adds any (`NoNewStrays`). `NamesStep` goes through the steps that take a
name away. Where some limit is the largest int64 a file may be linked that is not
whole (`Complete`); the two theorems about whole bodies exclude that limit.

**The wipe.** `SnapshotsAgree` is the whole argument: the keys a transaction has
read are those of the committed table as long as nothing was committed, and while
it holds the lock nothing is. `OneWriter` is needed to keep it, since a commit
must not leave another transaction inside its own lock. That a row is determined by its
key is needed for the keys returned to be those of the rows removed.

**The walk.** `WalkInv` gives the client two debts. Rows it has seen that stand at or
behind its offset will be shown again: `repeats` and these together are within the
inserts. Rows that were there all the time, that it has not seen and that stand
before its offset are lost: they are within the deletes. Places are cardinalities
(`Rank`), so the work is in how one commit moves them. An insert moves the rows
behind it by one place, hence at most one across the offset (`InsertCrosses`); a
removal of `n` rows lets at most `n` others move up across it (`DeleteCrosses`: the
first `o` rows are `o` rows before and after, `FirstRows`); a page pays the first
debt by showing the rows (`PageRepeats`) and adds nothing to the second
(`PageMisses`). At the end a short page means that no row is left (`FullPage`), and
a total that has been reached leaves at most what slipped in after the count
(`RowsAfter`). That the order of rows is strict and total rests on distinct rowids,
which break the ties that the sort column and the owners' index leave.

**The rate limiter.** The level of a bucket is a function of its ages, and the
refinement maps it to the level of the ideal bucket; a tick refills both
(`TickRefines`). `ClocksAgree` says that a bucket idle for so long has refilled
for at least as long, so that what the janitor drops (`PassesKeepUp` bounds the
ages it can meet) had regained more than the idle time's worth: the condition
of `Forget` (`AbandonedLevel`). A window within the idle time cannot have regained
that much and not be full, which is `JanitorTakesNothing`.

**Admission.** `BootProgress` says what each step of `run` has established by the
time the next one starts, whichever of them may fail, `RequestChecked` what the
checks have established about a request. `CapsHold` then compares the cap of the built place with the float of
the one stated: a conversion that yields the smallest integer makes a cap that bounds
nothing, but was stated beyond any size that can be declared. `QuotaExact` counts
the rows' bytes as a set of pairs of row and byte, so that the sum of the table is a
cardinality and needs no induction. `RequestFits` carries the answer of `Check` to
the insert, where it is all that is needed; `CheckIsExact` shows that the wrapped
comparison decides the real one as long as the cap and the quota together fit, and
`NoRowsBeforeServing` covers the boot, during which a place may change its cap.

**Model-checked only.** `RemovedRowsLoseBytes`, since liveness is out of the prover's
reach, and the `claim_` runs, which need only their counterexample. No module with a
theorem reaches a `RECURSIVE` operator. The limit of 2^63-1 is outside the theorems
about whole bodies, as they are false for it.

## 5. What is not modelled, and why

- `Usage`, `Check` and the listings as statements that fail, in `Depot`: a failing
  read ends the request with no effect.
- A failing wipe transaction in `Depot`: nothing is removed (`UploadsTable`), so
  it is a wipe that does not happen.
- The loss of power: the driver never syncs, so what of the tree survives depends
  on the file system. A crash here is that of the process.
- A temp name that is drawn again while a finished put of the same directory is
  still to remove its own: the deferred `Remove` goes by name. The names have
  random digits, and `CreateTemp` draws again if one exists.
- An object key that is a directory of another key, which neither strategy
  derives for one place, and object keys outside the root, which the driver
  refuses.
- The shape of a token and the hash of a key: `ArriveKey` and `ArriveJWT` are the
  two branches of the router. A service key that looks like an API key is still
  compared first, so no case is lost. Labels and scopes of a key, which the code
  stores and shows but never checks.
- `clientIP` and the names of the limiter's keys, which are data; MIME lists, which only
  narrow what `Validate` admits; the spelling of sanitised filenames.
- `GET /files`, `/admin/files`, `/quota`, `/admin/stats` and the uploaders beyond
  their paging; CORS, JSON and multipart encoding, health, range requests, TLS,
  OIDC discovery and signature verification: encoding, pure I/O or library code,
  no state. This is why the read-only surface counts as partly modelled.
- The proxy cache itself, which is nginx under a configuration file: what the
  repository contributes is the premise that bytes do not change, and that is
  checked of `Depot` (`BytesBecomeFinal`).
- The s3 driver, the postgres backend and the Redis limiter: announced, not
  implemented. `Admission` has the refusals of the first two.
- The stateless shape (anonymous only) beyond boot and admission: no table, no
  identities.
- Under the account strategy a row may be left without bytes: between the removal
  of a row and that of its object the owner uploads the same name again, and the
  deletion takes the new bytes. `DeletionLeavesNoPhantom` is therefore stated for
  dump keys. The comments of the code promise nothing about it.

## 6. Plan

The order was by what goes wrong worst. Modules are written for proof as well as
for TLC: constants with named assumptions, one action per operation, no
`RECURSIVE` operator in a module with theorems.

1. **Done**: `Depot` with its properties, claims and proofs; `Credentials`;
   `AccountRemoval`.
2. **Done**: `ObjectStore` and `FsDriver`; `UploadStore` and `UploadsTable`;
   `TokenBucket` and `RateLimit`; `Admission`. The three refinements are checked
   and proved.
3. **Done**: every safety property of a run is a theorem, the bounds of a walk,
   `QuotaIsExact` and `OrphansHaveACause` included; the three refinements; and what
   account removal does achieve.
4. Left to model: what account places do keep (a row without bytes needs a
   re-upload inside a deletion).
5. Left to prove: that property, once it is stated; that `Depot`'s quota bound and
   `Admission`'s agree where requests come one at a time (with one handler the slack
   is zero).
