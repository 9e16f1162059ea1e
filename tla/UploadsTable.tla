----------------------------- MODULE UploadsTable -----------------------------
(***************************************************************************)
(* The uploads table as the SQLite backend keeps it, statement by statement. *)
(* A statement of its own commits at once.  WipeUploads is a deferred       *)
(* transaction: its SELECT takes a snapshot, its DELETE asks for the write  *)
(* lock and is refused when another connection holds it or has committed    *)
(* since the snapshot, its COMMIT publishes the deletion.  ListUploads is   *)
(* two statements, a COUNT and a page, and a client walks the pages by      *)
(* offset while the table moves under it.                                   *)
(*                                                                          *)
(* PrecedesPerPage, PageTooLong, NoPrimaryKey and SnapshotTaken are not part *)
(* of the system: each is the slip that the definition below it avoids.     *)
(***************************************************************************)
EXTENDS Integers, FiniteSets

CONSTANTS
  Keys,        \* object keys
  Owners,      \* pairs <<account, issuer>>
  IndexPlace,  \* owner |-> where the index on account and issuer has it
  Times,       \* values of the column a listing sorts by: time or size
  Scopes,      \* owners a request is about: one user, an account at any issuer, all
  Wipers,      \* goroutines serving a wipe (a bound)
  Orders,      \* the directions clients sort by, of {"asc", "desc"}
  PageLimits,  \* the values of limit a client asks for
  MaxInserts   \* bound on the rows inserted

ASSUME InsertsAssumption == MaxInserts \in Nat
ASSUME IndexAssumption == IndexPlace \in [Owners -> Int]
\* The sort columns are INTEGER; boundedInt refuses a limit below 1.
ASSUME ListingAssumption == Times \subseteq Int /\ PageLimits \subseteq Nat \ {0}

VARIABLES
  rows,     \* the committed table
  wipe,     \* wiper |-> its transaction
  walk,     \* the client that pages through a listing
  inserts   \* rows inserted so far

vars == <<rows, wipe, walk, inserts>>

Row  == [id : 1 .. MaxInserts, key : Keys, owner : Owners, at : Times]
NoTx == [pc |-> "idle", scope |-> {}, keys |-> {}, fresh |-> TRUE]
Txs  == [pc : {"idle", "begun", "selected", "deleting", "done", "failed"},
         scope : Scopes \union {{}}, keys : SUBSET Keys, fresh : BOOLEAN]

\* How a listing is ordered: the direction of the sort column, and the order the
\* query plan gives rows that are equal in it, as no tiebreak is asked for: by
\* rowid, either way, or as the index of owners has them, then by rowid.
Plans == [order : Orders, ties : {"asc", "desc", "owner"}]

KeysOf(table) == {r.key : r \in table}

Init ==
  /\ rows    = {}
  /\ wipe    = [w \in Wipers |-> NoTx]
  /\ walk    = [pc |-> "idle"]
  /\ inserts = 0

\* At most one connection holds the write lock of the database.
LockFree == \A w \in Wipers : wipe[w].pc # "deleting"

\* A commit makes the snapshot of every other open transaction stale.
Stale(txs) == [w \in Wipers |->
                 IF txs[w].pc = "selected" THEN [txs[w] EXCEPT !.fresh = FALSE] ELSE txs[w]]
-----------------------------------------------------------------------------
\* uploadFilter and ORDER BY: the rows of a listing and the place of each.
Matching(scope) == {r \in rows : r.owner \in scope}
PrecedesPerPage(plan, r, s) ==
  \/ r.at < s.at
  \/ r.at = s.at /\ IF walk.offset = 0 THEN r.id < s.id ELSE r.id > s.id
TieBefore(ties, r, s) ==
  IF ties = "owner" /\ IndexPlace[r.owner] # IndexPlace[s.owner]
  THEN IndexPlace[r.owner] < IndexPlace[s.owner]
  ELSE IF ties = "desc" THEN r.id > s.id ELSE r.id < s.id
Precedes(plan, r, s) ==
  \/ IF plan.order = "asc" THEN r.at < s.at ELSE r.at > s.at
  \/ r.at = s.at /\ TieBefore(plan.ties, r, s)
Position(scope, plan, r) == Cardinality({s \in Matching(scope) : Precedes(plan, s, r)})

\* LIMIT ? OFFSET ?
PageTooLong(scope, plan, offset, limit) ==
  KeysOf({r \in Matching(scope) : Position(scope, plan, r) \in offset .. offset + limit})
Page(scope, plan, offset, limit) ==
  KeysOf({r \in Matching(scope) : Position(scope, plan, r) \in offset .. offset + limit - 1})

\* What a commit that inserts or removes keys of the walked listing does to the
\* record a client could keep of its walk.
Walking == walk.pc \in {"asking", "counted"} /\ walk.offset > 0
NoteInsert(r) ==
  walk' = IF walk.pc = "idle" \/ walk.pc = "done" \/ r.owner \notin walk.scope THEN walk
          ELSE [walk EXCEPT !.inserted = IF Walking THEN @ + 1 ELSE @,
                            !.slipped  = IF walk.pc = "counted" THEN @ + 1 ELSE @]
NoteDelete(gone) ==
  walk' = IF ~Walking THEN walk
          ELSE [walk EXCEPT !.stable  = @ \ KeysOf(gone),
                            !.deleted = @ + Cardinality(gone \intersect Matching(walk.scope))]
-----------------------------------------------------------------------------
\* PRIMARY KEY (object_key), and the rowid: one more than the largest in use.
NoPrimaryKey(k) == k \in Keys
IsNewKey(k) == k \notin KeysOf(rows)
IsRowid(n) == (\A r \in rows : r.id < n) /\ (n = 1 \/ \E r \in rows : r.id = n - 1)

\* RecordUpload: one INSERT that waits for the lock; its uploaded_at was read
\* before it waited.
RecordUpload(r) ==
  /\ LockFree
  /\ inserts < MaxInserts
  /\ IsNewKey(r.key)
  /\ IsRowid(r.id)
  /\ rows' = rows \union {r}
  /\ wipe' = Stale(wipe)
  /\ NoteInsert(r)
  /\ inserts' = inserts + 1

\* A DELETE commits; one that matches no row commits nothing (ErrNotFound).
Remove(gone) ==
  /\ LockFree
  /\ gone # {}
  /\ rows' = rows \ gone
  /\ wipe' = Stale(wipe)
  /\ NoteDelete(gone)
  /\ UNCHANGED inserts

DeleteUpload(k, owner) == Remove({r \in rows : r.key = k /\ r.owner = owner})
DeleteUploadAny(k)     == Remove({r \in rows : r.key = k})

\* A commit to the api_keys table of the same database: TouchKey, CreateKey,
\* RevokeKey.
OtherCommit ==
  /\ LockFree
  /\ wipe' = Stale(wipe)
  /\ UNCHANGED <<rows, walk, inserts>>
-----------------------------------------------------------------------------
WipeBegin(w, scope) ==
  /\ wipe[w] = NoTx
  /\ wipe' = [wipe EXCEPT ![w] = [NoTx EXCEPT !.pc = "begun", !.scope = scope]]
  /\ UNCHANGED <<rows, walk, inserts>>

\* SELECT object_key: a snapshot of what is committed, lock or no lock.
WipeSelect(w) ==
  /\ wipe[w].pc = "begun"
  /\ wipe' = [wipe EXCEPT ![w].pc = "selected",
                          ![w].keys = KeysOf(Matching(wipe[w].scope))]
  /\ UNCHANGED <<rows, walk, inserts>>

\* DELETE: the read transaction becomes a write transaction if nothing was
\* committed since; the busy timeout does not apply to it.
SnapshotTaken(w) == wipe[w].pc = "selected"
SnapshotIsCurrent(w) == wipe[w].pc = "selected" /\ wipe[w].fresh
WipeDelete(w) ==
  /\ SnapshotIsCurrent(w)
  /\ LockFree
  /\ wipe' = [wipe EXCEPT ![w].pc = "deleting"]
  /\ UNCHANGED <<rows, walk, inserts>>

WipeCommit(w) ==
  /\ wipe[w].pc = "deleting"
  /\ rows' = rows \ Matching(wipe[w].scope)
  /\ wipe' = [Stale(wipe) EXCEPT ![w].pc = "done"]
  /\ NoteDelete(Matching(wipe[w].scope))
  /\ UNCHANGED inserts

\* The refusal above, a cancelled request or an I/O error: the deferred
\* Rollback drops whatever the transaction did.
WipeRollback(w) ==
  /\ wipe[w].pc \in {"begun", "selected", "deleting"}
  /\ wipe' = [wipe EXCEPT ![w].pc = "failed", ![w].keys = {}]
  /\ UNCHANGED <<rows, walk, inserts>>

WipeReturn(w) ==
  /\ wipe[w].pc \in {"done", "failed"}
  /\ wipe' = [wipe EXCEPT ![w] = NoTx]
  /\ UNCHANGED <<rows, walk, inserts>>
-----------------------------------------------------------------------------
\* A client starts to page through a listing; it stops at a short page, or when
\* the total it was given is reached.
StartWalk(scope, plan, limit, stop) ==
  /\ walk.pc = "idle"
  /\ walk' = [pc |-> "asking", scope |-> scope, plan |-> plan, limit |-> limit,
              stop |-> stop, offset |-> 0, total |-> 0, seen |-> {}, stable |-> {},
              repeats |-> 0, inserted |-> 0, deleted |-> 0, slipped |-> 0]
  /\ UNCHANGED <<rows, wipe, inserts>>

\* ListUploads, SELECT COUNT(*).
CountUploads ==
  /\ walk.pc = "asking"
  /\ walk' = [walk EXCEPT !.pc = "counted", !.slipped = 0,
                          !.total = Cardinality(Matching(walk.scope))]
  /\ UNCHANGED <<rows, wipe, inserts>>

\* ListUploads, the page; the client takes it and asks for the next or stops.
TakePage(page) ==
  LET next == walk.offset + walk.limit
      last == IF walk.stop = "short" THEN Cardinality(page) < walk.limit
                                     ELSE next >= walk.total
  IN walk' = [walk EXCEPT
                !.pc      = IF last THEN "done" ELSE "asking",
                !.offset  = next,
                !.stable  = IF walk.offset = 0
                            THEN KeysOf(Matching(walk.scope)) ELSE @,
                !.seen    = @ \union page,
                !.repeats = @ + Cardinality(page \intersect walk.seen)]
SelectUploads ==
  /\ walk.pc = "counted"
  /\ TakePage(Page(walk.scope, walk.plan, walk.offset, walk.limit))
  /\ UNCHANGED <<rows, wipe, inserts>>

\* The process dies: open transactions are rolled back, the client asks again.
Crash ==
  /\ wipe' = [w \in Wipers |-> NoTx]
  /\ walk' = IF walk.pc = "counted" THEN [walk EXCEPT !.pc = "asking"] ELSE walk
  /\ UNCHANGED <<rows, inserts>>

Next ==
  \/ \E r \in Row : RecordUpload(r)
  \/ \E k \in Keys : (\E o \in Owners : DeleteUpload(k, o)) \/ DeleteUploadAny(k)
  \/ OtherCommit
  \/ \E w \in Wipers :
       \/ \E s \in Scopes : WipeBegin(w, s)
       \/ WipeSelect(w) \/ WipeDelete(w) \/ WipeCommit(w) \/ WipeRollback(w) \/ WipeReturn(w)
  \/ \E s \in Scopes, p \in Plans, n \in PageLimits, stop \in {"short", "total"} :
       StartWalk(s, p, n, stop)
  \/ CountUploads \/ SelectUploads
  \/ Crash

Spec == Init /\ [][Next]_vars
=============================================================================
