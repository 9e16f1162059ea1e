--------------------------- MODULE DepotProperties ---------------------------
(***************************************************************************)
(* What the upload lifecycle of module Depot promises.                      *)
(***************************************************************************)
EXTENDS Depot

\* Type invariant of the uploads table, the object tree, the capabilities and
\* the requests in flight.
TypeOK ==
  /\ rows \in [Keys -> Rows \union {None}]
  /\ objects \in [Keys -> 0 .. MaxSize \union {None}]
  /\ caps \subseteq Caps
  /\ used \subseteq Uniques
  /\ req \in [Handlers -> Requests]
  /\ leaked \subseteq Keys
  /\ faults \in 0 .. MaxFaults
  /\ crashes \in 0 .. MaxCrashes
-----------------------------------------------------------------------------
\* Requests that passed quota.Check and may still insert their row.
Pending(h) == req[h].pc \in {"presign", "put", "record"}

PendingBytes(u) ==
  {e \in Handlers \X Sizes : /\ Pending(e[1])
                             /\ req[e[1]].owner = u
                             /\ e[2] <= req[e[1]].size}

\* How far the limit of a user can be passed, in bytes: each of the other
\* requests in flight may carry one file of the largest size.
Slack == (Cardinality(Handlers) - 1) * MaxSize

\* quota.go admits that concurrent requests can pass Check on the same usage.
\* However they interleave with inserts, deletes, wipes and restarts, the bytes
\* charged to a limited user never exceed the limit by more than Slack, and the
\* requests that are still to insert their row are within that bound already.
QuotaOvershootBounded ==
  \A u \in Users : Limited(u) =>
    Usage(u) + Cardinality(PendingBytes(u)) <= Limit[Account(u)] + Slack
-----------------------------------------------------------------------------
\* Under the dump strategy RecordUpload never meets its primary key and
\* PutObject never overwrites: while a request holds a key it has not recorded,
\* no row, no capability and no other request (upload, transfer or delete) is
\* concerned with that key, and no bytes are there but its own.
DumpKeyIsFresh ==
  \A h \in Handlers : Pending(h) /\ req[h].key \in DumpKeys =>
    /\ rows[req[h].key] = None
    /\ req[h].pc # "record" => objects[req[h].key] = None
    /\ \A c \in caps : c.key # req[h].key
    /\ \A g \in Handlers \ {h} : req[g].key # req[h].key
    /\ \A g \in Handlers : req[h].key \notin req[g].todo

\* The quota counts declared sizes.  Under the dump strategy the bytes stored
\* at a key never exceed the size its row is charged with, however many times
\* and however late its capability is used.
StoredWithinRow ==
  \A k \in DumpKeys : rows[k] # None /\ objects[k] # None => objects[k] <= rows[k].size

\* The inductive form of what the dump strategy guarantees.  A segment not yet
\* drawn has left no trace; bytes stored by a one-shot upload are its own until
\* its row appears; capabilities, transfers and bytes of a recorded key agree
\* with the row's size; a key to be unlinked has no row and gets none again.
Concerns(h, k) == req[h].key = k \/ k \in req[h].todo

UndrawnUntouched ==
  \A k \in DumpKeys : k[2] \notin used =>
    /\ rows[k] = None /\ objects[k] = None
    /\ \A c \in caps : c.key # k
    /\ \A h \in Handlers : ~Concerns(h, k)

OneShotHasBytes ==
  \A h \in Handlers : req[h].pc = "record" /\ req[h].key \in DumpKeys =>
    objects[req[h].key] = req[h].size

SizesAgree ==
  \A k \in DumpKeys : rows[k] # None =>
    /\ objects[k] # None => objects[k] <= rows[k].size
    /\ \A c \in caps : c.key = k => c.size = rows[k].size
    /\ \A h \in Handlers : /\ req[h].key = k => req[h].size = rows[k].size
                           /\ k \notin req[h].todo

DumpInv == DumpKeyIsFresh /\ UndrawnUntouched /\ OneShotHasBytes /\ SizesAgree

\* handleDeleteFile removes the row first so that a deletion cannot leave "a
\* phantom row that still counts against quota": under the dump strategy bytes
\* only ever go away when no row claims them.
DeletionLeavesNoPhantom ==
  [][\A k \in DumpKeys :
       objects[k] # None /\ objects'[k] = None => rows[k] = None /\ rows'[k] = None]_vars

\* A one-shot upload under the dump strategy that is answered with success has
\* its bytes in place when its row appears, whatever ran in between.
CommittedUploadHasBytes ==
  [][\A h \in Handlers :
       /\ req[h].pc \in {"put", "record"} /\ req[h].key \in DumpKeys
       /\ rows[req[h].key] = None /\ rows'[req[h].key] # None
       => objects'[req[h].key] = req[h].size]_vars

\* depot.conf lets the proxy keep a download for thirty days because "a given
\* URL's bytes never change".  Under the dump strategy they may while a capability
\* for the key lives or a request stores to it; from then on no request ever
\* writes to the key again, and its bytes stay as they are until they are deleted.
Final(k) ==
  /\ k[2] \in used
  /\ \A c \in caps : c.key # k
  /\ \A h \in Handlers : req[h].key # k
BytesBecomeFinal ==
  [][\A k \in DumpKeys : Final(k) =>
       Final(k)' /\ (objects'[k] = objects[k] \/ objects'[k] = None)]_vars
-----------------------------------------------------------------------------
\* Bytes no row claims and no request in flight is about to claim or to delete.
Orphan(k) ==
  /\ objects[k] # None
  /\ rows[k] = None
  /\ \A h \in Handlers : /\ req[h].pc = "record" => req[h].key # k
                         /\ k \notin req[h].todo

\* Only a request that deletes has objects left to delete: what makes
\* OrphansHaveACause inductive.
TodoOnlyUnlinking ==
  \A h \in Handlers : req[h].todo # {} => req[h].pc = "unlink"

\* Bytes become orphaned only through a restart, a logged failure of the
\* database or of an object deletion, or a transfer by capability that stores at
\* a key without a row: one that was verified before the row was deleted, or a
\* later one, as a delete does not revoke the capability.  No interleaving of
\* successful one-shot uploads, deletes and wipes orphans anything else.
OrphansHaveACause ==
  [][\A k \in Keys : ~Orphan(k) /\ Orphan(k)' =>
       \/ crashes' > crashes
       \/ faults' > faults
       \/ \E h \in Handlers : /\ req[h].pc = "transfer" /\ req[h].key = k
                              /\ objects' # objects]_vars
-----------------------------------------------------------------------------
\* A key whose row a delete or a wipe removed loses its bytes, or is logged as
\* orphaned, unless the process restarts: one failing DeleteObject does not keep
\* wipeUploads from the keys that follow.
RemovedRowsLoseBytes ==
  \A k \in Keys : (\E h \in Handlers : k \in req[h].todo)
                    ~> (objects[k] = None \/ k \in leaked \/ crashes > 0)
=============================================================================
