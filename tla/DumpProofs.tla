----------------------------- MODULE DumpProofs -----------------------------
(***************************************************************************)
(* Proofs about the dump strategy: its keys are never shared, the quota     *)
(* covers the bytes stored under them, and no row loses its bytes.          *)
(***************************************************************************)
EXTENDS DepotProofs

\* What the invariant says of one key.
FreshAt(k) ==
  \A h \in Handlers : Pending(h) /\ req[h].key = k =>
    /\ rows[k] = None
    /\ objects[k] = IF req[h].pc = "record" THEN req[h].size ELSE None
    /\ \A c \in caps : c.key # k
    /\ \A g \in Handlers \ {h} : req[g].key # k
    /\ \A g \in Handlers : k \notin req[g].todo

UndrawnAt(k) ==
  k[2] \notin used =>
    /\ rows[k] = None /\ objects[k] = None
    /\ \A c \in caps : c.key # k
    /\ \A h \in Handlers : req[h].key # k /\ k \notin req[h].todo

AgreeAt(k) ==
  rows[k] # None =>
    /\ objects[k] # None => objects[k] <= rows[k].size
    /\ \A c \in caps : c.key = k => c.size = rows[k].size
    /\ \A h \in Handlers : /\ req[h].key = k => req[h].size = rows[k].size
                           /\ k \notin req[h].todo

KeyInv(k) == FreshAt(k) /\ UndrawnAt(k) /\ AgreeAt(k)

\* The invariant is the conjunction of what it says of each key.
LEMMA DumpInvByKey ==
  ASSUME TypeOK
  PROVE  DumpInv <=> \A k \in DumpKeys : KeyInv(k)
  BY DEF DumpInv, DumpKeyIsFresh, UndrawnUntouched, OneShotHasBytes, SizesAgree,
         Concerns, KeyInv, FreshAt, UndrawnAt, AgreeAt, Pending

\* One request moves from r to something else: the other requests stay.
LEMMA EnterFrame ==
  ASSUME TypeOK, NEW h \in Handlers, NEW r, Enter(h, r)
  PROVE  req'[h] = r /\ \A g \in Handlers \ {h} : req'[g] = req[g]
  BY DEF TypeOK, Enter

\* No key, row or size is the absent value.
LEMMA NoneIsNone ==
  /\ None \notin DumpKeys
  /\ \A u \in Callers, n \in Sizes : [owner |-> u, size |-> n] # None
  /\ \A n \in 0 .. MaxSize : n # None
  BY NoneAssumption DEF Keys, Rows, Sizes

\* A step that touches neither table nor tree, hands out no capability and only
\* leaves requests idle keeps the invariant of a key.
LEMMA QuietStep ==
  ASSUME TypeOK, NEW k \in DumpKeys, KeyInv(k),
         UNCHANGED <<rows, objects, used>>, caps' \subseteq caps,
         \A h \in Handlers : req'[h] = req[h] \/ req'[h] = Idle
  PROVE  KeyInv(k)'
  BY NoneIsNone DEF KeyInv, FreshAt, UndrawnAt, AgreeAt, Pending, Idle, Storing

\* Presign and Upload draw a key: the one they draw was untouched before.
LEMMA BeginStep ==
  ASSUME TypeOK, NEW k \in DumpKeys, KeyInv(k),
         NEW h \in Handlers, NEW u \in Callers, NEW d \in Keys,
         NEW n \in 0 .. MaxSize + 1,
         Presign(h, u, d, n) \/ Upload(h, u, d, n)
  PROVE  KeyInv(k)'
<1>1. PICK pc \in {"presign", "put"} : Enter(h, Storing(pc, u, d, n))
  BY DEF Presign, Upload
<1>2. req'[h] = Storing(pc, u, d, n) /\ \A g \in Handlers \ {h} : req'[g] = req[g]
  BY <1>1, EnterFrame
<1>3. /\ UNCHANGED <<rows, objects, caps>>
      /\ IsIdle(h)
      /\ Derive(u, d)
  BY DEF Presign, Upload
<1>4. CASE d # k
  <2>1. used \subseteq used'
    BY <1>3 DEF Derive
  <2>2. QED
    BY <1>2, <1>3, <1>4, <2>1
       DEF KeyInv, FreshAt, UndrawnAt, AgreeAt, Pending, Storing
<1>5. CASE d = k
  <2>1. k[2] \notin used /\ k[2] \in used'
    BY <1>3, <1>5, NamesAssumption DEF Derive, FreshSegment, DumpKeys, AccountKeys
  <2>2. QED
    BY <1>2, <1>3, <1>5, <2>1
       DEF KeyInv, FreshAt, UndrawnAt, AgreeAt, Pending, Storing
<1>6. QED
  BY <1>4, <1>5

\* The insert of a fresh key meets no row, no capability and no other request.
LEMMA RecordStep ==
  ASSUME TypeOK, NEW k \in DumpKeys, KeyInv(k),
         NEW h \in Handlers, RecordPresign(h) \/ RecordUpload(h)
  PROVE  KeyInv(k)'
<1>1. /\ req[h].key \in Keys /\ req[h].size \in Sizes /\ req[h].owner \in Callers
      /\ Pending(h)
  BY StoringHasKey DEF RecordPresign, RecordUpload, Pending, TypeOK
<1>2. UNCHANGED <<objects, caps, used>>
  BY DEF RecordPresign, RecordUpload
<1>3. CASE UNCHANGED rows /\ Finish(h)
  <2>1. \A g \in Handlers : req'[g] = req[g] \/ req'[g] = Idle
    BY <1>3, EnterFrame DEF Finish
  <2>2. QED
    BY <1>2, <1>3, <2>1, QuietStep
<1>4. CASE Insert(req[h]) /\ (Finish(h) \/ Goto(h, "reply"))
  <2>1. PICK r : Enter(h, r) /\ (r = Idle \/ r = [req[h] EXCEPT !.pc = "reply"])
    BY <1>4 DEF Finish, Goto
  <2>2. /\ r.pc \in {"idle", "reply"} /\ r.todo \subseteq req[h].todo
        /\ r.key \in {None, req[h].key} /\ (r.key = req[h].key => r.size = req[h].size)
    <3>1. CASE r = Idle
      BY <3>1, <1>1, NoneAssumption DEF Idle, Storing
    <3>2. CASE r = [req[h] EXCEPT !.pc = "reply"]
      BY <3>2 DEF TypeOK, Requests
    <3>3. QED
      BY <2>1, <3>1, <3>2
  <2>3. req'[h] = r /\ \A g \in Handlers \ {h} : req'[g] = req[g]
    BY <2>1, EnterFrame
  <2>4. CASE req[h].key # k
    <3>1. rows'[k] = rows[k]
      BY <1>4, <2>4 DEF Insert, TypeOK, Keys
    <3>2. QED
      BY <1>2, <2>2, <2>3, <2>4, <3>1, NoneIsNone
         DEF KeyInv, FreshAt, UndrawnAt, AgreeAt, Pending
  <2>5. CASE req[h].key = k
    <3>1. /\ rows'[k] # None /\ rows'[k].size = req[h].size
      BY <1>1, <1>4, <2>5, NoneIsNone DEF Insert, TypeOK
    <3>2. /\ objects[k] = IF req[h].pc = "record" THEN req[h].size ELSE None
          /\ \A c \in caps : c.key # k
          /\ \A g \in Handlers \ {h} : req[g].key # k
          /\ \A g \in Handlers : k \notin req[g].todo
          /\ k[2] \in used
      BY <1>1, <2>5 DEF KeyInv, FreshAt, UndrawnAt
    <3>3. FreshAt(k)'
      BY <2>2, <2>3, <3>2 DEF FreshAt, Pending
    <3>4. UndrawnAt(k)'
      BY <1>2, <3>2 DEF UndrawnAt
    <3>5. AgreeAt(k)'
      <4>1. objects'[k] # None => objects'[k] <= rows'[k].size
        BY <1>1, <1>2, <3>1, <3>2 DEF Sizes
      <4>2. \A g \in Handlers : /\ req'[g].key = k => req'[g].size = rows'[k].size
                               /\ k \notin req'[g].todo
        BY <2>2, <2>3, <2>5, <3>1, <3>2, NoneIsNone
      <4>3. QED
        BY <1>2, <3>2, <4>1, <4>2 DEF AgreeAt
    <3>6. QED
      BY <3>3, <3>4, <3>5 DEF KeyInv
  <2>6. QED
    BY <2>4, <2>5
<1>5. QED
  BY <1>3, <1>4 DEF RecordPresign, RecordUpload, Reject

\* The capability handed out has the size of the row, if the row still exists.
LEMMA ReplyStep ==
  ASSUME TypeOK, NEW k \in DumpKeys, KeyInv(k), NEW h \in Handlers, ReplyPresign(h)
  PROVE  KeyInv(k)'
<1>1. req'[h] = Idle /\ \A g \in Handlers \ {h} : req'[g] = req[g]
  BY EnterFrame DEF ReplyPresign, Finish
<1>2. /\ UNCHANGED <<rows, objects, used>>
      /\ req[h].pc = "reply"
      /\ caps' = caps \union {[key |-> req[h].key, size |-> req[h].size]}
  BY DEF ReplyPresign
<1>3. \A c \in caps' : c \in caps \/ (c.key = req[h].key /\ c.size = req[h].size)
  BY <1>2
<1>4. Idle.pc = "idle" /\ Idle.key = None /\ Idle.todo = {}
  BY DEF Idle, Storing
<1>5. FreshAt(k)'
  BY <1>1, <1>2, <1>3, <1>4, NoneIsNone DEF KeyInv, FreshAt, Pending
<1>6. UndrawnAt(k)'
  BY <1>1, <1>2, <1>3, <1>4, NoneIsNone DEF KeyInv, UndrawnAt
<1>7. AgreeAt(k)'
  BY <1>1, <1>2, <1>3, <1>4, NoneIsNone DEF KeyInv, AgreeAt
<1>8. QED
  BY <1>5, <1>6, <1>7 DEF KeyInv

\* PutObject writes where nothing is, and what it writes is the upload's own.
LEMMA PutStep ==
  ASSUME TypeOK, NEW k \in DumpKeys, KeyInv(k), NEW h \in Handlers, PutObject(h)
  PROVE  KeyInv(k)'
<1>1. UNCHANGED <<rows, caps, used>> /\ req[h].pc = "put"
  BY DEF PutObject
<1>2. CASE UNCHANGED objects /\ Finish(h)
  <2>1. \A g \in Handlers : req'[g] = req[g] \/ req'[g] = Idle
    BY <1>2, EnterFrame DEF Finish
  <2>2. QED
    BY <1>1, <1>2, <2>1, QuietStep
<1>3. CASE objects' = [objects EXCEPT ![req[h].key] = req[h].size] /\ Goto(h, "record")
  <2>1. /\ req'[h].pc = "record" /\ req'[h].key = req[h].key
        /\ req'[h].size = req[h].size /\ req'[h].todo = req[h].todo
        /\ \A g \in Handlers \ {h} : req'[g] = req[g]
    BY <1>3, EnterFrame DEF Goto, TypeOK, Requests
  <2>2. CASE req[h].key # k
    <3>1. objects'[k] = objects[k]
      BY <1>3, <2>2 DEF TypeOK, Keys
    <3>2. QED
      BY <1>1, <2>1, <2>2, <3>1 DEF KeyInv, FreshAt, UndrawnAt, AgreeAt, Pending
  <2>3. CASE req[h].key = k
    <3>1. objects'[k] = req[h].size
      BY <1>3, <2>3 DEF TypeOK, Keys
    <3>2. rows[k] = None /\ k[2] \in used
      BY <1>1, <2>3 DEF KeyInv, FreshAt, UndrawnAt, Pending
    <3>3. FreshAt(k)'
      BY <1>1, <2>1, <2>3, <3>1 DEF KeyInv, FreshAt, Pending
    <3>4. QED
      BY <1>1, <3>2, <3>3 DEF KeyInv, UndrawnAt, AgreeAt
  <2>4. QED
    BY <2>2, <2>3
<1>4. QED
  BY <1>2, <1>3 DEF PutObject

\* A transfer starts from a capability and so never on a key still to be recorded.
LEMMA TransferStep ==
  ASSUME TypeOK, NEW k \in DumpKeys, KeyInv(k),
         NEW h \in Handlers, NEW c \in caps, Transfer(h, c)
  PROVE  KeyInv(k)'
<1>1. /\ req'[h] = Storing("transfer", Anonymous, c.key, c.size)
      /\ \A g \in Handlers \ {h} : req'[g] = req[g]
  BY EnterFrame DEF Transfer
<1>2. UNCHANGED <<rows, objects, caps, used>>
  BY DEF Transfer
<1>3. QED
  BY <1>1, <1>2 DEF KeyInv, FreshAt, UndrawnAt, AgreeAt, Pending, Storing

\* A transfer ends within the size of its capability, hence of the row.
LEMMA CommitStep ==
  ASSUME TypeOK, NEW k \in DumpKeys, KeyInv(k),
         NEW h \in Handlers, NEW n \in 0 .. MaxSize, CommitTransfer(h, n)
  PROVE  KeyInv(k)'
<1>1. \A g \in Handlers : req'[g] = req[g] \/ req'[g] = Idle
  BY EnterFrame DEF CommitTransfer, Finish
<1>2. UNCHANGED <<rows, caps, used>> /\ req[h].pc = "transfer" /\ req[h].key \in Keys
  BY StoringHasKey DEF CommitTransfer, TypeOK
<1>3. CASE UNCHANGED objects
  BY <1>1, <1>2, <1>3, QuietStep
<1>4. CASE FitsCap(req[h], n) /\ objects' = [objects EXCEPT ![req[h].key] = n]
  <2>1. CASE req[h].key # k
    <3>1. objects'[k] = objects[k]
      BY <1>4, <2>1 DEF TypeOK, Keys
    <3>2. QED
      BY <1>1, <1>2, <3>1, NoneIsNone
         DEF KeyInv, FreshAt, UndrawnAt, AgreeAt, Pending, Idle, Storing
  <2>2. CASE req[h].key = k
    <3>1. objects'[k] = n /\ n <= req[h].size
      BY <1>4, <2>2 DEF TypeOK, Keys, FitsCap
    <3>2. \A g \in Handlers : ~(Pending(g) /\ req[g].key = k)
      BY <1>2, <2>2 DEF KeyInv, FreshAt, Pending
    <3>3. \A g \in Handlers : ~(Pending(g)' /\ req'[g].key = k)
      BY <1>1, <3>2 DEF Pending, Idle, Storing
    <3>4. FreshAt(k)'
      BY <3>3 DEF FreshAt
    <3>5. k[2] \in used
      BY <2>2 DEF KeyInv, UndrawnAt
    <3>6. AgreeAt(k)'
      BY <1>1, <1>2, <2>2, <3>1, NoneIsNone DEF KeyInv, AgreeAt, Idle, Storing
    <3>7. QED
      BY <1>2, <3>4, <3>5, <3>6 DEF KeyInv, UndrawnAt
  <2>3. QED
    BY <2>1, <2>2
<1>5. QED
  BY <1>3, <1>4 DEF CommitTransfer

\* Only keys with a row are handed to Unlink, and their rows are gone.
LEMMA RemoveStep ==
  ASSUME TypeOK, NEW k \in DumpKeys, KeyInv(k),
         NEW h \in Handlers, NEW ks \in SUBSET Keys, \A d \in ks : rows[d] # None,
         RemoveRows(h, ks)
  PROVE  KeyInv(k)'
<1>1. req'[h] = Unlinking(ks) /\ \A g \in Handlers \ {h} : req'[g] = req[g]
  BY EnterFrame DEF RemoveRows
<1>2. UNCHANGED <<objects, caps, used>>
  BY DEF RemoveRows
<1>3. rows'[k] = IF k \in ks THEN None ELSE rows[k]
  BY DEF RemoveRows, Keys
<1>4. Unlinking(ks).pc = "unlink" /\ Unlinking(ks).key = None /\ Unlinking(ks).todo = ks
  BY DEF Unlinking
<1>5. QED
  BY <1>1, <1>2, <1>3, <1>4, NoneIsNone DEF KeyInv, FreshAt, UndrawnAt, AgreeAt, Pending

\* Unlinking a key takes bytes that no row and no upload in flight claims.
LEMMA UnlinkStep ==
  ASSUME TypeOK, NEW k \in DumpKeys, KeyInv(k),
         NEW h \in Handlers, NEW d \in Keys, Unlink(h, d)
  PROVE  KeyInv(k)'
<1>1. /\ req'[h] = AfterUnlink(req[h], d)
      /\ \A g \in Handlers \ {h} : req'[g] = req[g]
  BY EnterFrame DEF Unlink
<1>2. UNCHANGED <<rows, caps, used>> /\ d \in req[h].todo
  BY DEF Unlink
<1>3. objects'[k] = objects[k] \/ (d = k /\ objects'[k] = None)
  BY DEF Unlink, TypeOK, Keys
<1>4. \/ /\ req'[h].pc = "idle" /\ req'[h].key = None /\ req'[h].todo = {}
      \/ /\ req'[h].pc = req[h].pc /\ req'[h].key = req[h].key
         /\ req'[h].size = req[h].size /\ req'[h].todo \subseteq req[h].todo
  BY <1>1 DEF AfterUnlink, Idle, Storing, TypeOK, Requests
<1>5. QED
  BY <1>1, <1>2, <1>3, <1>4, NoneIsNone DEF KeyInv, FreshAt, UndrawnAt, AgreeAt, Pending
-----------------------------------------------------------------------------
\* Every step keeps the invariant of every dump key.
LEMMA KeyStep ==
  ASSUME TypeOK, [Next]_vars, NEW k \in DumpKeys, KeyInv(k)
  PROVE  KeyInv(k)'
<1>1. ASSUME NEW h \in Handlers, NEW u \in Callers, NEW d \in Keys,
             NEW n \in 0 .. MaxSize + 1,
             Presign(h, u, d, n) \/ Upload(h, u, d, n)
      PROVE  KeyInv(k)'
  BY <1>1, BeginStep
<1>2. ASSUME NEW h \in Handlers, RecordPresign(h) \/ RecordUpload(h)
      PROVE  KeyInv(k)'
  BY <1>2, RecordStep
<1>3. ASSUME NEW h \in Handlers, ReplyPresign(h)
      PROVE  KeyInv(k)'
  BY <1>3, ReplyStep
<1>4. ASSUME NEW h \in Handlers, PutObject(h)
      PROVE  KeyInv(k)'
  BY <1>4, PutStep
<1>5. ASSUME NEW c \in caps, Expire(c)
      PROVE  KeyInv(k)'
  BY <1>5, QuietStep DEF Expire
<1>6. ASSUME NEW h \in Handlers, NEW c \in caps, Transfer(h, c)
      PROVE  KeyInv(k)'
  BY <1>6, TransferStep
<1>7. ASSUME NEW h \in Handlers, NEW n \in 0 .. MaxSize, CommitTransfer(h, n)
      PROVE  KeyInv(k)'
  BY <1>7, CommitStep
<1>8. ASSUME NEW h \in Handlers, NEW u \in Users, NEW admin \in BOOLEAN, NEW d \in Keys,
             DeleteFile(h, u, admin, d)
      PROVE  KeyInv(k)'
  BY <1>8, RemoveStep DEF DeleteFile
<1>9. ASSUME NEW h \in Handlers, NEW a, NEW i, WipeUploads(h, a, i)
      PROVE  KeyInv(k)'
  BY <1>9, RemoveStep DEF WipeUploads, OwnedRows
<1>10. ASSUME NEW h \in Handlers, NEW d \in Keys, Unlink(h, d)
      PROVE  KeyInv(k)'
  BY <1>10, UnlinkStep
<1>11. CASE Crash
  BY <1>11, QuietStep DEF Crash
<1>12. CASE UNCHANGED vars
  BY <1>12, QuietStep DEF vars
<1>13. QED
  BY <1>1, <1>2, <1>3, <1>4, <1>5, <1>6, <1>7, <1>8, <1>9, <1>10, <1>11, <1>12
     DEF Next, WipeFiles, AdminWipeFiles

\* The invariant holds from the start and is kept by every step.
THEOREM DumpInvariant == Spec => [](TypeOK /\ DumpInv)
<1>1. Init => DumpInv
  <2> SUFFICES ASSUME Init
               PROVE  DumpInv
    OBVIOUS
  <2>1. TypeOK
    BY TypeInit
  <2>2. \A k \in DumpKeys : KeyInv(k)
    BY NoneIsNone DEF Init, Keys, KeyInv, FreshAt, UndrawnAt, AgreeAt, Pending, Idle, Storing
  <2>3. QED
    BY <2>1, <2>2, DumpInvByKey
<1>2. ASSUME TypeOK, DumpInv, [Next]_vars
      PROVE  DumpInv'
  <2>1. TypeOK'
    BY <1>2, TypeStep
  <2>2. \A k \in DumpKeys : KeyInv(k)'
    BY <1>2, KeyStep, DumpInvByKey
  <2>3. QED
    BY <2>1, <2>2 DEF DumpInv, DumpKeyIsFresh, UndrawnUntouched, OneShotHasBytes,
       SizesAgree, Concerns, KeyInv, FreshAt, UndrawnAt, AgreeAt, Pending, TypeOK
<1>3. QED
  BY <1>1, <1>2, TypeCorrect, PTL DEF Spec
-----------------------------------------------------------------------------
\* A request of the dump strategy has its key to itself until its row appears:
\* RecordUpload meets no other row, PutObject no other bytes (uniqueSegment).
THEOREM DumpKeysAreFresh == Spec => []DumpKeyIsFresh
  BY DumpInvariant, PTL DEF DumpInv

\* The quota, which sums declared sizes, covers the bytes stored under the dump
\* strategy: writeObject stops at the signed size, and no capability outlives
\* its row with another one in its place.
THEOREM BytesWithinRows == Spec => []StoredWithinRow
<1>1. DumpInv => StoredWithinRow
  BY DEF DumpInv, SizesAgree, StoredWithinRow
<1>2. QED
  BY <1>1, DumpInvariant, PTL

\* Bytes go away by an Unlink only: a write leaves a number of bytes in their
\* place, and nothing else touches the tree.
LEMMA BytesGoByUnlink ==
  ASSUME TypeOK, [Next]_vars, NEW k \in Keys, objects[k] # None, objects'[k] = None
  PROVE  \E h \in Handlers : Unlink(h, k)
<1>1. ASSUME NEW h \in Handlers, PutObject(h)
      PROVE  FALSE
  <2>1. req[h].key \in Keys /\ req[h].size \in Sizes
    BY <1>1, StoringHasKey DEF PutObject, TypeOK
  <2>2. QED
    BY <1>1, <2>1, NoneAssumption DEF PutObject, TypeOK, Sizes
<1>2. ASSUME NEW h \in Handlers, NEW n \in 0 .. MaxSize, CommitTransfer(h, n)
      PROVE  FALSE
  BY <1>2, NoneIsNone DEF CommitTransfer, TypeOK
<1>3. ASSUME NEW h \in Handlers, NEW d \in Keys, Unlink(h, d)
      PROVE  d = k
  BY <1>3 DEF Unlink, TypeOK
<1>4. objects' # objects
  OBVIOUS
<1>5. QED
  BY <1>1, <1>2, <1>3, <1>4
     DEF Next, vars, Presign, Upload, RecordPresign, ReplyPresign, RecordUpload, Expire,
         Transfer, DeleteFile, RemoveRows, WipeFiles, AdminWipeFiles, WipeUploads, Crash

\* Rows come by an insert only, of a key its request still holds.
LEMMA RowsComeByInsert ==
  ASSUME TypeOK, [Next]_vars, NEW k \in Keys, rows[k] = None, rows'[k] # None
  PROVE  \E h \in Handlers : /\ RecordPresign(h) \/ RecordUpload(h)
                             /\ req[h].key = k
<1>1. ASSUME NEW h \in Handlers, RecordPresign(h) \/ RecordUpload(h)
      PROVE  req[h].key = k
  BY <1>1 DEF RecordPresign, RecordUpload, Insert, Reject, TypeOK
<1>2. ASSUME NEW h, NEW ks, RemoveRows(h, ks)
      PROVE  FALSE
  BY <1>2 DEF RemoveRows
<1>3. QED
  BY <1>1, <1>2
     DEF Next, vars, Presign, Upload, ReplyPresign, PutObject, Expire, Transfer,
         CommitTransfer, DeleteFile, WipeFiles, AdminWipeFiles, WipeUploads, Unlink, Crash

\* Rows first, objects second: when an Unlink takes the bytes of a dump key away,
\* its row is gone, and the fresh segments of later uploads bring none back.
THEOREM NoPhantomRows == Spec => DeletionLeavesNoPhantom
<1>1. ASSUME TypeOK, DumpInv, [Next]_vars, NEW k \in DumpKeys,
             objects[k] # None, objects'[k] = None
      PROVE  rows[k] = None /\ rows'[k] = None
  <2>1. k \in Keys
    BY DEF Keys
  <2>2. PICK h \in Handlers : Unlink(h, k)
    BY <1>1, <2>1, BytesGoByUnlink
  <2>3. rows[k] = None
    BY <1>1, <2>2 DEF DumpInv, SizesAgree, Unlink
  <2>4. QED
    BY <2>2, <2>3 DEF Unlink
<1>2. TypeOK /\ DumpInv /\ [Next]_vars =>
        [\A k \in DumpKeys :
           objects[k] # None /\ objects'[k] = None => rows[k] = None /\ rows'[k] = None]_vars
  BY <1>1
<1>3. QED
  BY <1>2, DumpInvariant, PTL DEF Spec, DeletionLeavesNoPhantom

\* One-shot uploads store first and insert after (handleUpload): with the key to
\* itself, no other request can take the bytes away before the row appears.
THEOREM UploadsHaveBytes == Spec => CommittedUploadHasBytes
<1>1. ASSUME TypeOK, DumpInv, [Next]_vars, NEW h \in Handlers,
             req[h].pc \in {"put", "record"}, req[h].key \in DumpKeys,
             rows[req[h].key] = None, rows'[req[h].key] # None
      PROVE  objects'[req[h].key] = req[h].size
  <2>1. PICK g \in Handlers : /\ RecordPresign(g) \/ RecordUpload(g)
                              /\ req[g].key = req[h].key
    BY <1>1, RowsComeByInsert DEF Keys
  <2>2. g = h
    BY <1>1, <2>1 DEF DumpInv, DumpKeyIsFresh, Pending
  <2>3. req[h].pc = "record" /\ UNCHANGED objects
    BY <1>1, <2>1, <2>2 DEF RecordPresign, RecordUpload
  <2>4. QED
    BY <1>1, <2>3 DEF DumpInv, OneShotHasBytes
<1>2. TypeOK /\ DumpInv /\ [Next]_vars =>
        [\A h \in Handlers :
           /\ req[h].pc \in {"put", "record"} /\ req[h].key \in DumpKeys
           /\ rows[req[h].key] = None /\ rows'[req[h].key] # None
           => objects'[req[h].key] = req[h].size]_vars
  BY <1>1
<1>3. QED
  BY <1>2, DumpInvariant, PTL DEF Spec, CommittedUploadHasBytes

\* Requests that begin with a fresh segment never come back to a drawn key, and
\* only a request or a capability that concerns it leads to another.
LEMMA FinalStep ==
  ASSUME TypeOK, [Next]_vars, NEW k \in DumpKeys, Final(k)
  PROVE  Final(k)' /\ (objects'[k] = objects[k] \/ objects'[k] = None)
<1> USE DEF Final
<1>1. k \in Keys /\ k # None
  BY NoneIsNone DEF Keys
<1>2. ASSUME NEW h \in Handlers, NEW u \in Callers, NEW d \in Keys, NEW n \in 0 .. MaxSize + 1,
             Presign(h, u, d, n) \/ Upload(h, u, d, n)
      PROVE  Final(k)' /\ objects' = objects
  <2>1. PICK pc \in {"presign", "put"} : Enter(h, Storing(pc, u, d, n))
    BY <1>2 DEF Presign, Upload
  <2>2. req'[h] = Storing(pc, u, d, n) /\ \A g \in Handlers \ {h} : req'[g] = req[g]
    BY <2>1, EnterFrame
  <2>3. UNCHANGED <<objects, caps>> /\ Derive(u, d)
    BY <1>2 DEF Presign, Upload
  <2>4. d # k /\ used \subseteq used'
    BY <2>3, NamesAssumption DEF Derive, FreshSegment, DumpKeys, AccountKeys
  <2>5. QED
    BY <2>2, <2>3, <2>4 DEF Storing
<1>3. ASSUME NEW h \in Handlers,
             RecordPresign(h) \/ ReplyPresign(h) \/ PutObject(h) \/ RecordUpload(h)
      PROVE  Final(k)' /\ objects'[k] = objects[k]
  <2>1. used' = used /\ \A c \in caps' : c \in caps \/ c.key = req[h].key
    BY <1>3 DEF RecordPresign, ReplyPresign, PutObject, RecordUpload
  <2>2. objects' = objects \/ objects' = [objects EXCEPT ![req[h].key] = req[h].size]
    BY <1>3 DEF RecordPresign, ReplyPresign, PutObject, RecordUpload
  <2>3. req[h].key # k
    OBVIOUS
  <2>4. PICK r : Enter(h, r) /\ r.key # k
    BY <1>1, <1>3, <2>3
       DEF RecordPresign, ReplyPresign, PutObject, RecordUpload, Reject, Finish, Goto, Idle,
           Storing, TypeOK, Requests
  <2>5. \A g \in Handlers : req'[g].key # k
    BY <2>4, EnterFrame
  <2>6. objects'[k] = objects[k]
    BY <1>1, <2>2, <2>3 DEF TypeOK
  <2>7. QED
    BY <2>1, <2>3, <2>5, <2>6
<1>4. ASSUME NEW c \in caps, Expire(c)
      PROVE  Final(k)' /\ objects' = objects
  BY <1>4 DEF Expire
<1>5. ASSUME NEW h \in Handlers, NEW c \in caps, Transfer(h, c)
      PROVE  Final(k)' /\ objects' = objects
  <2>1. req'[h].key = c.key /\ \A g \in Handlers \ {h} : req'[g] = req[g]
    BY <1>5, EnterFrame DEF Transfer, Storing
  <2>2. QED
    BY <1>5, <2>1 DEF Transfer
<1>6. ASSUME NEW h \in Handlers, NEW n \in 0 .. MaxSize, CommitTransfer(h, n)
      PROVE  Final(k)' /\ objects'[k] = objects[k]
  <2>1. \A g \in Handlers : req'[g].key # k
    BY <1>1, <1>6, EnterFrame DEF CommitTransfer, Finish, Idle, Storing
  <2>2. objects'[k] = objects[k]
    BY <1>1, <1>6 DEF CommitTransfer, TypeOK
  <2>3. QED
    BY <1>6, <2>1, <2>2 DEF CommitTransfer
<1>7. ASSUME NEW h \in Handlers, NEW ks, RemoveRows(h, ks)
      PROVE  Final(k)' /\ objects' = objects
  <2>1. \A g \in Handlers : req'[g].key # k
    BY <1>1, <1>7, EnterFrame DEF RemoveRows, Unlinking
  <2>2. QED
    BY <1>7, <2>1 DEF RemoveRows
<1>8. ASSUME NEW h \in Handlers, NEW d \in Keys, Unlink(h, d)
      PROVE  Final(k)' /\ (objects'[k] = objects[k] \/ objects'[k] = None)
  <2>1. AfterUnlink(req[h], d).key # k
    BY <1>1 DEF AfterUnlink, Idle, Storing, TypeOK, Requests
  <2>2. \A g \in Handlers : req'[g].key # k
    BY <1>8, <2>1, EnterFrame DEF Unlink
  <2>3. objects'[k] = objects[k] \/ objects'[k] = None
    BY <1>1, <1>8 DEF Unlink, TypeOK
  <2>4. QED
    BY <1>8, <2>2, <2>3 DEF Unlink
<1>9. CASE Crash
  <2>1. \A g \in Handlers : req'[g].key # k
    BY <1>1, <1>9 DEF Crash, Idle, Storing
  <2>2. QED
    BY <1>9, <2>1 DEF Crash
<1>10. CASE UNCHANGED vars
  BY <1>10 DEF vars
<1>11. QED
  BY <1>2, <1>3, <1>4, <1>5, <1>6, <1>7, <1>8, <1>9, <1>10
     DEF Next, DeleteFile, WipeFiles, AdminWipeFiles, WipeUploads

\* Once no capability and no request concerns a dump key, its bytes only ever go
\* away: what the proxy caches of it is what every later download would return.
THEOREM DumpBytesAreFinal == Spec => BytesBecomeFinal
<1>1. TypeOK /\ [Next]_vars =>
        [\A k \in DumpKeys : Final(k) =>
           Final(k)' /\ (objects'[k] = objects[k] \/ objects'[k] = None)]_vars
  BY FinalStep
<1>2. QED
  BY <1>1, TypeCorrect, PTL DEF Spec, BytesBecomeFinal
=============================================================================
