----------------------------- MODULE DepotProofs -----------------------------
(***************************************************************************)
(* Proofs about the upload lifecycle, for every set of users, every limit,  *)
(* every number of concurrent requests and every file size.                 *)
(***************************************************************************)
EXTENDS AccountRemoval, FiniteSetTheorems, TLAPS

USE SizeAssumption, BoundsAssumption

\* A handler that is left idle, or enters a request of the right shape, keeps
\* the table of requests well typed.
LEMMA EnterTyped ==
  ASSUME req \in [Handlers -> Requests], NEW h \in Handlers, NEW r \in Requests,
         Enter(h, r)
  PROVE  req' \in [Handlers -> Requests]
  BY DEF Enter

\* The two constant-like requests are well typed.
LEMMA RequestShapes ==
  /\ Idle \in Requests
  /\ \A pc \in Phases, u \in Callers, k \in Keys, n \in Sizes :
       Storing(pc, u, k, n) \in Requests
  /\ \A ks \in SUBSET Keys : Unlinking(ks) \in Requests
  /\ \A c \in Caps : Storing("transfer", Anonymous, c.key, c.size) \in Requests
<1>1. Idle \in Requests
  BY DEF Idle, Storing, Requests, Phases, Callers
<1>2. \A pc \in Phases, u \in Callers, k \in Keys, n \in Sizes :
        Storing(pc, u, k, n) \in Requests
  BY DEF Storing, Requests, Sizes
<1>3. \A ks \in SUBSET Keys : Unlinking(ks) \in Requests
  BY DEF Unlinking, Requests, Phases, Callers
<1>4. \A c \in Caps : Storing("transfer", Anonymous, c.key, c.size) \in Requests
  BY <1>2 DEF Phases, Callers, Caps
<1>5. QED
  BY <1>1, <1>2, <1>3, <1>4

\* A request in a phase that stores something has a key and a size.
LEMMA StoringHasKey ==
  ASSUME req \in [Handlers -> Requests], NEW h \in Handlers,
         req[h].pc \notin {"idle", "unlink"}
  PROVE  /\ req[h].key \in Keys /\ req[h].size \in Sizes /\ req[h].owner \in Callers
         /\ \A pc \in Phases : [req[h] EXCEPT !.pc = pc] \in Requests
  BY DEF Requests, Phases, Sizes
-----------------------------------------------------------------------------
\* One step keeps every part of the state well typed.
LEMMA TypeStep == TypeOK /\ [Next]_vars => TypeOK'
<1> SUFFICES ASSUME TypeOK, [Next]_vars
             PROVE  TypeOK'
  OBVIOUS
<1> USE DEF TypeOK
<1>1. ASSUME NEW h \in Handlers, NEW u \in Callers, NEW k \in Keys,
             NEW n \in 0 .. MaxSize + 1,
             Presign(h, u, k, n) \/ Upload(h, u, k, n)
      PROVE  TypeOK'
  <2>1. n \in Sizes
    BY <1>1 DEF Presign, Upload, Validates, Sizes
  <2>2. \E pc \in Phases : Enter(h, Storing(pc, u, k, n))
    BY <1>1 DEF Presign, Upload, Phases
  <2>3. req' \in [Handlers -> Requests]
    BY <2>1, <2>2, EnterTyped, RequestShapes
  <2>4. used' \subseteq Uniques
    BY <1>1 DEF Presign, Upload, Derive, DumpKeys
  <2>5. QED
    BY <1>1, <2>3, <2>4 DEF Presign, Upload
<1>2. ASSUME NEW h \in Handlers, RecordPresign(h) \/ RecordUpload(h)
      PROVE  TypeOK'
  <2>1. req[h].pc \notin {"idle", "unlink"}
    BY <1>2 DEF RecordPresign, RecordUpload
  <2>2. /\ req[h].key \in Keys /\ req[h].size \in Sizes /\ req[h].owner \in Callers
        /\ \A pc \in Phases : [req[h] EXCEPT !.pc = pc] \in Requests
    BY <2>1, StoringHasKey
  <2>3. req' \in [Handlers -> Requests]
    <3>1. \/ Enter(h, Idle)
          \/ \E pc \in Phases : Goto(h, pc)
      BY <1>2 DEF RecordPresign, RecordUpload, Reject, Finish, Phases
    <3>2. QED
      BY <3>1, <2>2, EnterTyped, RequestShapes DEF Goto
  <2>4. rows' \in [Keys -> Rows \union {None}]
    BY <1>2, <2>2 DEF RecordPresign, RecordUpload, Reject, Insert, Rows
  <2>5. faults' \in 0 .. MaxFaults
    BY <1>2 DEF RecordPresign, RecordUpload, Reject, CanFail, Fault
  <2>6. QED
    BY <1>2, <2>3, <2>4, <2>5 DEF RecordPresign, RecordUpload
<1>3. ASSUME NEW h \in Handlers, ReplyPresign(h)
      PROVE  TypeOK'
  <2>1. req[h].key \in Keys /\ req[h].size \in Sizes
    BY <1>3, StoringHasKey DEF ReplyPresign
  <2>2. req' \in [Handlers -> Requests]
    BY <1>3, EnterTyped, RequestShapes DEF ReplyPresign, Finish
  <2>3. QED
    BY <1>3, <2>1, <2>2 DEF ReplyPresign, Caps
<1>4. ASSUME NEW h \in Handlers, PutObject(h)
      PROVE  TypeOK'
  <2>1. /\ req[h].key \in Keys /\ req[h].size \in 0 .. MaxSize
        /\ \A pc \in Phases : [req[h] EXCEPT !.pc = pc] \in Requests
    BY <1>4, StoringHasKey DEF PutObject, Sizes
  <2>2. req' \in [Handlers -> Requests]
    BY <1>4, <2>1, EnterTyped, RequestShapes DEF PutObject, Goto, Finish, Phases
  <2>3. QED
    BY <1>4, <2>1, <2>2 DEF PutObject
<1>5. ASSUME NEW c \in caps, Expire(c)
      PROVE  TypeOK'
  BY <1>5 DEF Expire
<1>6. ASSUME NEW h \in Handlers, NEW c \in caps, Transfer(h, c)
      PROVE  TypeOK'
  <2>1. req' \in [Handlers -> Requests]
    BY <1>6, EnterTyped, RequestShapes DEF Transfer
  <2>2. QED
    BY <1>6, <2>1 DEF Transfer
<1>7. ASSUME NEW h \in Handlers, NEW n \in 0 .. MaxSize, CommitTransfer(h, n)
      PROVE  TypeOK'
  <2>1. req' \in [Handlers -> Requests]
    BY <1>7, EnterTyped, RequestShapes DEF CommitTransfer, Finish
  <2>2. QED
    BY <1>7, <2>1 DEF CommitTransfer
<1>8. ASSUME NEW h \in Handlers, NEW ks \in SUBSET Keys, RemoveRows(h, ks)
      PROVE  TypeOK'
  <2>1. req' \in [Handlers -> Requests]
    BY <1>8, EnterTyped, RequestShapes DEF RemoveRows
  <2>2. QED
    BY <1>8, <2>1 DEF RemoveRows
<1>9. ASSUME NEW h \in Handlers, NEW k \in Keys, Unlink(h, k)
      PROVE  TypeOK'
  <2>1. AfterUnlink(req[h], k) \in Requests
    BY RequestShapes DEF AfterUnlink, Requests
  <2>2. req' \in [Handlers -> Requests]
    BY <1>9, <2>1, EnterTyped DEF Unlink
  <2>3. QED
    BY <1>9, <2>2 DEF Unlink, CanFail, Fault
<1>10. CASE Crash
  BY <1>10, RequestShapes DEF Crash
<1>11. CASE UNCHANGED vars
  BY <1>11 DEF vars
<1>12. QED
  BY <1>1, <1>2, <1>3, <1>4, <1>5, <1>6, <1>7, <1>8, <1>9, <1>10, <1>11
     DEF Next, DeleteFile, WipeFiles, AdminWipeFiles, WipeUploads, OwnedRows

LEMMA TypeInit == Init => TypeOK
  BY RequestShapes DEF Init, TypeOK

\* Type correctness: whatever requests, failures and restarts interleave, the
\* uploads table, the object tree and the capabilities keep their shape; in
\* particular no row or capability of size zero is ever written (Validate).
THEOREM TypeCorrect == Spec => []TypeOK
  BY TypeInit, TypeStep, PTL DEF Spec
-----------------------------------------------------------------------------
\* Counting.  The bytes of one file form a column of as many pairs as its size.
LEMMA ColumnCardinality ==
  ASSUME NEW x, NEW n \in Nat
  PROVE  IsFiniteSet({x} \X (1 .. n)) /\ Cardinality({x} \X (1 .. n)) = n
<1>1. IsFiniteSet({x}) /\ Cardinality({x}) = 1
  BY FS_Singleton
<1>2. IsFiniteSet(1 .. n) /\ Cardinality(1 .. n) = n
  BY FS_Interval
<1>3. /\ IsFiniteSet({x} \X (1 .. n))
      /\ Cardinality({x} \X (1 .. n)) = Cardinality({x}) * Cardinality(1 .. n)
  BY <1>1, <1>2, FS_Product
<1>4. QED
  BY <1>1, <1>2, <1>3

\* There are finitely many bytes to charge or to reserve.
LEMMA BytesFinite ==
  /\ IsFiniteSet(Keys \X Sizes)
  /\ IsFiniteSet(Handlers \X Sizes)
  /\ IsFiniteSet(Sizes) /\ Cardinality(Sizes) = MaxSize
<1>1. IsFiniteSet(Callers)
  BY UsersAssumption, FS_Singleton, FS_Union DEF Callers
<1>2. IsFiniteSet(DumpKeys) /\ IsFiniteSet(AccountKeys)
  BY <1>1, UsersAssumption, NamesAssumption, FS_Product DEF DumpKeys, AccountKeys
<1>3. IsFiniteSet(Keys)
  BY <1>2, FS_Union DEF Keys
<1>4. IsFiniteSet(Sizes) /\ Cardinality(Sizes) = MaxSize
  BY FS_Interval DEF Sizes
<1>5. QED
  BY <1>3, <1>4, HandlersAssumption, FS_Product

\* A step that charges and reserves nothing new does not raise the total.
LEMMA NothingAdded ==
  ASSUME NEW C, NEW P, IsFiniteSet(C), IsFiniteSet(P),
         NEW C2 \in SUBSET C, NEW P2 \in SUBSET P
  PROVE  Cardinality(C2) + Cardinality(P2) <= Cardinality(C) + Cardinality(P)
  BY FS_Subset, FS_CardinalityType

\* A step that charges no more than it releases does not raise the total.
LEMMA ChargedFromPending ==
  ASSUME NEW C, NEW P, NEW D, NEW E, IsFiniteSet(C), IsFiniteSet(P), IsFiniteSet(D),
         NEW n \in Nat, Cardinality(D) = n, Cardinality(E) = n, E \subseteq P,
         NEW C2 \in SUBSET (C \union D), NEW P2 \in SUBSET (P \ E)
  PROVE  Cardinality(C2) + Cardinality(P2) <= Cardinality(C) + Cardinality(P)
<1>1. /\ IsFiniteSet(C \union D)
      /\ Cardinality(C \union D) <= Cardinality(C) + n
  <2>1. /\ IsFiniteSet(C \union D)
        /\ Cardinality(C \union D) = Cardinality(C) + Cardinality(D) - Cardinality(C \cap D)
    BY FS_Union
  <2>2. Cardinality(C) \in Nat /\ Cardinality(C \cap D) \in Nat
    <3>1. IsFiniteSet(C \cap D)
      BY FS_Subset
    <3>2. QED
      BY <3>1, FS_CardinalityType
  <2>3. QED
    BY <2>1, <2>2
<1>2. /\ IsFiniteSet(P \ E)
      /\ Cardinality(P \ E) = Cardinality(P) - n
  <2>1. P \cap E = E
    OBVIOUS
  <2>2. /\ IsFiniteSet(P \ E)
        /\ Cardinality(P \ E) = Cardinality(P) - Cardinality(P \cap E)
    BY FS_Difference
  <2>3. QED
    BY <2>1, <2>2
<1>3. /\ Cardinality(C2) <= Cardinality(C \union D) /\ Cardinality(C2) \in Nat
      /\ Cardinality(P2) <= Cardinality(P \ E) /\ Cardinality(P2) \in Nat
  BY <1>1, <1>2, FS_Subset, FS_CardinalityType
<1>4. QED
  BY <1>1, <1>2, <1>3, FS_CardinalityType
-----------------------------------------------------------------------------
\* A request that passes quota.Check reserves its size on top of what the other
\* requests have reserved, which is at most one largest file each.
LEMMA ReservedByOthers ==
  ASSUME NEW h \in Handlers, NEW P \in SUBSET ((Handlers \ {h}) \X Sizes)
  PROVE  IsFiniteSet(P) /\ Cardinality(P) \in Nat /\ Cardinality(P) <= Slack
<1>1. /\ IsFiniteSet(Handlers \ {h})
      /\ Cardinality(Handlers \ {h}) = Cardinality(Handlers) - 1
  BY HandlersAssumption, FS_RemoveElement
<1>2. /\ IsFiniteSet((Handlers \ {h}) \X Sizes)
      /\ Cardinality((Handlers \ {h}) \X Sizes) = (Cardinality(Handlers) - 1) * MaxSize
  BY <1>1, BytesFinite, FS_Product
<1>3. QED
  BY <1>2, FS_Subset, FS_CardinalityType DEF Slack

\* The three ways a step can move the bytes of one user.
Unraised(u) ==
  ChargedBytes(u)' \subseteq ChargedBytes(u) /\ PendingBytes(u)' \subseteq PendingBytes(u)

Column(x, n) == {x} \X (1 .. n)

Settled(u) ==
  \E h \in Handlers, k \in Keys, n \in Sizes :
    /\ Column(h, n) \subseteq PendingBytes(u)
    /\ PendingBytes(u)' \subseteq PendingBytes(u) \ Column(h, n)
    /\ ChargedBytes(u)' \subseteq ChargedBytes(u) \union Column(k, n)

Reserved(u) ==
  \E h \in Handlers, n \in Sizes :
    /\ Usage(u) + n <= Limit[Account(u)]
    /\ ChargedBytes(u)' = ChargedBytes(u)
    /\ PendingBytes(u) \subseteq (Handlers \ {h}) \X Sizes
    /\ PendingBytes(u)' \subseteq PendingBytes(u) \union Column(h, n)

\* A file of n bytes is a column of n pairs, whether charged or reserved.
LEMMA ColumnOfFile ==
  ASSUME NEW x, NEW n \in Sizes
  PROVE  n \in Nat /\ IsFiniteSet(Column(x, n)) /\ Cardinality(Column(x, n)) = n
<1>1. n \in Nat
  BY DEF Sizes
<1>2. QED
  BY <1>1, ColumnCardinality DEF Column

\* Each of them keeps the user within limit and slack.
LEMMA BoundKept ==
  ASSUME NEW u \in Users, Unraised(u) \/ Settled(u) \/ Reserved(u),
         Usage(u) + Cardinality(PendingBytes(u)) <= Limit[Account(u)] + Slack
  PROVE  (Usage(u) + Cardinality(PendingBytes(u)) <= Limit[Account(u)] + Slack)'
<1> DEFINE C  == ChargedBytes(u)
           P  == PendingBytes(u)
           C2 == ChargedBytes(u)'
           P2 == PendingBytes(u)'
<1>1. C \subseteq Keys \X Sizes /\ P \subseteq Handlers \X Sizes
  BY DEF ChargedBytes, PendingBytes
<1>2. C2 \subseteq Keys \X Sizes /\ P2 \subseteq Handlers \X Sizes
  BY DEF ChargedBytes, PendingBytes
<1>3. IsFiniteSet(C) /\ IsFiniteSet(P) /\ IsFiniteSet(C2) /\ IsFiniteSet(P2)
  BY <1>1, <1>2, BytesFinite, FS_Subset
<1>4. /\ Cardinality(C) \in Nat /\ Cardinality(P) \in Nat
      /\ Cardinality(C2) \in Nat /\ Cardinality(P2) \in Nat
  BY <1>3, FS_CardinalityType
<1>5. Limit[Account(u)] \in Nat /\ Slack \in Int
  BY LimitAssumption, HandlersAssumption, FS_CardinalityType DEF Accounts, Slack
<1>6. Cardinality(C) + Cardinality(P) <= Limit[Account(u)] + Slack
  BY DEF Usage
<1>7. SUFFICES Cardinality(C2) + Cardinality(P2) <= Limit[Account(u)] + Slack
  BY DEF Usage
<1>8. CASE Unraised(u)
  <2>1. Cardinality(C2) + Cardinality(P2) <= Cardinality(C) + Cardinality(P)
    BY <1>3, <1>8, NothingAdded DEF Unraised
  <2>2. QED
    BY <2>1, <1>4, <1>5, <1>6
<1>9. CASE Settled(u)
  <2>1. PICK h \in Handlers, k \in Keys, n \in Sizes :
          /\ Column(h, n) \subseteq P
          /\ P2 \subseteq P \ Column(h, n)
          /\ C2 \subseteq C \union Column(k, n)
    BY <1>9 DEF Settled
  <2>2. /\ n \in Nat
        /\ IsFiniteSet(Column(k, n)) /\ Cardinality(Column(k, n)) = n
        /\ Cardinality(Column(h, n)) = n
    BY ColumnOfFile
  <2>3. Cardinality(C2) + Cardinality(P2) <= Cardinality(C) + Cardinality(P)
    <3>1. C2 \in SUBSET (C \union Column(k, n)) /\ P2 \in SUBSET (P \ Column(h, n))
      BY <2>1
    <3>2. QED
      BY <1>3, <2>1, <2>2, <3>1, ChargedFromPending
  <2>4. QED
    BY <2>3, <1>4, <1>5, <1>6
<1>10. CASE Reserved(u)
  <2>1. PICK h \in Handlers, n \in Sizes :
          /\ Cardinality(C) + n <= Limit[Account(u)]
          /\ C2 = C
          /\ P \subseteq (Handlers \ {h}) \X Sizes
          /\ P2 \subseteq P \union Column(h, n)
    BY <1>10 DEF Reserved, Usage
  <2>2. Cardinality(P) <= Slack
    BY <2>1, ReservedByOthers
  <2>3. n \in Nat /\ IsFiniteSet(Column(h, n)) /\ Cardinality(Column(h, n)) = n
    BY ColumnOfFile
  <2>4. Cardinality(P2) <= Cardinality(P) + n
    <3>1. /\ IsFiniteSet(P \union Column(h, n))
          /\ Cardinality(P \union Column(h, n))
               = Cardinality(P) + n - Cardinality(P \cap Column(h, n))
      BY <1>3, <2>3, FS_Union
    <3>2. Cardinality(P \cap Column(h, n)) \in Nat
      <4>1. IsFiniteSet(P \cap Column(h, n))
        BY <1>3, FS_Subset
      <4>2. QED
        BY <4>1, FS_CardinalityType
    <3>3. Cardinality(P2) <= Cardinality(P \union Column(h, n))
      BY <2>1, <3>1, FS_Subset
    <3>4. QED
      BY <3>1, <3>2, <3>3, <1>4, <2>3
  <2>5. QED
    BY <2>1, <2>2, <2>3, <2>4, <1>4, <1>5
<1>11. QED
  BY <1>8, <1>9, <1>10
-----------------------------------------------------------------------------
\* Requests that may keep bytes reserved: when no handler of a user starts to
\* store something and no row of the user appears, nothing is raised.
LEMMA NothingRaised ==
  ASSUME NEW u \in Users,
         \A k \in Keys : rows'[k] \in {rows[k], None},
         \A g \in Handlers : Pending(g)' => req'[g] = req[g]
  PROVE  Unraised(u)
  BY DEF Unraised, ChargedBytes, PendingBytes, Pending

\* Every step moves the bytes of a limited user in one of the three ways.
LEMMA StepMoves ==
  ASSUME TypeOK, [Next]_vars, NEW u \in Users, Limited(u)
  PROVE  Unraised(u) \/ Settled(u) \/ Reserved(u)
<1> USE DEF TypeOK
<1>1. ASSUME NEW h \in Handlers, NEW v \in Callers, NEW k \in Keys,
             NEW n \in 0 .. MaxSize + 1,
             Presign(h, v, k, n) \/ Upload(h, v, k, n)
      PROVE  Unraised(u) \/ Reserved(u)
  <2>1. /\ n \in Sizes /\ WithinQuota(v, n) /\ IsIdle(h)
        /\ ChargedBytes(u)' = ChargedBytes(u)
    BY <1>1 DEF Presign, Upload, Validates, Sizes, ChargedBytes
  <2>2. PICK pc \in Phases : req' = [req EXCEPT ![h] = Storing(pc, v, k, n)]
    BY <1>1 DEF Presign, Upload, Phases, Enter
  <2>3. PendingBytes(u) \subseteq (Handlers \ {h}) \X Sizes
    BY <2>1 DEF PendingBytes, Pending, IsIdle
  <2>4. CASE v = u
    <3>1. PendingBytes(u)' \subseteq PendingBytes(u) \union Column(h, n)
      BY <2>1, <2>2 DEF PendingBytes, Pending, Storing, Column, Sizes
    <3>2. Usage(u) + n <= Limit[Account(u)]
      BY <2>1, <2>4 DEF WithinQuota
    <3>3. QED
      BY <2>1, <2>3, <3>1, <3>2 DEF Reserved
  <2>5. CASE v # u
    <3>1. PendingBytes(u)' \subseteq PendingBytes(u)
      BY <2>2, <2>5 DEF PendingBytes, Pending, Storing
    <3>2. QED
      BY <2>1, <3>1 DEF Unraised
  <2>6. QED
    BY <2>4, <2>5
<1>2. ASSUME NEW h \in Handlers, RecordPresign(h) \/ RecordUpload(h)
      PROVE  Unraised(u) \/ Settled(u)
  <2>1. /\ req[h].key \in Keys /\ req[h].size \in Sizes
        /\ Pending(h)
    BY <1>2, StoringHasKey DEF RecordPresign, RecordUpload, Pending
  <2>2. \A g \in Handlers : Pending(g)' => g # h /\ req'[g] = req[g]
    <3>1. PICK r : Enter(h, r) /\ r.pc \in {"idle", "reply"}
      <4>1. /\ Idle.pc = "idle"
            /\ [req[h] EXCEPT !.pc = "reply"].pc = "reply"
        BY DEF Idle, Storing, Requests
      <4>2. QED
        BY <1>2, <4>1 DEF RecordPresign, RecordUpload, Reject, Finish, Goto
    <3>2. QED
      BY <3>1 DEF Enter, Pending
  <2>3. CASE UNCHANGED rows
    BY <2>2, <2>3, NothingRaised
  <2>4. CASE Insert(req[h]) /\ req[h].owner # u
    <3>1. ChargedBytes(u)' \subseteq ChargedBytes(u)
      BY <2>1, <2>4 DEF Insert, ChargedBytes
    <3>2. PendingBytes(u)' \subseteq PendingBytes(u)
      BY <2>2 DEF PendingBytes, Pending
    <3>3. QED
      BY <3>1, <3>2 DEF Unraised
  <2>5. CASE Insert(req[h]) /\ req[h].owner = u
    <3>1. ChargedBytes(u)' \subseteq ChargedBytes(u) \union Column(req[h].key, req[h].size)
      BY <2>1, <2>5 DEF Insert, ChargedBytes, Column, Sizes
    <3>2. Column(h, req[h].size) \subseteq PendingBytes(u)
      BY <2>1, <2>5 DEF PendingBytes, Column, Sizes
    <3>3. PendingBytes(u)' \subseteq PendingBytes(u) \ Column(h, req[h].size)
      BY <2>2 DEF PendingBytes, Pending, Column
    <3>4. QED
      BY <2>1, <3>1, <3>2, <3>3 DEF Settled
  <2>6. QED
    BY <1>2, <2>3, <2>4, <2>5 DEF RecordPresign, RecordUpload, Reject
<1>3. ASSUME NEW h \in Handlers, ReplyPresign(h)
      PROVE  Unraised(u)
  BY <1>3, NothingRaised DEF ReplyPresign, Finish, Enter, Pending, Idle, Storing
<1>4. ASSUME NEW h \in Handlers, PutObject(h)
      PROVE  Unraised(u)
  <2>1. ChargedBytes(u)' = ChargedBytes(u)
    BY <1>4 DEF PutObject, ChargedBytes
  <2>2. \A g \in Handlers : Pending(g)' =>
          Pending(g) /\ req'[g].owner = req[g].owner /\ req'[g].size = req[g].size
    BY <1>4 DEF PutObject, Finish, Goto, Enter, Pending, Idle, Storing, Requests
  <2>3. PendingBytes(u)' \subseteq PendingBytes(u)
    BY <2>2 DEF PendingBytes
  <2>4. QED
    BY <2>1, <2>3 DEF Unraised
<1>5. ASSUME NEW c \in caps, Expire(c)
      PROVE  Unraised(u)
  BY <1>5, NothingRaised DEF Expire
<1>6. ASSUME NEW h \in Handlers, NEW c \in caps, Transfer(h, c)
      PROVE  Unraised(u)
  BY <1>6, NothingRaised DEF Transfer, Enter, Pending, Storing
<1>7. ASSUME NEW h \in Handlers, NEW n \in 0 .. MaxSize, CommitTransfer(h, n)
      PROVE  Unraised(u)
  BY <1>7, NothingRaised DEF CommitTransfer, Finish, Enter, Pending, Idle, Storing
<1>8. ASSUME NEW h \in Handlers, NEW ks \in SUBSET Keys, RemoveRows(h, ks)
      PROVE  Unraised(u)
  BY <1>8, NothingRaised DEF RemoveRows, Enter, Pending, Unlinking
<1>9. ASSUME NEW h \in Handlers, NEW k \in Keys, Unlink(h, k)
      PROVE  Unraised(u)
  <2>1. UNCHANGED rows
    BY <1>9 DEF Unlink
  <2>2. \A g \in Handlers : Pending(g)' => Pending(g) /\ req'[g].owner = req[g].owner
                                           /\ req'[g].size = req[g].size
    BY <1>9 DEF Unlink, Enter, AfterUnlink, Pending, Idle, Storing, Requests
  <2>3. QED
    BY <2>1, <2>2 DEF Unraised, ChargedBytes, PendingBytes
<1>10. CASE Crash
  BY <1>10, NothingRaised DEF Crash, Pending, Idle, Storing
<1>11. CASE UNCHANGED vars
  BY <1>11, NothingRaised DEF vars
<1>12. QED
  BY <1>1, <1>2, <1>3, <1>4, <1>5, <1>6, <1>7, <1>8, <1>9, <1>10, <1>11
     DEF Next, DeleteFile, WipeFiles, AdminWipeFiles, WipeUploads, OwnedRows

\* The check-then-write race of quota.go is bounded: with any number of users,
\* keys and restarts, the bytes charged to a limited user exceed the limit by at
\* most one largest file for every other request that may be in flight.
THEOREM QuotaOvershoot == Spec => []QuotaOvershootBounded
<1>1. Init => QuotaOvershootBounded
  <2> SUFFICES ASSUME Init, NEW u \in Users
               PROVE  Usage(u) + Cardinality(PendingBytes(u)) <= Limit[Account(u)] + Slack
    BY DEF QuotaOvershootBounded
  <2>1. ChargedBytes(u) = {} /\ PendingBytes(u) = {}
    BY DEF Init, ChargedBytes, PendingBytes, Pending, Idle, Storing, Keys
  <2>2. Limit[Account(u)] \in Nat
    BY LimitAssumption DEF Accounts
  <2>3. Slack \in Nat
    <3>1. Cardinality(Handlers) \in Nat /\ Cardinality(Handlers) # 0
      BY HandlersAssumption, FS_CardinalityType, FS_EmptySet
    <3>2. QED
      BY <3>1 DEF Slack
  <2>4. QED
    BY <2>1, <2>2, <2>3, FS_EmptySet DEF Usage
<1>2. TypeOK /\ QuotaOvershootBounded /\ [Next]_vars => QuotaOvershootBounded'
  BY StepMoves, BoundKept DEF QuotaOvershootBounded, Limited
<1>3. QED
  BY <1>1, <1>2, TypeCorrect, PTL DEF Spec
-----------------------------------------------------------------------------
\* A request that is about to record a key, or to delete its object.
Claims(h, k) == (req[h].pc = "record" /\ req[h].key = k) \/ k \in req[h].todo

\* Every request the handlers enter has nothing to delete unless it unlinks.
LEMMA TodoStep == TypeOK /\ TodoOnlyUnlinking /\ [Next]_vars => TodoOnlyUnlinking'
<1> SUFFICES ASSUME TypeOK, TodoOnlyUnlinking, [Next]_vars
             PROVE  TodoOnlyUnlinking'
  OBVIOUS
<1>1. ASSUME NEW h \in Handlers, NEW r, Enter(h, r), r.todo # {} => r.pc = "unlink"
      PROVE  TodoOnlyUnlinking'
  BY <1>1 DEF TodoOnlyUnlinking, Enter, TypeOK
<1>2. /\ Idle.todo = {}
      /\ \A pc, u, k, n : Storing(pc, u, k, n).todo = {}
      /\ \A ks : Unlinking(ks).pc = "unlink"
  BY DEF Idle, Storing, Unlinking
<1>3. ASSUME NEW h \in Handlers, NEW u \in Callers, NEW k \in Keys,
             NEW n \in 0 .. MaxSize + 1,
             Presign(h, u, k, n) \/ Upload(h, u, k, n)
      PROVE  TodoOnlyUnlinking'
  BY <1>1, <1>2, <1>3 DEF Presign, Upload
<1>4. ASSUME NEW h \in Handlers,
             RecordPresign(h) \/ ReplyPresign(h) \/ PutObject(h) \/ RecordUpload(h)
      PROVE  TodoOnlyUnlinking'
  <2>1. req[h].todo = {}
    BY <1>4 DEF RecordPresign, ReplyPresign, PutObject, RecordUpload, TodoOnlyUnlinking
  <2>2. \A pc : [req[h] EXCEPT !.pc = pc].todo = {}
    BY <2>1 DEF TypeOK, Requests
  <2>3. \/ Finish(h)
        \/ \E pc : Goto(h, pc)
    BY <1>4 DEF RecordPresign, ReplyPresign, PutObject, RecordUpload, Reject
  <2>4. CASE Finish(h)
    BY <1>1, <1>2, <2>4 DEF Finish
  <2>5. CASE \E pc : Goto(h, pc)
    BY <1>1, <2>2, <2>5 DEF Goto
  <2>6. QED
    BY <2>3, <2>4, <2>5
<1>5. ASSUME NEW h \in Handlers, NEW c \in caps, Transfer(h, c)
      PROVE  TodoOnlyUnlinking'
  BY <1>1, <1>2, <1>5 DEF Transfer
<1>6. ASSUME NEW h \in Handlers, NEW n \in 0 .. MaxSize, CommitTransfer(h, n)
      PROVE  TodoOnlyUnlinking'
  BY <1>1, <1>2, <1>6 DEF CommitTransfer, Finish
<1>7. ASSUME NEW h \in Handlers, NEW ks \in SUBSET Keys, RemoveRows(h, ks)
      PROVE  TodoOnlyUnlinking'
  BY <1>1, <1>2, <1>7 DEF RemoveRows
<1>8. ASSUME NEW h \in Handlers, NEW k \in Keys, Unlink(h, k)
      PROVE  TodoOnlyUnlinking'
  <2>1. req[h].pc = "unlink"
    BY <1>8 DEF Unlink, TodoOnlyUnlinking
  <2>2. AfterUnlink(req[h], k) = Idle \/ AfterUnlink(req[h], k).pc = "unlink"
    BY <2>1 DEF AfterUnlink, TypeOK, Requests
  <2>3. QED
    BY <1>1, <1>2, <1>8, <2>2 DEF Unlink
<1>9. CASE Crash
  BY <1>2, <1>9 DEF Crash, TodoOnlyUnlinking
<1>10. CASE UNCHANGED req
  BY <1>10 DEF TodoOnlyUnlinking
<1>11. QED
  BY <1>3, <1>4, <1>5, <1>6, <1>7, <1>8, <1>9, <1>10
     DEF Next, vars, Expire, DeleteFile, WipeFiles, AdminWipeFiles, WipeUploads, OwnedRows

\* A key keeps whatever claims it has, and gains no bytes: no orphan appears.
LEMMA NothingOrphaned ==
  ASSUME NEW k \in Keys,
         objects'[k] \in {objects[k], None},
         rows[k] # None => rows'[k] # None,
         \A h \in Handlers : Claims(h, k) => Claims(h, k)'
  PROVE  Orphan(k)' => Orphan(k)
  BY DEF Orphan, Claims

\* One step orphans a key only for one of the three causes.
LEMMA OrphanStep ==
  ASSUME TypeOK, TodoOnlyUnlinking, [Next]_vars, NEW k \in Keys, ~Orphan(k), Orphan(k)'
  PROVE  \/ crashes' > crashes
         \/ faults' > faults
         \/ \E h \in Handlers : /\ req[h].pc = "transfer" /\ req[h].key = k
                                /\ objects' # objects
<1> DEFINE Caused == \/ crashes' > crashes
                     \/ faults' > faults
                     \/ \E h \in Handlers : /\ req[h].pc = "transfer" /\ req[h].key = k
                                            /\ objects' # objects
<1> SUFFICES ASSUME ~Caused PROVE FALSE
  OBVIOUS
<1>1. faults \in Int /\ crashes \in Int
  BY DEF TypeOK
<1>2. \A h \in Handlers : req[h].pc \notin {"record", "unlink"} => ~Claims(h, k)
  BY DEF Claims, TodoOnlyUnlinking
<1>3. \A h \in Handlers : ~Claims(h, k)'
  BY DEF Claims, Orphan
\* The request of one handler changes, and had no claim.
<1>4. ASSUME NEW h \in Handlers, NEW r, Enter(h, r), ~Claims(h, k),
             objects'[k] \in {objects[k], None}, rows[k] # None => rows'[k] # None
      PROVE  FALSE
  <2>1. \A g \in Handlers : Claims(g, k) => Claims(g, k)'
    BY <1>4 DEF Claims, Enter, TypeOK
  <2>2. QED
    BY <1>4, <2>1, NothingOrphaned
<1>5. ASSUME NEW h \in Handlers, NEW u \in Callers, NEW j \in Keys,
             NEW n \in 0 .. MaxSize + 1,
             Presign(h, u, j, n) \/ Upload(h, u, j, n)
      PROVE  FALSE
  BY <1>2, <1>4, <1>5 DEF Presign, Upload, IsIdle
<1>6. ASSUME NEW h \in Handlers, RecordPresign(h) \/ ReplyPresign(h)
      PROVE  FALSE
  <2>1. ~Claims(h, k) /\ objects' = objects
    BY <1>2, <1>6 DEF RecordPresign, ReplyPresign
  <2>2. rows[k] # None => rows'[k] # None
    BY <1>6, NoneAssumption, StoringHasKey
       DEF RecordPresign, ReplyPresign, Insert, Reject, TypeOK, Rows
  <2>3. \E r : Enter(h, r)
    BY <1>6 DEF RecordPresign, ReplyPresign, Reject, Finish, Goto
  <2>4. QED
    BY <1>4, <2>1, <2>2, <2>3
<1>7. ASSUME NEW h \in Handlers, PutObject(h)
      PROVE  FALSE
  <2>1. ~Claims(h, k) /\ rows' = rows /\ \E r : Enter(h, r)
    BY <1>2, <1>7 DEF PutObject, Finish, Goto
  <2>2. objects'[k] \in {objects[k], None}
    <3>1. CASE Goto(h, "record") /\ req[h].key = k
      <4>1. req'[h].pc = "record" /\ req'[h].key = k
        BY <3>1 DEF Goto, Enter, TypeOK, Requests
      <4>2. QED
        BY <1>3, <4>1 DEF Claims
    <3>2. CASE ~(Goto(h, "record") /\ req[h].key = k)
      BY <1>7, <3>2 DEF PutObject, TypeOK
    <3>3. QED
      BY <3>1, <3>2
  <2>3. QED
    BY <1>4, <2>1, <2>2
<1>8. ASSUME NEW h \in Handlers, RecordUpload(h)
      PROVE  FALSE
  <2>1. /\ Finish(h) /\ objects' = objects
        /\ \/ ~Conflict(req[h].key) /\ Insert(req[h])
           \/ Conflict(req[h].key) /\ UNCHANGED rows
    BY <1>1, <1>8 DEF RecordUpload, Reject, Fault
  <2>2. req[h].todo = {} /\ req[h].key \in Keys
    BY <1>8, StoringHasKey DEF RecordUpload, TodoOnlyUnlinking, TypeOK
  <2>3. CASE req[h].key = k
    <3>1. rows'[k] # None
      BY <2>1, <2>2, <2>3, <1>8, NoneAssumption, StoringHasKey
         DEF Insert, Conflict, TypeOK, Rows, RecordUpload
    <3>2. QED
      BY <3>1 DEF Orphan
  <2>4. CASE req[h].key # k
    <3>1. ~Claims(h, k) /\ rows'[k] = rows[k]
      BY <2>1, <2>2, <2>4 DEF Claims, Insert, TypeOK
    <3>2. QED
      BY <1>4, <2>1, <3>1 DEF Finish
  <2>5. QED
    BY <2>3, <2>4
<1>9. ASSUME NEW c \in caps, Expire(c)
      PROVE  FALSE
  BY <1>9, NothingOrphaned DEF Expire, Claims
<1>10. ASSUME NEW h \in Handlers, NEW c \in caps, Transfer(h, c)
      PROVE  FALSE
  BY <1>2, <1>4, <1>10 DEF Transfer, IsIdle
<1>11. ASSUME NEW h \in Handlers, NEW n \in 0 .. MaxSize, CommitTransfer(h, n)
      PROVE  FALSE
  <2>1. ~Claims(h, k) /\ rows' = rows /\ \E r : Enter(h, r)
    BY <1>2, <1>11 DEF CommitTransfer, Finish
  <2>2. objects'[k] = objects[k]
    BY <1>11 DEF CommitTransfer, TypeOK
  <2>3. QED
    BY <1>4, <2>1, <2>2
<1>12. ASSUME NEW h \in Handlers, NEW ks \in SUBSET Keys, IsIdle(h), RemoveRows(h, ks)
      PROVE  FALSE
  <2>1. req'[h].todo = ks
    BY <1>12 DEF RemoveRows, Enter, Unlinking, TypeOK
  <2>2. k \notin ks
    BY <1>3, <2>1 DEF Claims
  <2>3. rows'[k] = rows[k] /\ objects' = objects
    BY <1>12, <2>2 DEF RemoveRows
  <2>4. QED
    BY <1>2, <1>4, <1>12, <2>3 DEF RemoveRows, IsIdle
<1>13. ASSUME NEW h \in Handlers, NEW j \in Keys, Unlink(h, j)
      PROVE  FALSE
  <2>1. /\ objects' = [objects EXCEPT ![j] = None]
        /\ rows' = rows /\ Enter(h, AfterUnlink(req[h], j)) /\ req[h].pc = "unlink"
    BY <1>1, <1>13 DEF Unlink, Fault, TodoOnlyUnlinking
  <2>2. k # j /\ objects'[k] = objects[k]
    BY <2>1 DEF Orphan, TypeOK
  <2>3. ~Claims(h, k)
    <3>1. SUFFICES k \notin req[h].todo
      BY <2>1 DEF Claims
    <3>2. req'[h] = AfterUnlink(req[h], j)
      BY <2>1 DEF Enter, TypeOK
    <3>3. k \in req[h].todo => k \in AfterUnlink(req[h], j).todo
      BY <2>2 DEF AfterUnlink, TypeOK, Requests
    <3>4. QED
      BY <1>3, <3>2, <3>3 DEF Claims
  <2>4. QED
    BY <1>4, <2>1, <2>2, <2>3
<1>14. CASE Crash
  BY <1>1, <1>14 DEF Crash
<1>15. CASE UNCHANGED vars
  BY <1>15, NothingOrphaned DEF vars, Claims
<1>16. QED
  BY <1>5, <1>6, <1>7, <1>8, <1>9, <1>10, <1>11, <1>12, <1>13, <1>14, <1>15
     DEF Next, DeleteFile, WipeFiles, AdminWipeFiles, WipeUploads, OwnedRows

\* Under both strategies no interleaving of successful one-shot uploads, deletes
\* and wipes leaves bytes that neither a row nor a request accounts for: only a
\* restart, a logged failure, or a transfer by capability to a key without a row
\* does.
THEOREM OrphansAreCaused == Spec => OrphansHaveACause
<1>1. Init => TodoOnlyUnlinking
  BY DEF Init, TodoOnlyUnlinking, Idle, Storing
<1>2. TypeOK /\ TodoOnlyUnlinking /\ [Next]_vars =>
        [\A k \in Keys : ~Orphan(k) /\ Orphan(k)' =>
           \/ crashes' > crashes
           \/ faults' > faults
           \/ \E h \in Handlers : /\ req[h].pc = "transfer" /\ req[h].key = k
                                  /\ objects' # objects]_vars
  BY OrphanStep
<1>3. QED
  BY <1>1, <1>2, TodoStep, TypeCorrect, PTL DEF Spec, OrphansHaveACause
-----------------------------------------------------------------------------
(* Account removal: what holds of the lifecycle holds with it, and what is left *)
(* of a removed user.                                                          *)

\* Removing an account is a wipe of the lifecycle, or changes nothing.
LEMMA RemovalIsWipe == RemovalNext => [Next]_vars
<1>1. ASSUME NEW h \in Handlers, NEW u \in Users, RemoveAccount(h, u) PROVE [Next]_vars
  BY <1>1 DEF RemoveAccount, Next
<1>2. QED
  BY <1>1 DEF RemovalNext

\* A backend that removes accounts is one more caller of the wipe: every
\* theorem about the lifecycle holds with it.
THEOREM RemovalRefines == RemovalSpec => Spec
<1>1. RemovalInit => Init
  BY DEF RemovalInit
<1>2. [RemovalNext]_<<vars, removed>> => [Next]_vars
  BY RemovalIsWipe
<1>3. QED
  BY <1>1, <1>2, PTL DEF RemovalSpec, Spec

\* A row that appears is that of a pending upload, and an upload that is pending
\* was so before, or begins at a key of its own caller.
RowsArePending ==
  \A k \in Keys : rows'[k] # None =>
    \/ rows'[k] = rows[k]
    \/ \E g \in Handlers : Pending(g) /\ rows'[k].owner = req[g].owner
PendingAtOwnKey ==
  \A g \in Handlers : Pending(g)' =>
    \/ Pending(g) /\ req'[g].owner = req[g].owner /\ req'[g].key = req[g].key
    \/ req'[g].key[1] = req'[g].owner

LEMMA PendingStep ==
  ASSUME TypeOK, [Next]_vars
  PROVE  RowsArePending /\ PendingAtOwnKey
<1> USE DEF RowsArePending, PendingAtOwnKey
<1>1. ASSUME NEW h \in Handlers, NEW r, Enter(h, r)
      PROVE  \A g \in Handlers : req'[g] = IF g = h THEN r ELSE req[g]
  BY <1>1 DEF Enter, TypeOK
<1>2. Idle.pc = "idle" /\ Idle.pc \notin {"presign", "put", "record"}
  BY DEF Idle, Storing
<1>3. ASSUME NEW h \in Handlers, NEW u \in Callers, NEW k \in Keys, NEW n \in 0 .. MaxSize + 1,
             Presign(h, u, k, n) \/ Upload(h, u, k, n)
      PROVE  RowsArePending /\ PendingAtOwnKey
  <2>1. PICK pc \in {"presign", "put"} : Enter(h, Storing(pc, u, k, n))
    BY <1>3 DEF Presign, Upload
  <2>2. \A g \in Handlers : req'[g] = IF g = h THEN Storing(pc, u, k, n) ELSE req[g]
    BY <1>1, <2>1
  <2>3. k[1] = u /\ rows' = rows
    BY <1>3 DEF Presign, Upload, Derive
  <2>4. PendingAtOwnKey
    BY <2>2, <2>3 DEF Storing, Pending
  <2>5. QED
    BY <2>3, <2>4
<1>4. ASSUME NEW h \in Handlers, RecordPresign(h) \/ RecordUpload(h)
      PROVE  RowsArePending /\ PendingAtOwnKey
  <2>1. Pending(h) /\ req[h].pc \notin {"idle", "unlink"}
    BY <1>4 DEF RecordPresign, RecordUpload, Pending
  <2>2. /\ req[h].key \in Keys
        /\ rows' = rows \/ rows' = [rows EXCEPT ![req[h].key] =
                                      [owner |-> req[h].owner, size |-> req[h].size]]
    BY <1>4, <2>1, StoringHasKey DEF RecordPresign, RecordUpload, Insert, Reject, TypeOK
  <2>3. RowsArePending
    BY <2>1, <2>2 DEF TypeOK
  <2>4. Enter(h, Idle) \/ Enter(h, [req[h] EXCEPT !.pc = "reply"])
    BY <1>4 DEF RecordPresign, RecordUpload, Reject, Finish, Goto
  <2>5. [req[h] EXCEPT !.pc = "reply"].pc = "reply"
    BY DEF TypeOK, Requests
  <2>6. PICK r : Enter(h, r) /\ r.pc \notin {"presign", "put", "record"}
    BY <1>2, <2>4, <2>5
  <2>7. \A g \in Handlers : req'[g] = IF g = h THEN r ELSE req[g]
    BY <1>1, <2>6
  <2>8. PendingAtOwnKey
    BY <2>6, <2>7 DEF Pending
  <2>9. QED
    BY <2>3, <2>8
<1>5. ASSUME NEW h \in Handlers, PutObject(h) PROVE RowsArePending /\ PendingAtOwnKey
  <2>1. Pending(h) /\ rows' = rows
    BY <1>5 DEF PutObject, Pending
  <2>2. Enter(h, Idle) \/ Enter(h, [req[h] EXCEPT !.pc = "record"])
    BY <1>5 DEF PutObject, Finish, Goto
  <2>3. [req[h] EXCEPT !.pc = "record"].owner = req[h].owner
        /\ [req[h] EXCEPT !.pc = "record"].key = req[h].key
    BY DEF TypeOK, Requests
  <2>4. PICK r : /\ Enter(h, r)
                 /\ \/ r.pc \notin {"presign", "put", "record"}
                    \/ r.owner = req[h].owner /\ r.key = req[h].key
    BY <1>2, <2>2, <2>3
  <2>5. \A g \in Handlers : req'[g] = IF g = h THEN r ELSE req[g]
    BY <1>1, <2>4
  <2>6. PendingAtOwnKey
    BY <2>1, <2>4, <2>5 DEF Pending
  <2>7. QED
    BY <2>1, <2>6
\* A step that leaves its request in no pending phase and inserts no row.
<1>6. ASSUME NEW h \in Handlers, NEW r, Enter(h, r), r.pc \notin {"presign", "put", "record"},
             \A k \in Keys : rows'[k] # None => rows'[k] = rows[k]
      PROVE  RowsArePending /\ PendingAtOwnKey
  <2>1. \A g \in Handlers : req'[g] = IF g = h THEN r ELSE req[g]
    BY <1>1, <1>6
  <2>2. PendingAtOwnKey
    BY <1>6, <2>1 DEF Pending
  <2>3. QED
    BY <1>6, <2>2
<1>7. ASSUME NEW h \in Handlers, ReplyPresign(h) PROVE RowsArePending /\ PendingAtOwnKey
  BY <1>2, <1>6, <1>7 DEF ReplyPresign, Finish
<1>8. ASSUME NEW h \in Handlers, NEW k \in Keys, Unlink(h, k)
      PROVE  RowsArePending /\ PendingAtOwnKey
  <2>1. Enter(h, AfterUnlink(req[h], k)) /\ rows' = rows
    BY <1>8 DEF Unlink
  <2> DEFINE r == AfterUnlink(req[h], k)
  <2>2. r = Idle \/ (r.pc = req[h].pc /\ r.owner = req[h].owner /\ r.key = req[h].key)
    BY DEF AfterUnlink, TypeOK, Requests
  <2> HIDE DEF r
  <2>3. \A g \in Handlers : req'[g] = IF g = h THEN r ELSE req[g]
    BY <1>1, <2>1 DEF r
  <2>4. PendingAtOwnKey
    BY <1>2, <2>2, <2>3 DEF Pending
  <2>5. QED
    BY <2>1, <2>4
<1>9. ASSUME NEW h \in Handlers, NEW ks, RemoveRows(h, ks) PROVE RowsArePending /\ PendingAtOwnKey
  <2>1. Enter(h, Unlinking(ks)) /\ \A j \in Keys : rows'[j] # None => rows'[j] = rows[j]
    BY <1>9 DEF RemoveRows
  <2>2. Unlinking(ks).pc = "unlink"
    BY DEF Unlinking
  <2>3. QED
    BY <1>6, <2>1, <2>2
<1>10. ASSUME NEW h \in Handlers, NEW c \in caps, Transfer(h, c)
       PROVE  RowsArePending /\ PendingAtOwnKey
  <2>1. Enter(h, Storing("transfer", Anonymous, c.key, c.size)) /\ rows' = rows
    BY <1>10 DEF Transfer
  <2>2. Storing("transfer", Anonymous, c.key, c.size).pc = "transfer"
    BY DEF Storing
  <2>3. QED
    BY <1>6, <2>1, <2>2
<1>11. ASSUME NEW h \in Handlers, NEW n \in 0 .. MaxSize, CommitTransfer(h, n)
       PROVE  RowsArePending /\ PendingAtOwnKey
  BY <1>2, <1>6, <1>11 DEF CommitTransfer, Finish
<1>12. CASE Crash
  BY <1>2, <1>12 DEF Crash, Pending
<1>13. CASE (\E c \in caps : Expire(c)) \/ UNCHANGED vars
  BY <1>13 DEF Expire, vars, Pending
<1>14. QED
  BY <1>3, <1>4, <1>5, <1>7, <1>8, <1>9, <1>10, <1>11, <1>12, <1>13
     DEF Next, DeleteFile, WipeFiles, AdminWipeFiles, WipeUploads

\* A user whom a wipe finds quiet has no row after it; afterwards a row can only be
\* inserted by a pending upload of the user, and such an upload ends the quiet.
LEMMA RemovalStep ==
  ASSUME TypeOK, RemovalInv, [RemovalNext]_<<vars, removed>>
  PROVE  RemovalInv'
<1> USE DEF RemovalInv, RemovedUserHasNoRow, RemovedUserIsSilent
<1>1. RowsArePending /\ PendingAtOwnKey
  BY RemovalIsWipe, PendingStep
<1>2. \A g \in Handlers : Pending(g)' => req'[g].key[1] = req'[g].owner
  BY <1>1 DEF PendingAtOwnKey
<1>3. \A k \in Keys : rows'[k] # None => rows'[k].owner \notin removed
  BY <1>1 DEF RowsArePending, Quiet
<1>4. ASSUME NEW h \in Handlers, NEW u \in Users, RemoveAccount(h, u) PROVE RemovalInv'
  <2>1. removed' = removed \union {u} /\ Quiet(u) /\ u # Anonymous
    BY <1>4, AnonymousAssumption DEF RemoveAccount
  <2>2. \/ RemoveRows(h, OwnedRows(Account(u), Issuer(u)))
        \/ OwnedRows(Account(u), Issuer(u)) = {} /\ UNCHANGED <<rows, req>>
    BY <1>4 DEF RemoveAccount, WipeFiles, WipeUploads, vars
  <2>3. ASSUME NEW k \in Keys, rows'[k] # None PROVE rows'[k].owner # u
    <3>1. rows'[k] = rows[k] /\ k \notin OwnedRows(Account(u), Issuer(u))
      BY <2>2, <2>3 DEF RemoveRows
    <3>2. QED
      BY <2>1, <2>3, <3>1 DEF OwnedRows
  <2>4. ASSUME NEW g \in Handlers
        PROVE  req'[g].owner = req[g].owner \/ req'[g].owner = Anonymous
    <3>1. Unlinking(OwnedRows(Account(u), Issuer(u))).owner = Anonymous
      BY DEF Unlinking
    <3>2. QED
      BY <2>2, <3>1 DEF RemoveRows, Enter, TypeOK
  <2>5. \A v \in removed' : Quiet(v)'
    BY <2>1, <2>4, AnonymousAssumption DEF Quiet
  <2>6. QED
    BY <1>2, <1>3, <2>1, <2>3, <2>5
<1>5. CASE Next /\ removed' = {u \in removed : Quiet(u)'}
  BY <1>2, <1>3, <1>5
<1>6. CASE UNCHANGED <<vars, removed>>
  BY <1>2, <1>3, <1>6 DEF vars, Quiet
<1>7. QED
  BY <1>4, <1>5, <1>6 DEF RemovalNext

LEMMA RemovalInvariant == RemovalSpec => []RemovalInv
<1>1. ASSUME RemovalInit PROVE RemovalInv
  <2>1. removed = {} /\ \A k \in Keys : rows[k] = None
    BY <1>1 DEF RemovalInit, Init
  <2>2. \A h \in Handlers : ~Pending(h)
    BY <1>1 DEF RemovalInit, Init, Idle, Storing, Pending
  <2>3. QED
    BY <2>1, <2>2 DEF RemovalInv, RemovedUserHasNoRow, RemovedUserIsSilent
<1>2. TypeOK /\ RemovalInv /\ [RemovalNext]_<<vars, removed>> => RemovalInv'
  BY RemovalStep
<1>3. QED
  BY <1>1, <1>2, RemovalRefines, TypeCorrect, PTL DEF RemovalSpec

\* Account deletion clears the user's charges: from a wipe that finds no upload of
\* the user in flight to the user's next one, no restart, no failure, no other wipe
\* and no upload of anyone else leaves or inserts a row of the user.
THEOREM RemovedUserIsCleared == RemovalSpec => []RemovedUserHasNoRow
<1>1. RemovalInv => RemovedUserHasNoRow
  BY DEF RemovalInv
<1>2. QED
  BY <1>1, RemovalInvariant, PTL

\* Bytes come by the write of a one-shot upload, under the segment of its caller,
\* who is not removed, or by the end of a transfer.
THEOREM RemovedUserGetsNoBytes == RemovalSpec => RemovedUserStoresByCapability
<1>1. ASSUME TypeOK, RemovalInv, [Next]_vars, NEW k \in Keys, k[1] \in removed,
             objects'[k] \notin {objects[k], None}
      PROVE  \E h \in Handlers : req[h].pc = "transfer" /\ req[h].key = k
  <2>1. objects' # objects /\ objects'[k] # objects[k] /\ objects'[k] # None
    BY <1>1
  <2>2. ASSUME NEW h \in Handlers, PutObject(h) PROVE FALSE
    <3>1. /\ req[h].key[1] = req[h].owner
          /\ objects' = [objects EXCEPT ![req[h].key] = req[h].size]
      BY <1>1, <2>1, <2>2 DEF PutObject, Pending, RemovalInv, RemovedUserIsSilent
    <3>2. req[h].key # k
      BY <1>1, <3>1 DEF RemovalInv, RemovedUserIsSilent, Quiet
    <3>3. QED
      BY <1>1, <2>1, <3>1, <3>2 DEF TypeOK
  <2>3. ASSUME NEW h \in Handlers, NEW j \in Keys, Unlink(h, j) PROVE FALSE
    BY <1>1, <2>1, <2>3 DEF Unlink, TypeOK
  <2>4. ASSUME NEW h \in Handlers, NEW n \in 0 .. MaxSize, CommitTransfer(h, n)
        PROVE  req[h].pc = "transfer" /\ req[h].key = k
    BY <1>1, <2>1, <2>4 DEF CommitTransfer, TypeOK
  <2>5. QED
    BY <1>1, <2>1, <2>2, <2>3, <2>4
       DEF Next, vars, Presign, Upload, RecordPresign, ReplyPresign, RecordUpload, Expire,
           Transfer, DeleteFile, WipeFiles, AdminWipeFiles, WipeUploads, RemoveRows, Crash
<1>2. TypeOK /\ RemovalInv /\ [RemovalNext]_<<vars, removed>> =>
        [\A k \in Keys :
           k[1] \in removed /\ objects'[k] \notin {objects[k], None} =>
             \E h \in Handlers : req[h].pc = "transfer" /\ req[h].key = k]_<<vars, removed>>
  BY <1>1, RemovalIsWipe
<1>3. QED
  BY <1>2, RemovalInvariant, RemovalRefines, TypeCorrect, PTL
     DEF RemovalSpec, RemovedUserStoresByCapability
=============================================================================
