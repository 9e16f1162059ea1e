---------------------------- MODULE UploadsProofs ----------------------------
(***************************************************************************)
(* Proofs about the uploads table, for any number of wipes in progress, any *)
(* keys, owners and scopes: the table is well typed and holds one row per   *)
(* key, and the deferred transactions implement the atomic wipe of module   *)
(* UploadStore.                                                             *)
(***************************************************************************)
EXTENDS UploadsProperties, TLAPS

\* What a commit does to the transactions: it only makes snapshots stale.
LEMMA StaleTxs ==
  ASSUME wipe \in [Wipers -> Txs]
  PROVE  /\ Stale(wipe) \in [Wipers -> Txs]
         /\ \A w \in Wipers : /\ Stale(wipe)[w].pc = wipe[w].pc
                              /\ Stale(wipe)[w].scope = wipe[w].scope
                              /\ Stale(wipe)[w].keys = wipe[w].keys
                              /\ wipe[w].pc = "selected" => ~Stale(wipe)[w].fresh
                              /\ wipe[w].pc # "selected" => Stale(wipe)[w] = wipe[w]
<1>1. ASSUME NEW w \in Wipers
      PROVE  /\ Stale(wipe)[w] \in Txs
             /\ Stale(wipe)[w].pc = wipe[w].pc
             /\ Stale(wipe)[w].scope = wipe[w].scope
             /\ Stale(wipe)[w].keys = wipe[w].keys
             /\ wipe[w].pc = "selected" => ~Stale(wipe)[w].fresh
             /\ wipe[w].pc # "selected" => Stale(wipe)[w] = wipe[w]
  <2>1. wipe[w] \in Txs
    BY <1>1
  <2>2. CASE wipe[w].pc = "selected"
    BY <2>1, <2>2, <1>1 DEF Stale, Txs
  <2>3. CASE wipe[w].pc # "selected"
    BY <2>1, <2>3, <1>1 DEF Stale
  <2>4. QED
    BY <2>2, <2>3
<1>2. Stale(wipe) = [w \in Wipers |-> Stale(wipe)[w]]
  BY DEF Stale
<1>3. QED
  BY <1>1, <1>2

\* A commit of rows under a free lock keeps the invariant, whatever the rows.
LEMMA CommitKeepsInv ==
  ASSUME TableInv, LockFree, wipe' = Stale(wipe),
         rows' \subseteq Row,
         \A r, s \in rows' : r.key = s.key => r = s,
         inserts' \in 0 .. MaxInserts
  PROVE  TableInv'
<1>1. /\ Stale(wipe) \in [Wipers -> Txs]
      /\ \A w \in Wipers : /\ Stale(wipe)[w].pc = wipe[w].pc
                           /\ wipe[w].pc = "selected" => ~Stale(wipe)[w].fresh
  BY StaleTxs DEF TableInv, TypeOK
<1>2. TypeOK'
  BY <1>1 DEF TypeOK
<1>3. \A w \in Wipers : /\ wipe'[w].pc # "deleting"
                        /\ wipe'[w].pc = "selected" => ~wipe'[w].fresh
  BY <1>1 DEF LockFree
<1>4. SnapshotsAgree' /\ OneWriter'
  BY <1>3 DEF SnapshotsAgree, OneWriter
<1>5. QED
  BY <1>2, <1>4 DEF TableInv

\* A step of one transaction that leaves the table alone keeps the invariant if
\* the transaction's new record does.
LEMMA TxKeepsInv ==
  ASSUME TableInv, NEW w \in Wipers, NEW tx \in Txs,
         wipe' = [wipe EXCEPT ![w] = tx], rows' = rows, inserts' = inserts,
         (tx.pc = "selected" /\ tx.fresh) \/ tx.pc = "deleting"
           => tx.keys = KeysOf(Matching(tx.scope)),
         tx.pc = "deleting" => LockFree
  PROVE  TableInv'
<1>1. wipe \in [Wipers -> Txs]
  BY DEF TableInv, TypeOK
<1>2. TypeOK'
  BY <1>1 DEF TableInv, TypeOK
<1>3. \A v \in Wipers : wipe'[v] = IF v = w THEN tx ELSE wipe[v]
  BY <1>1
<1>4. \A s : Matching(s)' = {r \in rows : r.owner \in s}
  BY DEF Matching
<1>5. SnapshotsAgree'
  BY <1>3, <1>4 DEF TableInv, SnapshotsAgree, Matching, KeysOf
<1>6. OneWriter'
  BY <1>3 DEF TableInv, OneWriter, LockFree
<1>7. QED
  BY <1>2, <1>5, <1>6 DEF TableInv
-----------------------------------------------------------------------------
LEMMA InitTable == Init => TableInv
BY InsertsAssumption DEF Init, TableInv, TypeOK, SnapshotsAgree, OneWriter, NoTx, Txs

LEMMA RecordKeeps == ASSUME TableInv, NEW r \in Row, RecordUpload(r) PROVE TableInv'
<1>1. rows' \subseteq Row
  BY DEF RecordUpload, TableInv, TypeOK
<1>2. \A s, t \in rows' : s.key = t.key => s = t
  BY DEF RecordUpload, TableInv, TypeOK, IsNewKey, KeysOf
<1>3. inserts' \in 0 .. MaxInserts
  BY InsertsAssumption DEF RecordUpload, TableInv, TypeOK
<1>4. QED
  BY <1>1, <1>2, <1>3, CommitKeepsInv DEF RecordUpload

LEMMA RemoveKeeps == ASSUME TableInv, NEW gone, Remove(gone) PROVE TableInv'
<1>1. rows' \subseteq rows /\ inserts' = inserts
  BY DEF Remove
<1>2. rows' \subseteq Row /\ inserts' \in 0 .. MaxInserts
  BY <1>1 DEF TableInv, TypeOK
<1>3. \A s, t \in rows' : s.key = t.key => s = t
  BY <1>1 DEF TableInv, TypeOK
<1>4. QED
  BY <1>2, <1>3, CommitKeepsInv DEF Remove

LEMMA OtherKeeps == ASSUME TableInv, OtherCommit PROVE TableInv'
BY CommitKeepsInv DEF OtherCommit, TableInv, TypeOK

LEMMA BeginKeeps ==
  ASSUME TableInv, NEW w \in Wipers, NEW s \in Scopes, WipeBegin(w, s) PROVE TableInv'
<1> DEFINE tx == [NoTx EXCEPT !.pc = "begun", !.scope = s]
<1>1. tx \in Txs /\ tx.pc = "begun"
  BY DEF NoTx, Txs
<1>2. QED
  BY <1>1, TxKeepsInv DEF WipeBegin

LEMMA SelectKeeps == ASSUME TableInv, NEW w \in Wipers, WipeSelect(w) PROVE TableInv'
<1> DEFINE tx == [wipe[w] EXCEPT !.pc = "selected", !.keys = KeysOf(Matching(wipe[w].scope))]
<1>1. wipe[w] \in Txs /\ wipe \in [Wipers -> Txs]
  BY DEF TableInv, TypeOK
<1>2. KeysOf(Matching(wipe[w].scope)) \subseteq Keys
  BY DEF TableInv, TypeOK, KeysOf, Matching, Row
<1>3. /\ tx \in Txs /\ tx.pc = "selected" /\ tx.scope = wipe[w].scope
      /\ tx.keys = KeysOf(Matching(wipe[w].scope))
  BY <1>1, <1>2 DEF Txs
<1>4. wipe' = [wipe EXCEPT ![w] = tx]
  BY <1>1 DEF WipeSelect
<1>5. rows' = rows /\ inserts' = inserts
  BY DEF WipeSelect
<1> HIDE DEF tx
<1>6. QED
  BY <1>3, <1>4, <1>5, TxKeepsInv

LEMMA DeleteKeeps == ASSUME TableInv, NEW w \in Wipers, WipeDelete(w) PROVE TableInv'
<1> DEFINE tx == [wipe[w] EXCEPT !.pc = "deleting"]
<1>1. wipe[w] \in Txs /\ wipe \in [Wipers -> Txs]
  BY DEF TableInv, TypeOK
<1>2. tx \in Txs /\ tx.scope = wipe[w].scope /\ tx.keys = wipe[w].keys /\ tx.pc = "deleting"
  BY <1>1 DEF Txs
<1>3. wipe[w].keys = KeysOf(Matching(wipe[w].scope))
  BY DEF TableInv, SnapshotsAgree, WipeDelete, SnapshotIsCurrent
<1>4. wipe' = [wipe EXCEPT ![w] = tx] /\ rows' = rows /\ inserts' = inserts /\ LockFree
  BY <1>1 DEF WipeDelete
<1> HIDE DEF tx
<1>5. QED
  BY <1>2, <1>3, <1>4, TxKeepsInv

LEMMA CommitKeeps == ASSUME TableInv, NEW w \in Wipers, WipeCommit(w) PROVE TableInv'
<1>1. /\ Stale(wipe) \in [Wipers -> Txs]
      /\ \A v \in Wipers : /\ Stale(wipe)[v].pc = wipe[v].pc
                           /\ wipe[v].pc = "selected" => ~Stale(wipe)[v].fresh
  BY StaleTxs DEF TableInv, TypeOK
<1>2. wipe' \in [Wipers -> Txs]
  BY <1>1 DEF WipeCommit, Txs
<1>3. rows' \subseteq rows /\ inserts' = inserts
  BY DEF WipeCommit
<1>4. TypeOK'
  BY <1>2, <1>3 DEF TableInv, TypeOK
<1>5. \A v \in Wipers \ {w} : wipe'[v] = Stale(wipe)[v] /\ wipe[v].pc # "deleting"
  BY <1>1 DEF WipeCommit, TableInv, OneWriter
<1>6. wipe'[w].pc = "done"
  BY <1>1 DEF WipeCommit, Txs
<1>7. \A v \in Wipers : /\ wipe'[v].pc # "deleting"
                        /\ wipe'[v].pc = "selected" => ~wipe'[v].fresh
  BY <1>1, <1>5, <1>6
<1>8. SnapshotsAgree' /\ OneWriter'
  BY <1>7 DEF SnapshotsAgree, OneWriter
<1>9. QED
  BY <1>4, <1>8 DEF TableInv

LEMMA RollbackKeeps == ASSUME TableInv, NEW w \in Wipers, WipeRollback(w) PROVE TableInv'
<1> DEFINE tx == [wipe[w] EXCEPT !.pc = "failed", !.keys = {}]
<1>1. wipe[w] \in Txs /\ wipe \in [Wipers -> Txs]
  BY DEF TableInv, TypeOK
<1>2. tx \in Txs /\ tx.pc = "failed"
  BY <1>1 DEF Txs
<1>3. wipe' = [wipe EXCEPT ![w] = tx] /\ rows' = rows /\ inserts' = inserts
  BY <1>1 DEF WipeRollback
<1> HIDE DEF tx
<1>4. QED
  BY <1>2, <1>3, TxKeepsInv

LEMMA ReturnKeeps == ASSUME TableInv, NEW w \in Wipers, WipeReturn(w) PROVE TableInv'
<1>1. NoTx \in Txs /\ NoTx.pc = "idle"
  BY DEF NoTx, Txs
<1>2. QED
  BY <1>1, TxKeepsInv DEF WipeReturn

LEMMA CrashKeeps == ASSUME TableInv, Crash PROVE TableInv'
<1>1. NoTx \in Txs /\ NoTx.pc = "idle"
  BY DEF NoTx, Txs
<1>2. wipe' \in [Wipers -> Txs] /\ \A w \in Wipers : wipe'[w].pc = "idle"
  BY <1>1 DEF Crash
<1>3. QED
  BY <1>2 DEF Crash, TableInv, TypeOK, SnapshotsAgree, OneWriter

\* The walk of a client reads the table and changes nothing of it.
Reading == \/ \E s \in Scopes, p \in Plans, n \in PageLimits, stop \in {"short", "total"} :
                StartWalk(s, p, n, stop)
           \/ CountUploads \/ SelectUploads

LEMMA ReadingReads == Reading => UNCHANGED <<rows, wipe, inserts>>
BY DEF Reading, StartWalk, CountUploads, SelectUploads

LEMMA UntouchedKeeps ==
  ASSUME TableInv, UNCHANGED <<rows, wipe, inserts>> PROVE TableInv'
BY DEF TableInv, TypeOK, SnapshotsAgree, OneWriter, Matching, KeysOf

\* Every step that is not a read, as one of its actions.
LEMMA Steps ==
  ASSUME Next
  PROVE  \/ \E r \in Row : RecordUpload(r)
         \/ \E k \in Keys : (\E o \in Owners : DeleteUpload(k, o)) \/ DeleteUploadAny(k)
         \/ OtherCommit
         \/ \E w \in Wipers :
              \/ \E s \in Scopes : WipeBegin(w, s)
              \/ WipeSelect(w) \/ WipeDelete(w) \/ WipeCommit(w)
              \/ WipeRollback(w) \/ WipeReturn(w)
         \/ Reading
         \/ Crash
BY DEF Next, Reading

LEMMA StepKeepsTable == TableInv /\ [Next]_vars => TableInv'
<1> SUFFICES ASSUME TableInv, [Next]_vars PROVE TableInv'
  OBVIOUS
<1>1. CASE UNCHANGED vars
  BY <1>1, UntouchedKeeps DEF vars
<1>2. CASE Next
  <2>1. CASE \E r \in Row : RecordUpload(r)
    BY <2>1, RecordKeeps
  <2>2. CASE \E k \in Keys : (\E o \in Owners : DeleteUpload(k, o)) \/ DeleteUploadAny(k)
    BY <2>2, RemoveKeeps DEF DeleteUpload, DeleteUploadAny
  <2>3. CASE OtherCommit
    BY <2>3, OtherKeeps
  <2>4. CASE \E w \in Wipers :
               \/ \E s \in Scopes : WipeBegin(w, s)
               \/ WipeSelect(w) \/ WipeDelete(w) \/ WipeCommit(w)
               \/ WipeRollback(w) \/ WipeReturn(w)
    BY <2>4, BeginKeeps, SelectKeeps, DeleteKeeps, CommitKeeps, RollbackKeeps, ReturnKeeps
  <2>5. CASE Reading
    BY <2>5, ReadingReads, UntouchedKeeps
  <2>6. CASE Crash
    BY <2>6, CrashKeeps
  <2>7. QED
    BY <1>2, <2>1, <2>2, <2>3, <2>4, <2>5, <2>6, Steps
<1>3. QED
  BY <1>1, <1>2

\* The invariant behind the results below: the keys of a transaction that can
\* still commit are those of the committed table.
THEOREM TableInvariant == Spec => []TableInv
<1>1. Init => TableInv
  BY InitTable
<1>2. TableInv /\ [Next]_vars => TableInv'
  BY StepKeepsTable
<1>3. QED
  BY <1>1, <1>2, PTL DEF Spec

\* Types, and one row per key.
THEOREM TableTypes == Spec => []TypeOK
<1>1. TableInv => TypeOK
  BY DEF TableInv
<1>2. QED
  BY <1>1, TableInvariant, PTL
-----------------------------------------------------------------------------
(* The refinement: what callers see of a transaction, and of the rows. *)

LEMMA ContentKeys ==
  ASSUME NEW T PROVE Abstract!KeysOf({Content(r) : r \in T}) = KeysOf(T)
<1> DEFINE C == {Content(r) : r \in T}
<1>1. \A r : Content(r).key = r.key
  BY DEF Content
<1>2. ASSUME NEW k \in Abstract!KeysOf(C) PROVE k \in KeysOf(T)
  <2>1. PICK a \in C : k = a.key
    BY <1>2 DEF Abstract!KeysOf
  <2>2. PICK r \in T : a = Content(r)
    BY <2>1
  <2>3. QED
    BY <1>1, <2>1, <2>2 DEF KeysOf
<1>3. ASSUME NEW k \in KeysOf(T) PROVE k \in Abstract!KeysOf(C)
  <2>1. PICK r \in T : k = r.key
    BY <1>3 DEF KeysOf
  <2>2. Content(r) \in C /\ Content(r).key = k
    BY <1>1, <2>1
  <2> HIDE DEF C
  <2>3. QED
    BY <2>2 DEF Abstract!KeysOf
<1>4. QED
  BY <1>2, <1>3

LEMMA TableKeys == Abstract!KeysOf(Table) = KeysOf(rows)
BY ContentKeys DEF Table

\* Removing rows by owner or by key commutes with forgetting the rowid.
LEMMA ScopeOfTable ==
  ASSUME NEW s
  PROVE  /\ Abstract!Inside(s) = {Content(r) : r \in Matching(s)}
         /\ {Content(r) : r \in rows \ Matching(s)} = Table \ Abstract!Inside(s)
BY DEF Abstract!Inside, Table, Content, Matching

LEMMA RepliesOf ==
  ASSUME wipe \in [Wipers -> Txs], NEW w \in Wipers, NEW tx \in Txs,
         wipe' = [wipe EXCEPT ![w] = tx]
  PROVE  Replies' = [Replies EXCEPT ![w] =
                       [state |-> StateOf(tx.pc), scope |-> tx.scope,
                        keys |-> IF tx.pc = "done" THEN tx.keys ELSE {}]]
BY DEF Replies

\* A commit to the table changes nothing that a caller of a wipe sees.
LEMMA StaleIsInvisible ==
  ASSUME wipe \in [Wipers -> Txs], wipe' = Stale(wipe) PROVE Replies' = Replies
BY StaleTxs DEF Replies

LEMMA InitRefines == Init => Abstract!Init
BY DEF Init, Abstract!Init, Table, Replies, NoTx, StateOf, Abstract!NoCall

LEMMA RecordRefines ==
  ASSUME TableInv, NEW r \in Row, RecordUpload(r)
  PROVE  \E a \in Abstract!Row : Abstract!RecordUpload(a)
<1>1. Content(r) \in Abstract!Row /\ Content(r).key = r.key
  BY DEF Content, Row, Abstract!Row
<1>2. Table' = Table \union {Content(r)}
  BY DEF RecordUpload, Table
<1>3. r.key \notin Abstract!KeysOf(Table)
  BY TableKeys DEF RecordUpload, IsNewKey
<1>4. Replies' = Replies
  BY StaleIsInvisible DEF RecordUpload, TableInv, TypeOK
<1>5. Abstract!RecordUpload(Content(r))
  BY <1>1, <1>2, <1>3, <1>4 DEF Abstract!RecordUpload
<1>6. QED
  BY <1>1, <1>5

\* Both deletes remove the one row of a key.
LEMMA RemoveRefines ==
  ASSUME TableInv, NEW k \in Keys, NEW gone, Remove(gone),
         gone \subseteq {r \in rows : r.key = k}
  PROVE  Abstract!Delete(k)
<1>1. gone = {r \in rows : r.key = k} /\ gone # {}
  BY DEF Remove, TableInv, TypeOK
<1>2. rows' = {r \in rows : r.key # k}
  BY <1>1 DEF Remove
<1>3. Table' = {a \in Table : a.key # k}
  BY <1>2 DEF Table, Content
<1>4. k \in Abstract!KeysOf(Table)
  BY <1>1, TableKeys DEF KeysOf
<1>5. Replies' = Replies
  BY StaleIsInvisible DEF Remove, TableInv, TypeOK
<1>6. QED
  BY <1>3, <1>4, <1>5 DEF Abstract!Delete

LEMMA BeginRefines ==
  ASSUME TableInv, NEW w \in Wipers, NEW s \in Scopes, WipeBegin(w, s)
  PROVE  Abstract!Call(w, s)
<1> DEFINE tx == [NoTx EXCEPT !.pc = "begun", !.scope = s]
<1>1. tx \in Txs /\ tx.pc = "begun" /\ tx.scope = s
  BY DEF NoTx, Txs
<1>2. wipe \in [Wipers -> Txs] /\ wipe' = [wipe EXCEPT ![w] = tx] /\ Table' = Table
  BY DEF WipeBegin, TableInv, TypeOK, Table
<1>3. Replies[w] = Abstract!NoCall
  BY DEF WipeBegin, Replies, NoTx, StateOf, Abstract!NoCall
<1> HIDE DEF tx
<1>4. Replies' = [Replies EXCEPT ![w] = [state |-> "called", scope |-> s, keys |-> {}]]
  BY <1>1, <1>2, RepliesOf DEF StateOf
<1>5. QED
  BY <1>2, <1>3, <1>4 DEF Abstract!Call

\* A step inside a transaction: its caller sees a call still open.
LEMMA InsideIsInvisible ==
  ASSUME TableInv, NEW w \in Wipers, WipeSelect(w) \/ WipeDelete(w)
  PROVE  Table' = Table /\ Replies' = Replies
<1>1. wipe \in [Wipers -> Txs] /\ wipe[w] \in Txs /\ rows' = rows
  BY DEF TableInv, TypeOK, WipeSelect, WipeDelete
<1>2. \A v \in Wipers \ {w} : wipe'[v] = wipe[v]
  BY <1>1 DEF WipeSelect, WipeDelete
<1>3. /\ wipe[w].pc \in {"begun", "selected"}
      /\ wipe'[w].pc \in {"selected", "deleting"}
      /\ wipe'[w].scope = wipe[w].scope
  BY <1>1 DEF WipeSelect, WipeDelete, SnapshotIsCurrent, Txs
<1>4. \A v \in Wipers : /\ StateOf(wipe'[v].pc) = StateOf(wipe[v].pc)
                        /\ wipe'[v].scope = wipe[v].scope
                        /\ (IF wipe'[v].pc = "done" THEN wipe'[v].keys ELSE {})
                             = (IF wipe[v].pc = "done" THEN wipe[v].keys ELSE {})
  BY <1>2, <1>3 DEF StateOf
<1>5. QED
  BY <1>1, <1>4 DEF Table, Replies

LEMMA CommitRefines ==
  ASSUME TableInv, NEW w \in Wipers, WipeCommit(w)
  PROVE  Abstract!WipeUploads(w)
<1> DEFINE scope == wipe[w].scope
           a == Replies[w]
<1>1. /\ Stale(wipe) \in [Wipers -> Txs]
      /\ \A v \in Wipers : /\ Stale(wipe)[v].pc = wipe[v].pc
                           /\ Stale(wipe)[v].scope = wipe[v].scope
                           /\ Stale(wipe)[v].keys = wipe[v].keys
  BY StaleTxs DEF TableInv, TypeOK
<1>2. a.state = "called" /\ a.scope = scope
  BY DEF WipeCommit, Replies, StateOf
<1>3. Table' = Table \ Abstract!Inside(scope)
  BY ScopeOfTable DEF WipeCommit, Table
<1>4. wipe[w].keys = Abstract!KeysOf(Abstract!Inside(scope))
  <2>1. wipe[w].keys = KeysOf(Matching(scope))
    BY DEF WipeCommit, TableInv, SnapshotsAgree
  <2>2. KeysOf(Matching(scope)) = Abstract!KeysOf({Content(r) : r \in Matching(scope)})
    BY ContentKeys
  <2>3. QED
    BY <2>1, <2>2, ScopeOfTable
<1>5. /\ wipe'[w].pc = "done" /\ wipe'[w].scope = scope /\ wipe'[w].keys = wipe[w].keys
      /\ \A v \in Wipers \ {w} : wipe'[v] = Stale(wipe)[v]
  BY <1>1 DEF WipeCommit, Txs
<1>6. Replies' = [Replies EXCEPT ![w] =
                    [state |-> "done", scope |-> scope, keys |-> wipe[w].keys]]
  <2>1. Replies'[w] = [state |-> "done", scope |-> scope, keys |-> wipe[w].keys]
    BY <1>5 DEF Replies, StateOf
  <2>2. ASSUME NEW v \in Wipers \ {w} PROVE Replies'[v] = Replies[v]
    <3>1. wipe'[v].pc = wipe[v].pc /\ wipe'[v].scope = wipe[v].scope /\ wipe'[v].keys = wipe[v].keys
      BY <1>1, <1>5
    <3>2. QED
      BY <3>1 DEF Replies, StateOf
  <2>3. DOMAIN Replies' = Wipers /\ DOMAIN Replies = Wipers
    BY DEF Replies
  <2>4. QED
    BY <2>1, <2>2, <2>3 DEF Replies
<1>7. QED
  BY <1>2, <1>3, <1>4, <1>6 DEF Abstract!WipeUploads

LEMMA RollbackRefines ==
  ASSUME TableInv, NEW w \in Wipers, WipeRollback(w)
  PROVE  Abstract!Fail(w)
<1>1. wipe \in [Wipers -> Txs] /\ wipe[w] \in Txs /\ Table' = Table
  BY DEF TableInv, TypeOK, WipeRollback, Table
<1>2. /\ \A v \in Wipers \ {w} : wipe'[v] = wipe[v]
      /\ wipe'[w].pc = "failed" /\ wipe'[w].scope = wipe[w].scope
  BY <1>1 DEF WipeRollback, Txs
<1>3. Replies[w] = [state |-> "called", scope |-> wipe[w].scope, keys |-> {}]
  BY DEF WipeRollback, Replies, StateOf
<1>4. Replies' = [Replies EXCEPT ![w] =
                    [state |-> "failed", scope |-> wipe[w].scope, keys |-> {}]]
  BY <1>2 DEF Replies, StateOf
<1>5. QED
  <2>1. [Replies[w] EXCEPT !.state = "failed"]
          = [state |-> "failed", scope |-> wipe[w].scope, keys |-> {}]
    BY <1>3
  <2>2. Replies' = [Replies EXCEPT ![w].state = "failed"]
    BY <1>4, <2>1
  <2>3. Replies[w].state = "called" /\ Table' = Table
    BY <1>1, <1>3
  <2>4. QED
    BY <2>2, <2>3 DEF Abstract!Fail

LEMMA ReturnRefines ==
  ASSUME TableInv, NEW w \in Wipers, WipeReturn(w)
  PROVE  Abstract!Return(w)
<1>1. wipe \in [Wipers -> Txs] /\ Table' = Table /\ NoTx \in Txs
  BY DEF TableInv, TypeOK, WipeReturn, Table, NoTx, Txs
<1>2. Replies[w].state \in {"done", "failed"}
  BY DEF WipeReturn, Replies, StateOf
<1>3. Replies' = [Replies EXCEPT ![w] = Abstract!NoCall]
  BY <1>1, RepliesOf DEF WipeReturn, NoTx, StateOf, Abstract!NoCall
<1>4. QED
  BY <1>1, <1>2, <1>3 DEF Abstract!Return

LEMMA CrashRefines == Crash => Abstract!Crash
BY DEF Crash, Abstract!Crash, Table, Replies, NoTx, StateOf, Abstract!NoCall

LEMMA StepRefines ==
  TableInv /\ [Next]_vars => [Abstract!Next]_<<Table, Replies>>
<1> SUFFICES ASSUME TableInv, [Next]_vars PROVE [Abstract!Next]_<<Table, Replies>>
  OBVIOUS
<1>1. CASE UNCHANGED vars
  BY <1>1 DEF vars, Table, Replies
<1>2. CASE Next
  <2>1. CASE \E r \in Row : RecordUpload(r)
    BY <2>1, RecordRefines DEF Abstract!Next
  <2>2. CASE \E k \in Keys : (\E o \in Owners : DeleteUpload(k, o)) \/ DeleteUploadAny(k)
    <3>1. PICK k \in Keys : (\E o \in Owners : DeleteUpload(k, o)) \/ DeleteUploadAny(k)
      BY <2>2
    <3>2. \E gone : Remove(gone) /\ gone \subseteq {r \in rows : r.key = k}
      BY <3>1 DEF DeleteUpload, DeleteUploadAny
    <3>3. Abstract!Delete(k)
      BY <3>2, RemoveRefines
    <3>4. QED
      BY <3>3 DEF Abstract!Next
  <2>3. CASE OtherCommit
    BY <2>3, StaleIsInvisible DEF OtherCommit, TableInv, TypeOK, Table
  <2>4. CASE \E w \in Wipers :
               \/ \E s \in Scopes : WipeBegin(w, s)
               \/ WipeSelect(w) \/ WipeDelete(w) \/ WipeCommit(w)
               \/ WipeRollback(w) \/ WipeReturn(w)
    <3>1. PICK w \in Wipers :
               \/ \E s \in Scopes : WipeBegin(w, s)
               \/ WipeSelect(w) \/ WipeDelete(w) \/ WipeCommit(w)
               \/ WipeRollback(w) \/ WipeReturn(w)
      BY <2>4
    <3>2. CASE \E s \in Scopes : WipeBegin(w, s)
      BY <3>2, BeginRefines DEF Abstract!Next
    <3>3. CASE WipeSelect(w) \/ WipeDelete(w)
      BY <3>3, InsideIsInvisible
    <3>4. CASE WipeCommit(w)
      BY <3>4, CommitRefines DEF Abstract!Next
    <3>5. CASE WipeRollback(w)
      BY <3>5, RollbackRefines DEF Abstract!Next
    <3>6. CASE WipeReturn(w)
      BY <3>6, ReturnRefines DEF Abstract!Next
    <3>7. QED
      BY <3>1, <3>2, <3>3, <3>4, <3>5, <3>6
  <2>5. CASE Reading
    BY <2>5, ReadingReads DEF Table, Replies
  <2>6. CASE Crash
    BY <2>6, CrashRefines DEF Abstract!Next
  <2>7. QED
    BY <1>2, <2>1, <2>2, <2>3, <2>4, <2>5, <2>6, Steps
<1>3. QED
  BY <1>1, <1>2

\* The wipe transactions of SQLite are the atomic wipe the handlers rely on:
\* the keys returned are exactly the rows removed, whatever runs in between.
THEOREM WipeIsAtomic == Spec => ImplementsUploadStore
<1>1. Init => Abstract!Init
  BY InitRefines
<1>2. TableInv /\ [Next]_vars => [Abstract!Next]_<<Table, Replies>>
  BY StepRefines
<1>3. QED
  BY <1>1, <1>2, TableInvariant, PTL DEF Spec, ImplementsUploadStore, Abstract!Spec
=============================================================================
