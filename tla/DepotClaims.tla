----------------------------- MODULE DepotClaims -----------------------------
(***************************************************************************)
(* What comments of the repository say of the upload lifecycle and the code *)
(* does not do.                                                              *)
(***************************************************************************)
EXTENDS DepotProperties

\* place.go: under the account strategy "a re-upload overwrites".  When the
\* insert of such an upload is settled without a failure of the database, the
\* row is that of the upload.
ReuploadOverwrites ==
  [][\A h \in Handlers :
       /\ req[h].pc \in {"presign", "record"} /\ req[h].key \in AccountKeys
       /\ req'[h].pc # req[h].pc
       /\ faults' = faults /\ crashes' = crashes
       => rows'[req[h].key] = [owner |-> req[h].owner, size |-> req[h].size]]_vars

\* A row whose upload can no longer be completed: no bytes, no capability that
\* still verifies, no request working on the key.
Abandoned(k) ==
  /\ rows[k] # None
  /\ objects[k] = None
  /\ \A c \in caps : c.key # k
  /\ \A h \in Handlers : req[h].key # k

\* store.go and file.go: orphaned rows and orphaned objects are reconciled by a
\* periodic cleanup job.
OrphansReconciled ==
  \A k \in Keys : (Abandoned(k) \/ Orphan(k)) ~> ~(Abandoned(k) \/ Orphan(k))
=============================================================================
