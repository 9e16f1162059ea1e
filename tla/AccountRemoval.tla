--------------------------- MODULE AccountRemoval ---------------------------
(***************************************************************************)
(* Account deletion on top of the upload lifecycle: the backend that        *)
(* deletes an account wipes the user's uploads.  Nothing in Depot waits for *)
(* requests in flight or stops accepting the user's credentials, so every   *)
(* step of the lifecycle stays possible, restarts and other wipes included. *)
(* removed is history: whom a wipe found with no upload in flight and who   *)
(* has sent none since.                                                     *)
(***************************************************************************)
EXTENDS DepotProperties

VARIABLE removed

RemovalInit == Init /\ removed = {}

Quiet(u) == \A h \in Handlers : req[h].owner # u

\* handleWipeFiles, called on account deletion even when the user has no row.
RemoveAccount(h, u) ==
  /\ Quiet(u)
  /\ \/ WipeFiles(h, u)
     \/ OwnedRows(Account(u), Issuer(u)) = {} /\ UNCHANGED vars
  /\ removed' = removed \union {u}

RemovalNext ==
  \/ \E h \in Handlers, u \in Users : RemoveAccount(h, u)
  \/ Next /\ removed' = {u \in removed : Quiet(u)'}

RemovalSpec == RemovalInit /\ [][RemovalNext]_<<vars, removed>>

\* The goroutines that serve these wipes are scheduled like any others.
FairRemovalSpec == RemovalSpec /\ Fairness

\* file.go: "account deletion calls it so a removed user leaves nothing
\* behind".  Once no request is in flight, nothing has failed and the process has
\* not restarted, neither a row nor bytes of a removed user are left.
RemovedUserLeavesNothing ==
  (\A h \in Handlers : IsIdle(h)) /\ faults = 0 /\ crashes = 0 =>
    \A k \in Keys : k[1] \in removed => rows[k] = None /\ objects[k] = None
-----------------------------------------------------------------------------
\* What the wipe of handleWipeFiles does achieve, whatever restarts, fails or is
\* wiped besides: no row of a removed user is left and no request of anyone else
\* inserts one, so that nothing is charged to the user until the next upload.
RemovedUserHasNoRow == \A k \in Keys : rows[k] # None => rows[k].owner \notin removed

\* And nothing stores bytes under a removed user's own segment but a transfer by
\* capability: not an upload of the same account under another issuer, for one.
RemovedUserStoresByCapability ==
  [][\A k \in Keys :
       k[1] \in removed /\ objects'[k] \notin {objects[k], None} =>
         \E h \in Handlers : req[h].pc = "transfer" /\ req[h].key = k]_<<vars, removed>>

\* The inductive part: an upload in flight is of nobody removed, and works on a
\* key of its own caller.
RemovedUserIsSilent ==
  /\ \A u \in removed : Quiet(u)
  /\ \A h \in Handlers : Pending(h) => req[h].key[1] = req[h].owner

RemovalInv == removed \subseteq Users /\ RemovedUserHasNoRow /\ RemovedUserIsSilent
=============================================================================
