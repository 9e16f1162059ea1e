----------------------------- MODULE UploadStore -----------------------------
(***************************************************************************)
(* What the metadata store promises the handlers about the uploads table:   *)
(* one row per key, and a wipe that removes the rows of its scope and names *)
(* them at one instant, or fails and removes none.  Module Depot is built   *)
(* on this promise.                                                         *)
(***************************************************************************)
CONSTANTS
  Keys,    \* object keys
  Owners,  \* pairs <<account, issuer>>
  Times,   \* values of the column a listing sorts by: time or size
  Scopes,  \* owners a request is about: one user, an account at any issuer, all
  Wipers   \* goroutines serving a wipe (a bound)

VARIABLES
  rows,    \* the table
  replies  \* wiper |-> where its WipeUploads stands

Row     == [key : Keys, owner : Owners, at : Times]
NoCall  == [state |-> "idle", scope |-> {}, keys |-> {}]
Inside(scope) == {r \in rows : r.owner \in scope}
KeysOf(table) == {r.key : r \in table}

Init == rows = {} /\ replies = [w \in Wipers |-> NoCall]

RecordUpload(r) ==
  /\ r.key \notin KeysOf(rows)
  /\ rows' = rows \union {r}
  /\ UNCHANGED replies

\* DeleteUpload and DeleteUploadAny.
Delete(k) ==
  /\ k \in KeysOf(rows)
  /\ rows' = {r \in rows : r.key # k}
  /\ UNCHANGED replies

Call(w, scope) ==
  /\ replies[w] = NoCall
  /\ replies' = [replies EXCEPT ![w] = [state |-> "called", scope |-> scope, keys |-> {}]]
  /\ UNCHANGED rows

WipeUploads(w) ==
  LET scope == replies[w].scope IN
  /\ replies[w].state = "called"
  /\ rows' = rows \ Inside(scope)
  /\ replies' = [replies EXCEPT ![w] = [state |-> "done", scope |-> scope,
                                        keys |-> KeysOf(Inside(scope))]]

Fail(w) ==
  /\ replies[w].state = "called"
  /\ replies' = [replies EXCEPT ![w].state = "failed"]
  /\ UNCHANGED rows

Return(w) ==
  /\ replies[w].state \in {"done", "failed"}
  /\ replies' = [replies EXCEPT ![w] = NoCall]
  /\ UNCHANGED rows

Crash ==
  /\ replies' = [w \in Wipers |-> NoCall]
  /\ UNCHANGED rows

Next ==
  \/ \E r \in Row : RecordUpload(r)
  \/ \E k \in Keys : Delete(k)
  \/ \E w \in Wipers : (\E s \in Scopes : Call(w, s)) \/ WipeUploads(w) \/ Fail(w) \/ Return(w)
  \/ Crash

Spec == Init /\ [][Next]_<<rows, replies>>
=============================================================================
