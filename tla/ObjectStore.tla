----------------------------- MODULE ObjectStore -----------------------------
(***************************************************************************)
(* What a storage driver that moves the bytes itself promises its callers:  *)
(* every put, delete and get happens at one instant between its call and    *)
(* its return, a put that does not succeed leaves no trace, and what a get  *)
(* returns is a whole body that some put stored.  No file, directory or     *)
(* chunk occurs here.                                                       *)
(***************************************************************************)
EXTENDS Naturals

CONSTANTS
  Keys,     \* object keys
  Bodies,   \* what a client may send: a byte stream that ends
  Length,   \* body |-> its number of bytes
  Caps,     \* the values Constraints.MaxSize takes, 0 for no limit
  Clients,  \* goroutines calling the driver (a bound)
  None      \* no object, no answer

VARIABLES
  objects,  \* key |-> the object a download finds, or None
  calls     \* client |-> the call it is in

\* The object a complete transfer of b makes, and the objects there may be.
Whole(b) == [body |-> b, len |-> Length[b]]
Objects  == {Whole(b) : b \in Bodies}

Puts     == [kind : {"put"}, key : Keys, body : Bodies, cap : Caps]
Lookups  == [kind : {"delete", "get"}, key : Keys]
Requests == Puts \union Lookups
NoCall   == [state |-> "idle", request |-> None, answer |-> None]

Fits(r) == r.cap = 0 \/ Length[r.body] <= r.cap

Init ==
  /\ objects = [k \in Keys |-> None]
  /\ calls   = [c \in Clients |-> NoCall]

Call(c, r) ==
  /\ calls[c] = NoCall
  /\ calls' = [calls EXCEPT ![c] = [state |-> "called", request |-> r, answer |-> None]]
  /\ UNCHANGED objects

\* The instant at which the call takes effect.
Apply(c) ==
  LET r == calls[c].request
      Answer(a) == calls' = [calls EXCEPT ![c] =
                                [state |-> "applied", request |-> r, answer |-> a]]
  IN /\ calls[c].state = "called"
     /\ \/ /\ r.kind = "put" /\ Fits(r)
           /\ objects' = [objects EXCEPT ![r.key] = Whole(r.body)]
           /\ Answer(None)
        \/ /\ r.kind = "delete"
           /\ objects' = [objects EXCEPT ![r.key] = None]
           /\ Answer(None)
        \/ /\ r.kind = "get"
           /\ Answer(objects[r.key])
           /\ UNCHANGED objects

Fail(c) ==
  /\ calls[c].state = "called"
  /\ calls' = [calls EXCEPT ![c].state = "failed"]
  /\ UNCHANGED objects

Return(c) ==
  /\ calls[c].state \in {"applied", "failed"}
  /\ calls' = [calls EXCEPT ![c] = NoCall]
  /\ UNCHANGED objects

Crash ==
  /\ calls' = [c \in Clients |-> NoCall]
  /\ UNCHANGED objects

Next ==
  \/ \E c \in Clients : \/ \E r \in Requests : Call(c, r)
                        \/ Apply(c) \/ Fail(c) \/ Return(c)
  \/ Crash

Spec == Init /\ [][Next]_<<objects, calls>>
=============================================================================
