-------------------------- MODULE UploadsProperties --------------------------
(* What the uploads table promises its handlers and their clients. *)
EXTENDS UploadsTable

\* The transactions as the handlers that called WipeUploads see them.
StateOf(pc) == IF pc \in {"begun", "selected", "deleting"} THEN "called" ELSE pc
Replies == [w \in Wipers |->
              [state |-> StateOf(wipe[w].pc),
               scope |-> wipe[w].scope,
               keys  |-> IF wipe[w].pc = "done" THEN wipe[w].keys ELSE {}]]

Content(r) == [key |-> r.key, owner |-> r.owner, at |-> r.at]
Table == {Content(r) : r \in rows}

Abstract == INSTANCE UploadStore WITH rows <- Table, replies <- Replies

\* The comment of WipeUploads: the keys returned are exactly the rows removed.
\* Whatever other handlers insert, delete, wipe or touch between its statements,
\* a wipe that succeeds removes the rows of its scope and names them at one
\* instant, and one that fails removes none.
ImplementsUploadStore == Abstract!Spec

\* Types; one row per key, so that the table is a function of it.
TypeOK ==
  /\ rows \subseteq Row
  /\ \A r, s \in rows : r.key = s.key => r = s
  /\ wipe \in [Wipers -> Txs]
  /\ inserts \in 0 .. MaxInserts

\* A client that pages through a listing to its end misses a row that was there
\* all the time at most once per row removed behind it; if it stops at the total
\* also once per row inserted between the count and the page of its last answer.
WalkMissesBounded ==
  walk.pc = "done" =>
    Cardinality(walk.stable \ walk.seen)
      <= walk.deleted + (IF walk.stop = "total" THEN walk.slipped ELSE 0)

\* It is shown a row twice at most once per row inserted since its first page.
WalkRepeatsBounded == walk.pc \in {"asking", "counted", "done"} => walk.repeats <= walk.inserted
-----------------------------------------------------------------------------
\* The inductive invariant: the keys of a snapshot that is still current, and of
\* a transaction that holds the lock, are those of the committed table; and no
\* two transactions hold it.
SnapshotsAgree ==
  \A w \in Wipers :
    (wipe[w].pc = "selected" /\ wipe[w].fresh) \/ wipe[w].pc = "deleting"
      => wipe[w].keys = KeysOf(Matching(wipe[w].scope))
OneWriter ==
  \A v, w \in Wipers : wipe[v].pc = "deleting" /\ wipe[w].pc = "deleting" => v = w

TableInv == TypeOK /\ SnapshotsAgree /\ OneWriter
-----------------------------------------------------------------------------
\* The inductive invariant of a walk.  Between two pages every stable row is
\* still listed, the count is behind the table by what slipped in, and
\* two debts are within the tallies of the client: the rows that moved ahead of it
\* after it saw them, and the stable rows that moved behind it unseen.
RowidsDistinct == \A r, s \in rows : r.id = s.id => r = s

Walks == [pc : {"asking", "counted", "done"}, scope : Scopes, plan : Plans,
          limit : PageLimits, stop : {"short", "total"}, offset : Nat, total : Nat,
          seen : SUBSET Keys, stable : SUBSET Keys, repeats : Nat, inserted : Nat,
          deleted : Nat, slipped : Nat]

Place(r) == Position(walk.scope, walk.plan, r)
SeenAhead ==
  {r \in Matching(walk.scope) : r.key \in walk.seen /\ Place(r) >= walk.offset}
UnseenBehind ==
  {r \in Matching(walk.scope) :
     /\ r.key \in walk.stable /\ r.key \notin walk.seen
     /\ Place(r) < walk.offset}

WalkDebts ==
  /\ walk.stable \subseteq KeysOf(Matching(walk.scope))
  /\ walk.offset = 0 => walk.seen = {} /\ walk.stable = {}
  /\ walk.repeats + Cardinality(SeenAhead) <= walk.inserted
  /\ Cardinality(UnseenBehind) <= walk.deleted
  /\ walk.pc = "counted" => Cardinality(Matching(walk.scope)) <= walk.total + walk.slipped

WalkInv ==
  /\ IsFiniteSet(rows) /\ RowidsDistinct
  /\ walk.pc = "idle" \/ walk \in Walks
  /\ walk.pc \in {"asking", "counted"} => WalkDebts
  /\ walk.pc = "done" => WalkMissesBounded /\ WalkRepeatsBounded
=============================================================================
