------------------------------ MODULE FsDriver ------------------------------
(***************************************************************************)
(* The fs storage driver, one system call at a time: a put makes the        *)
(* object's directories, copies the body into a temp file beside the object *)
(* and renames it; a delete unlinks the object and prunes its directory; a  *)
(* get opens the object and reads it.  Any number of them run at once, the  *)
(* client may break off its body, a call may fail, and the process may die  *)
(* between any two steps, leaving the tree as it is.                        *)
(*                                                                          *)
(* Not modelled: a loss of power (nothing is synced; what of the tree       *)
(* survives is up to the file system), an error of the temp file's Close,   *)
(* and a temp name drawn again while a finished put of the same directory   *)
(* still has it to remove.                                                  *)
(*                                                                          *)
(* MakeOneLevel, OpenInPlace, InDefaultDir, ReadsUpToCap, KeepTemp and       *)
(* RemoveAll are not part of the system: each is the plausible slip that    *)
(* the definition below it avoids.                                          *)
(***************************************************************************)
EXTENDS Naturals, Sequences, FiniteSets

CONSTANTS
  Keys,       \* object keys
  Dirs,       \* the directories below the root that keys lie in
  Root,       \* the driver's root, made at start and never removed
  DirOf,      \* key |-> the directory of its file
  Parent,     \* directory |-> the directory it lies in
  Bodies,     \* what a client may send
  Length,     \* body |-> its number of bytes
  Caps,       \* signed size limits, 0 for none
  Clients,    \* goroutines calling the driver (a bound)
  Files,      \* inodes (a bound)
  MaxInt,     \* largest value of an int64
  MaxCrashes, \* bound on restarts of the process
  MaxLost,    \* bound on failing removals of a temp file
  None

\* What a caller asks for, and what a file holds: the first len bytes of a body.
Puts     == [kind : {"put"}, key : Keys, body : Bodies, cap : Caps]
Lookups  == [kind : {"delete", "get"}, key : Keys]
Requests == Puts \union Lookups
Contents == [body : Bodies, len : Nat]

ASSUME TreeAssumption   == /\ Root \notin Dirs
                           /\ DirOf \in [Keys -> Dirs]
                           /\ Parent \in [Dirs -> Dirs \union {Root}]
ASSUME BodiesAssumption == /\ Length \in [Bodies -> Nat]
                           /\ MaxInt \in Nat \ {0}
                           /\ Caps \subseteq 0 .. MaxInt
ASSUME FilesAssumption  == IsFiniteSet(Clients) /\ IsFiniteSet(Files)
ASSUME FaultAssumption  == MaxCrashes \in Nat /\ MaxLost \in Nat
ASSUME AbsentAssumption == None \notin Files \union Dirs \union Requests \union Contents

VARIABLES
  dirs,     \* directories below the root that exist
  entry,    \* key |-> the file its name links to, or None
  temps,    \* file |-> the directory in which a temp name links to it, or None
  data,     \* file |-> what it holds, None if it was never written
  op,       \* client |-> the call it is in
  pruned,   \* history: puts that a delete pruned a directory of meanwhile
  crashes,  \* restarts so far
  lost      \* removals of a temp file that failed so far

vars == <<dirs, entry, temps, data, op, pruned, crashes, lost>>

\* stat, mkdir: in MkdirAll, todo the levels found missing, topmost first.
\* temp: before CreateTemp.  copy: file is the open temp file.  cleanup: the
\* deferred Remove of a put that failed.  remove, prune: a delete.  open,
\* serve: a get, file the open object.  done, failed: before the return.
Phases == {"idle", "stat", "mkdir", "temp", "copy", "cleanup", "remove", "prune",
           "open", "serve", "done", "failed"}

Ops == [pc : Phases, request : Requests \union {None}, todo : Seq(Dirs),
        file : Files \union {None}, answer : Contents \union {None},
        cause : {"none", "io", "size", "dir"}]

Started(pc, r) == [pc |-> pc, request |-> r, todo |-> <<>>, file |-> None,
                   answer |-> None, cause |-> "none"]
Idle == Started("idle", None)

Init ==
  /\ dirs    = {}
  /\ entry   = [k \in Keys |-> None]
  /\ temps   = [f \in Files |-> None]
  /\ data    = [f \in Files |-> None]
  /\ op      = [c \in Clients |-> Idle]
  /\ pruned  = {}
  /\ crashes = 0
  /\ lost    = 0

Exists(d) == d = Root \/ d \in dirs
Key(c)    == op[c].request.key
Body(c)   == op[c].request.body
Cap(c)    == op[c].request.cap
Dir(c)    == DirOf[Key(c)]

Enter(c, o)   == op' = [op EXCEPT ![c] = o]
Goto(c, pc)   == Enter(c, [op[c] EXCEPT !.pc = pc])
FailAt(c, pc, cause) == Enter(c, [op[c] EXCEPT !.pc = pc, !.todo = <<>>, !.cause = cause])
-----------------------------------------------------------------------------
Call(c, r, pc) ==
  /\ op[c] = Idle
  /\ Enter(c, Started(pc, r))
  /\ UNCHANGED <<dirs, entry, temps, data, pruned, crashes, lost>>

\* writeObject, DeleteObject and DownloadHandler.
Put(c, r)    == r \in Puts /\ Call(c, r, "stat")
Delete(c, r) == r \in Lookups /\ r.kind = "delete" /\ Call(c, r, "remove")
Get(c, r)    == r \in Lookups /\ r.kind = "get" /\ Call(c, r, "open")

Return(c) ==
  /\ op[c].pc \in {"done", "failed"}
  /\ Enter(c, Idle)
  /\ pruned' = pruned \ {c}
  /\ UNCHANGED <<dirs, entry, temps, data, crashes, lost>>
-----------------------------------------------------------------------------
\* MkdirAll: look for the deepest level that exists, from the object's
\* directory upwards ...
Missing(c) == IF op[c].todo = <<>> THEN Dir(c) ELSE Parent[Head(op[c].todo)]
Stat(c) ==
  /\ op[c].pc = "stat"
  /\ \/ /\ ~Exists(Missing(c))
        /\ Enter(c, [op[c] EXCEPT !.todo = <<Missing(c)>> \o @])
     \/ /\ Exists(Missing(c))
        /\ Goto(c, IF op[c].todo = <<>> THEN "temp" ELSE "mkdir")
  /\ UNCHANGED <<dirs, entry, temps, data, pruned, crashes, lost>>

\* ... then make the levels below it; one that appeared meanwhile will do, one
\* whose parent is gone meanwhile fails the put.
Descend(c) == Enter(c, [op[c] EXCEPT !.todo = Tail(@),
                                     !.pc = IF Len(op[c].todo) = 1 THEN "temp" ELSE "mkdir"])
MakeOneLevel(c) ==
  /\ op[c].pc = "mkdir"
  /\ LET d == Dir(c) IN
     \/ Exists(Parent[d]) /\ dirs' = dirs \union {d} /\ Goto(c, "temp")
     \/ ~Exists(Parent[d]) /\ FailAt(c, "failed", "dir") /\ UNCHANGED dirs
  /\ UNCHANGED <<entry, temps, data, pruned, crashes, lost>>
Mkdir(c) ==
  /\ op[c].pc = "mkdir"
  /\ LET d == Head(op[c].todo) IN
     \/ Exists(Parent[d]) /\ dirs' = dirs \union {d} /\ Descend(c)
     \/ ~Exists(Parent[d]) /\ FailAt(c, "failed", "dir") /\ UNCHANGED dirs
  /\ UNCHANGED <<entry, temps, data, pruned, crashes, lost>>

\* CreateTemp, under a name of its own in the object's directory.
Free(f) == temps[f] = None /\ (\A k \in Keys : entry[k] # f) /\ (\A c \in Clients : op[c].file # f)
OpenInPlace(c, f) ==
  /\ op[c].pc = "temp" /\ Free(f) /\ Exists(Dir(c))
  /\ entry' = [entry EXCEPT ![Key(c)] = f]
  /\ temps' = [temps EXCEPT ![f] = Dir(c)]
  /\ data'  = [data EXCEPT ![f] = [body |-> Body(c), len |-> 0]]
  /\ Enter(c, [op[c] EXCEPT !.pc = "copy", !.file = f])
  /\ UNCHANGED <<dirs, pruned, crashes, lost>>
InDefaultDir(c, f) ==
  /\ op[c].pc = "temp" /\ Free(f)
  /\ temps' = [temps EXCEPT ![f] = Root]
  /\ data'  = [data EXCEPT ![f] = [body |-> Body(c), len |-> 0]]
  /\ Enter(c, [op[c] EXCEPT !.pc = "copy", !.file = f])
  /\ UNCHANGED <<dirs, entry, pruned, crashes, lost>>
CreateTemp(c, f) ==
  /\ op[c].pc = "temp" /\ Free(f) /\ Exists(Dir(c))
  /\ temps' = [temps EXCEPT ![f] = Dir(c)]
  /\ data'  = [data EXCEPT ![f] = [body |-> Body(c), len |-> 0]]
  /\ Enter(c, [op[c] EXCEPT !.pc = "copy", !.file = f])
  /\ UNCHANGED <<dirs, entry, pruned, crashes, lost>>

NoDirectory(c) ==
  /\ op[c].pc = "temp" /\ ~Exists(Dir(c))
  /\ FailAt(c, "failed", "dir")
  /\ UNCHANGED <<dirs, entry, temps, data, pruned, crashes, lost>>

\* io.Copy reads up to one byte past the limit, so as to tell a body that ends
\* at the limit from one that goes on.  One past the largest int64 is negative,
\* and under a negative limit LimitReader reads nothing.
Limit(c) == IF Cap(c) = MaxInt THEN 0 ELSE Cap(c) + 1
ReadsUpToCap(c) == IF Cap(c) = 0 \/ Length[Body(c)] <= Cap(c) THEN Length[Body(c)] ELSE Cap(c)
Reads(c) == IF Cap(c) = 0 \/ Length[Body(c)] <= Limit(c) THEN Length[Body(c)] ELSE Limit(c)
Copied(c) == data[op[c].file].len
TooLarge(c) == Cap(c) > 0 /\ Copied(c) > Cap(c)

Copy(c) ==
  /\ op[c].pc = "copy" /\ Copied(c) < Reads(c)
  /\ data' = [data EXCEPT ![op[c].file].len = @ + 1]
  /\ UNCHANGED <<dirs, entry, temps, op, pruned, crashes, lost>>

RejectTooLarge(c) ==
  /\ op[c].pc = "copy" /\ Copied(c) = Reads(c) /\ TooLarge(c)
  /\ FailAt(c, "cleanup", "size")
  /\ UNCHANGED <<dirs, entry, temps, data, pruned, crashes, lost>>

\* The rename replaces what the name linked to.  The deferred Remove then finds
\* no temp name.
Rename(c) ==
  /\ op[c].pc = "copy" /\ Copied(c) = Reads(c) /\ ~TooLarge(c)
  /\ temps[op[c].file] # None
  /\ entry' = [entry EXCEPT ![Key(c)] = op[c].file]
  /\ temps' = [temps EXCEPT ![op[c].file] = None]
  /\ Enter(c, [op[c] EXCEPT !.pc = "done", !.file = None])
  /\ UNCHANGED <<dirs, data, pruned, crashes, lost>>

\* The client breaks off, the disk is full, a call fails, the temp name is gone.
PutFails(c) ==
  /\ \/ op[c].pc \in {"stat", "mkdir", "temp"} /\ FailAt(c, "failed", "io")
     \/ op[c].pc = "copy" /\ FailAt(c, "cleanup", "io")
  /\ UNCHANGED <<dirs, entry, temps, data, pruned, crashes, lost>>

\* The deferred Remove of the temp file; an error of its own is ignored.
KeepTemp(c) ==
  /\ op[c].pc = "cleanup"
  /\ Enter(c, [op[c] EXCEPT !.pc = "failed", !.file = None])
  /\ UNCHANGED <<dirs, entry, temps, data, pruned, crashes, lost>>
Cleanup(c) ==
  /\ op[c].pc = "cleanup"
  /\ \/ temps' = [temps EXCEPT ![op[c].file] = None] /\ UNCHANGED lost
     \/ lost < MaxLost /\ lost' = lost + 1 /\ UNCHANGED temps
  /\ Enter(c, [op[c] EXCEPT !.pc = "failed", !.file = None])
  /\ UNCHANGED <<dirs, entry, data, pruned, crashes>>
-----------------------------------------------------------------------------
\* DeleteObject: a missing file is no error.
Remove(c) ==
  /\ op[c].pc = "remove"
  /\ \/ entry' = [entry EXCEPT ![Key(c)] = None] /\ Goto(c, "prune")
     \/ FailAt(c, "failed", "io") /\ UNCHANGED entry
  /\ UNCHANGED <<dirs, temps, data, pruned, crashes, lost>>

\* rmdir of the object's directory fails unless it is empty, and may fail then
\* too; its error is ignored.  RemoveAll would take what lies in it along.
IsEmpty(d) == /\ \A e \in dirs : Parent[e] # d
              /\ \A k \in Keys : DirOf[k] = d => entry[k] = None
              /\ \A f \in Files : temps[f] # d
\* The puts that found or made d and are about to create something in it.
Counting(d) == {c \in Clients : \/ op[c].pc = "temp" /\ d = Dir(c)
                                \/ op[c].pc = "mkdir" /\ d = Parent[Head(op[c].todo)]}
RemoveAll(c) ==
  LET gone == {d \in dirs : d = Dir(c) \/ Parent[d] = Dir(c)} IN
  /\ op[c].pc = "prune"
  /\ dirs' = dirs \ gone /\ pruned' = pruned \union UNION {Counting(d) : d \in gone}
  /\ entry' = [k \in Keys |-> IF DirOf[k] \in gone THEN None ELSE entry[k]]
  /\ temps' = [f \in Files |-> IF temps[f] \in gone THEN None ELSE temps[f]]
  /\ Goto(c, "done")
  /\ UNCHANGED <<data, crashes, lost>>
Prune(c) ==
  /\ op[c].pc = "prune"
  /\ \/ /\ IsEmpty(Dir(c))
        /\ dirs' = dirs \ {Dir(c)} /\ pruned' = pruned \union Counting(Dir(c))
     \/ UNCHANGED <<dirs, pruned>>
  /\ Goto(c, "done")
  /\ UNCHANGED <<entry, temps, data, crashes, lost>>
-----------------------------------------------------------------------------
\* DownloadHandler: a name that links to nothing is a 404, and so is an Open
\* that fails; an open file stays readable whatever happens to its name.
Open(c) ==
  /\ op[c].pc = "open"
  /\ \/ entry[Key(c)] = None /\ Goto(c, "done")
     \/ entry[Key(c)] # None /\ Enter(c, [op[c] EXCEPT !.pc = "serve", !.file = entry[Key(c)]])
     \/ FailAt(c, "failed", "io")
  /\ UNCHANGED <<dirs, entry, temps, data, pruned, crashes, lost>>

ServeContent(c) ==
  /\ op[c].pc = "serve"
  /\ Enter(c, [op[c] EXCEPT !.pc = "done", !.file = None, !.answer = data[op[c].file]])
  /\ UNCHANGED <<dirs, entry, temps, data, pruned, crashes, lost>>
-----------------------------------------------------------------------------
Crash ==
  /\ crashes < MaxCrashes
  /\ crashes' = crashes + 1
  /\ op' = [c \in Clients |-> Idle]
  /\ pruned' = {}
  /\ UNCHANGED <<dirs, entry, temps, data, lost>>

Next ==
  \/ \E c \in Clients :
       \/ \E r \in Requests : Put(c, r) \/ Delete(c, r) \/ Get(c, r)
       \/ Return(c) \/ Stat(c) \/ Mkdir(c)
       \/ \E f \in Files : CreateTemp(c, f)
       \/ NoDirectory(c) \/ Copy(c) \/ RejectTooLarge(c) \/ Rename(c)
       \/ PutFails(c) \/ Cleanup(c) \/ Remove(c) \/ Prune(c) \/ Open(c) \/ ServeContent(c)
  \/ Crash

Spec == Init /\ [][Next]_vars
=============================================================================
