---------------------------- MODULE FsProperties ----------------------------
(* What the fs driver is for, and what its steps must not get wrong. *)
EXTENDS FsDriver

\* The objects a download can find, and the calls as their callers see them.
Linked == [k \in Keys |-> IF entry[k] = None THEN None ELSE data[entry[k]]]
StateOf(pc) ==
  CASE pc = "idle" -> "idle"
    [] pc \in {"stat", "mkdir", "temp", "copy", "remove", "open"} -> "called"
    [] pc \in {"prune", "serve", "done"} -> "applied"
    [] pc \in {"cleanup", "failed"} -> "failed"
Visible == [c \in Clients |->
              [state   |-> StateOf(op[c].pc),
               request |-> op[c].request,
               answer  |-> IF op[c].pc = "serve" THEN data[op[c].file] ELSE op[c].answer]]

Store == INSTANCE ObjectStore WITH objects <- Linked, calls <- Visible

\* A put happens when its file is renamed, a delete when the name is unlinked, a
\* get when the name is opened; whatever else the driver does, fails to do or
\* was doing when the process died changes nothing that a caller can see.
ImplementsObjectStore == Store!Spec

TypeOK ==
  /\ dirs \subseteq Dirs
  /\ entry \in [Keys -> Files \union {None}]
  /\ temps \in [Files -> Dirs \union {None}]
  /\ data \in [Files -> Contents \union {None}]
  /\ op \in [Clients -> Ops]
  /\ pruned \subseteq Clients
  /\ crashes \in 0 .. MaxCrashes /\ lost \in 0 .. MaxLost

\* The comment of writeObject: a failed transfer never leaves a partial object
\* visible - nor does a body that runs past its limit, a client that stalls or
\* a restart.  The limits are those below the largest int64: one past that one is
\* negative, the copy reads nothing, and an empty object is linked.
LinkedFilesAreWhole == \A k \in Keys : entry[k] # None => Linked[k] \in Store!Objects

\* An upload that holds a temp file.
Writing(c) == op[c].pc \in {"copy", "cleanup"}

\* The best-effort prune of DeleteObject never reaches a file, whoever is about
\* to put one into the directory meanwhile: the name of an object goes only by
\* the deletion of that object, and a temp name only by the upload it is for.
NamesGoByTheirOwners ==
  [][/\ \A k \in Keys : entry[k] # None /\ entry'[k] = None =>
          \E c \in Clients : op[c].pc = "remove" /\ Key(c) = k /\ op'[c].pc = "prune"
     /\ \A f \in Files : temps[f] # None /\ temps'[f] = None =>
          \E c \in Clients : Writing(c) /\ op[c].file = f /\ op'[c].file = None]_vars

\* The deferred Remove of writeObject runs on every way out of it: a temp file
\* that no upload is writing is one that a restart cut off, at most one per
\* upload in flight then, or one whose removal itself failed.
Strays == {f \in Files : temps[f] # None /\ \A c \in Clients : op[c].file # f}
StrayTempsHaveACause == Cardinality(Strays) <= crashes * Cardinality(Clients) + lost

\* An upload misses a directory only when a delete pruned it after MkdirAll had
\* found or made it: no other upload can pull it away.
DirectoryMissingOnlyByPrune == \A c \in Clients : op[c].cause = "dir" => c \in pruned
-----------------------------------------------------------------------------
\* The inductive invariant.  What a call holds fits the step it is at; todo is
\* the chain of missing levels down to the object's directory.
Chain(todo, d) ==
  /\ todo # <<>> => todo[Len(todo)] = d
  /\ \A i \in 2 .. Len(todo) : Parent[todo[i]] = todo[i - 1]
CallOK(o) ==
  /\ o.pc = "idle" => o = Idle
  /\ o.pc # "idle" => o.request \in Requests
  /\ o.pc \in {"stat", "mkdir", "temp", "copy", "cleanup"} => o.request \in Puts
  /\ o.pc \in {"remove", "prune"} => o.request.kind = "delete"
  /\ o.pc \in {"open", "serve"} => o.request.kind = "get"
  /\ o.file # None <=> o.pc \in {"copy", "cleanup", "serve"}
  /\ o.answer # None => o.pc = "done"
  /\ IF o.pc \in {"stat", "mkdir"} THEN Chain(o.todo, DirOf[o.request.key]) ELSE o.todo = <<>>
  /\ o.pc = "mkdir" => o.todo # <<>>

\* A file being written has a temp name, no other name and no other user; a
\* file being served has no temp name and is whole, unless some limit overflows.
Complete == IF MaxInt \in Caps THEN Contents ELSE Store!Objects
FileOK(c) ==
  /\ Writing(c) => /\ temps[op[c].file] = Dir(c)
                   /\ \A k \in Keys : entry[k] # op[c].file
                   /\ \A b \in Clients \ {c} : op[b].file # op[c].file
                   /\ data[op[c].file] \in Contents
                   /\ data[op[c].file].body = Body(c)
                   /\ data[op[c].file].len <= Reads(c)
  /\ op[c].pc = "serve" => /\ temps[op[c].file] = None
                           /\ data[op[c].file] \in Complete
LinkOK(k) == entry[k] # None => /\ temps[entry[k]] = None
                                /\ data[entry[k]] \in Complete

\* The directory a put stands on exists unless a delete pruned it.
Footing(c) ==
  /\ op[c].cause = "dir" => c \in pruned
  /\ op[c].pc = "temp" => Exists(Dir(c)) \/ c \in pruned
  /\ op[c].pc = "mkdir" => Exists(Parent[Head(op[c].todo)]) \/ c \in pruned

\* Every name keeps the directories that lead to it.
TreeOK ==
  /\ \A k \in Keys : entry[k] # None => DirOf[k] \in dirs
  /\ \A f \in Files : temps[f] # None => temps[f] \in dirs
  /\ \A d \in dirs : Exists(Parent[d])

FsInv ==
  /\ TypeOK
  /\ \A c \in Clients : CallOK(op[c]) /\ FileOK(c) /\ Footing(c)
  /\ \A k \in Keys : LinkOK(k)
  /\ TreeOK
=============================================================================
