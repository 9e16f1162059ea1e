------------------------------ MODULE FsProofs ------------------------------
(***************************************************************************)
(* Proofs about the fs driver, for every tree of directories, every set of  *)
(* bodies and limits and any number of clients: its invariant, the bound on *)
(* stray temp files, and that it implements the object store.               *)
(***************************************************************************)
EXTENDS FsProperties, FiniteSetTheorems, SequenceTheorems, TLAPS

\* The absent value is none of the things it stands for.
LEMMA AbsentIsAbsent ==
  /\ None \notin Files /\ None \notin Dirs
  /\ None \notin Requests /\ None \notin Contents
  BY AbsentAssumption DEF Contents, Requests, Puts, Lookups

LEMMA CapsAreNumbers == Caps \subseteq Nat
  BY BodiesAssumption

\* A step of one client moves its call and leaves the others.
LEMMA OneCallMoves ==
  ASSUME op \in [Clients -> Ops], NEW c \in Clients, NEW o \in Ops, Enter(c, o)
  PROVE  /\ op' \in [Clients -> Ops]
         /\ op'[c] = o
         /\ \A b \in Clients \ {c} : op'[b] = op[b]
  BY DEF Enter

\* The steps of one client.
Step(c) ==
  \/ \E r \in Requests : Put(c, r) \/ Delete(c, r) \/ Get(c, r)
  \/ Return(c) \/ Stat(c) \/ Mkdir(c)
  \/ \E f \in Files : CreateTemp(c, f)
  \/ NoDirectory(c) \/ Copy(c) \/ RejectTooLarge(c) \/ Rename(c)
  \/ PutFails(c) \/ Cleanup(c) \/ Remove(c) \/ Prune(c) \/ Open(c) \/ ServeContent(c)

\* The chain of missing levels grows upwards by the parent of its head ...
LEMMA ChainGrows ==
  ASSUME NEW todo \in Seq(Dirs), NEW d \in Dirs, Chain(todo, d),
         NEW e \in Dirs, e = IF todo = <<>> THEN d ELSE Parent[Head(todo)]
  PROVE  <<e>> \o todo \in Seq(Dirs) /\ Chain(<<e>> \o todo, d)
<1> DEFINE t == <<e>> \o todo
<1>1. t \in Seq(Dirs) /\ Len(t) = Len(todo) + 1 /\ t[1] = e
      /\ \A i \in 2 .. Len(t) : t[i] = todo[i - 1]
  OBVIOUS
<1>2. t[Len(t)] = d
  BY <1>1 DEF Chain
<1>3. ASSUME NEW i \in 2 .. Len(t) PROVE Parent[t[i]] = t[i - 1]
  <2>1. CASE i = 2
    BY <1>1, <2>1
  <2>2. CASE i > 2
    <3>1. i - 1 \in 2 .. Len(todo) /\ i - 1 \in 2 .. Len(t)
      BY <1>1, <2>2
    <3>2. t[i] = todo[i - 1] /\ t[i - 1] = todo[(i - 1) - 1]
      BY <1>1, <3>1
    <3>3. QED
      BY <3>1, <3>2 DEF Chain
  <2>3. QED
    BY <2>1, <2>2
<1>4. QED
  BY <1>1, <1>2, <1>3 DEF Chain

\* ... and is worked off from the top, each level the parent of the next.
LEMMA ChainShrinks ==
  ASSUME NEW todo \in Seq(Dirs), NEW d \in Dirs, Chain(todo, d), todo # <<>>
  PROVE  /\ Tail(todo) \in Seq(Dirs) /\ Chain(Tail(todo), d)
         /\ Head(todo) \in Dirs /\ Len(todo) \in Nat \ {0}
         /\ Len(todo) = 1 => Head(todo) = d /\ Tail(todo) = <<>>
         /\ Len(todo) # 1 => Tail(todo) # <<>> /\ Parent[Head(Tail(todo))] = Head(todo)
<1> DEFINE t == Tail(todo)
<1>1. t \in Seq(Dirs) /\ Len(t) = Len(todo) - 1 /\ Len(todo) \in Nat \ {0}
      /\ (\A i \in 1 .. Len(t) : t[i] = todo[i + 1]) /\ Head(todo) = todo[1]
  OBVIOUS
<1>2. Chain(t, d)
  <2>1. t # <<>> => t[Len(t)] = d
    BY <1>1 DEF Chain
  <2>2. ASSUME NEW i \in 2 .. Len(t) PROVE Parent[t[i]] = t[i - 1]
    <3>1. i + 1 \in 2 .. Len(todo) /\ t[i] = todo[i + 1] /\ t[i - 1] = todo[(i + 1) - 1]
      BY <1>1
    <3>2. QED
      BY <3>1 DEF Chain
  <2>3. QED
    BY <2>1, <2>2 DEF Chain
<1>3. Head(todo) \in Dirs
  BY <1>1
<1>4. ASSUME Len(todo) = 1 PROVE Head(todo) = d /\ t = <<>>
  <2>1. Head(todo) = d
    BY <1>1, <1>4 DEF Chain
  <2>2. Len(t) = 0
    BY <1>1, <1>4
  <2>3. QED
    BY <1>1, <2>1, <2>2, EmptySeq
<1>5. ASSUME Len(todo) # 1 PROVE t # <<>> /\ Parent[Head(t)] = Head(todo)
  <2>1. t # <<>> /\ Len(t) >= 1 /\ Head(t) = t[1]
    <3>1. Len(t) >= 1
      BY <1>1, <1>5
    <3>2. ASSUME NEW s \in Seq(Dirs), Len(s) >= 1 PROVE s # <<>> /\ Head(s) = s[1]
      BY <3>2
    <3>3. QED
      BY <1>1, <3>1, <3>2
  <2>2. t[1] = todo[2] /\ 2 \in 2 .. Len(todo)
    BY <1>1, <1>5
  <2>3. QED
    BY <2>1, <2>2, <1>1 DEF Chain
<1>6. QED
  BY <1>1, <1>2, <1>3, <1>4, <1>5
-----------------------------------------------------------------------------
\* Every step of a client leaves its call in a state that fits.
LEMMA StartedFits ==
  ASSUME NEW r \in Requests, NEW pc \in {"stat", "remove", "open"},
         pc = "stat" => r \in Puts,
         pc = "remove" => r \in Lookups /\ r.kind = "delete",
         pc = "open" => r \in Lookups /\ r.kind = "get"
  PROVE  Started(pc, r) \in Ops /\ CallOK(Started(pc, r))
<1>1. <<>> \in Seq(Dirs)
  BY EmptySeq
<1>2. Chain(<<>>, DirOf[r.key])
  BY EmptySeq DEF Chain
<1>3. QED
  BY <1>1, <1>2 DEF Started, Ops, Phases, CallOK

LEMMA IdleFits == Idle \in Ops /\ CallOK(Idle)
  BY EmptySeq DEF Idle, Started, Ops, Phases, CallOK

LEMMA FailureFits ==
  ASSUME NEW o \in Ops, CallOK(o), NEW pc \in {"failed", "cleanup"},
         pc = "cleanup" => o.pc = "copy",
         pc = "failed" => o.pc \in {"stat", "mkdir", "temp", "remove", "open"},
         NEW cause \in {"io", "size", "dir"}
  PROVE  LET n == [o EXCEPT !.pc = pc, !.todo = <<>>, !.cause = cause]
         IN  n \in Ops /\ CallOK(n)
  BY EmptySeq DEF Ops, Phases, CallOK

LEMMA CompleteFilesAreContents == Complete \subseteq Contents
  BY BodiesAssumption DEF Complete, Store!Objects, Store!Whole, Contents

LEMMA CallMoves ==
  ASSUME FsInv, NEW c \in Clients, Step(c), ~Copy(c)
  PROVE  \E o \in Ops : Enter(c, o) /\ CallOK(o)
<1> USE DEF Goto
<1>1. op[c] \in Ops /\ CallOK(op[c])
  BY DEF FsInv, TypeOK
<1>2. CASE \E r \in Requests : Put(c, r) \/ Delete(c, r) \/ Get(c, r)
  BY <1>2, StartedFits DEF Put, Delete, Get, Call, Requests
<1>3. CASE Return(c)
  BY <1>3, IdleFits DEF Return
<1>4. CASE Stat(c)
  <2>1. op[c].request.key \in Keys /\ Dir(c) \in Dirs /\ op[c].todo \in Seq(Dirs)
        /\ Chain(op[c].todo, Dir(c)) /\ op[c].pc = "stat"
    BY <1>1, <1>4, TreeAssumption DEF Stat, CallOK, Ops, Puts, Dir, Key
  <2>2. CASE ~Exists(Missing(c)) /\ Enter(c, [op[c] EXCEPT !.todo = <<Missing(c)>> \o @])
    <3>1. Missing(c) \in Dirs
      BY <2>1, <2>2, TreeAssumption DEF Missing, Exists
    <3>2. LET t == <<Missing(c)>> \o op[c].todo IN t \in Seq(Dirs) /\ Chain(t, Dir(c))
      BY <2>1, <3>1, ChainGrows DEF Missing
    <3> DEFINE o == [op[c] EXCEPT !.todo = <<Missing(c)>> \o @]
    <3>3. o \in Ops /\ CallOK(o)
      BY <1>1, <2>1, <3>2 DEF Ops, CallOK, Dir, Key
    <3>4. QED
      BY <2>2, <3>3
  <2>3. CASE Goto(c, IF op[c].todo = <<>> THEN "temp" ELSE "mkdir")
    <3> DEFINE o == [op[c] EXCEPT !.pc = IF op[c].todo = <<>> THEN "temp" ELSE "mkdir"]
    <3>1. o \in Ops /\ CallOK(o)
      BY <1>1, <2>1, <2>3 DEF Ops, CallOK, Phases, Dir, Key
    <3>2. QED
      BY <2>3, <3>1
  <2>4. QED
    BY <1>4, <2>2, <2>3 DEF Stat
<1>5. CASE Mkdir(c)
  <2>1. op[c].request.key \in Keys /\ Dir(c) \in Dirs /\ op[c].todo \in Seq(Dirs)
        /\ Chain(op[c].todo, Dir(c)) /\ op[c].todo # <<>> /\ op[c].pc = "mkdir"
    BY <1>1, <1>5, TreeAssumption DEF Mkdir, CallOK, Ops, Puts, Dir, Key
  <2>2. CASE Descend(c)
    <3>1. LET t == Tail(op[c].todo) IN
            /\ t \in Seq(Dirs) /\ Chain(t, Dir(c))
            /\ Len(op[c].todo) = 1 => t = <<>>
            /\ Len(op[c].todo) # 1 => t # <<>>
      BY <2>1, ChainShrinks
    <3> DEFINE o == [op[c] EXCEPT !.todo = Tail(@),
                                  !.pc = IF Len(op[c].todo) = 1 THEN "temp" ELSE "mkdir"]
    <3>2. o \in Ops /\ CallOK(o)
      BY <1>1, <2>1, <3>1 DEF Ops, CallOK, Phases, Dir, Key
    <3>3. QED
      BY <2>2, <3>2 DEF Descend
  <2>3. CASE FailAt(c, "failed", "dir")
    BY <1>1, <2>1, <2>3, FailureFits DEF FailAt
  <2>4. QED
    BY <1>5, <2>2, <2>3 DEF Mkdir
<1>6. CASE \E f \in Files : CreateTemp(c, f)
  <2>1. PICK f \in Files : CreateTemp(c, f)
    BY <1>6
  <2> DEFINE o == [op[c] EXCEPT !.pc = "copy", !.file = f]
  <2>2. o \in Ops /\ CallOK(o)
    BY <1>1, <2>1, AbsentIsAbsent DEF CreateTemp, Ops, CallOK, Phases
  <2>3. QED
    BY <2>1, <2>2 DEF CreateTemp
<1>7. CASE NoDirectory(c)
  BY <1>1, <1>7, FailureFits DEF NoDirectory, FailAt
<1>8. CASE RejectTooLarge(c)
  BY <1>1, <1>8, FailureFits DEF RejectTooLarge, FailAt
<1>9. CASE Rename(c)
  <2> DEFINE o == [op[c] EXCEPT !.pc = "done", !.file = None]
  <2>1. o \in Ops /\ CallOK(o)
    BY <1>1, <1>9 DEF Rename, Ops, CallOK, Phases
  <2>2. QED
    BY <1>9, <2>1 DEF Rename
<1>10. CASE PutFails(c)
  BY <1>1, <1>10, FailureFits DEF PutFails, FailAt
<1>11. CASE Cleanup(c)
  <2> DEFINE o == [op[c] EXCEPT !.pc = "failed", !.file = None]
  <2>1. o \in Ops /\ CallOK(o)
    BY <1>1, <1>11 DEF Cleanup, Ops, CallOK, Phases
  <2>2. QED
    BY <1>11, <2>1 DEF Cleanup
<1>12. CASE Remove(c)
  <2> DEFINE o == [op[c] EXCEPT !.pc = "prune"]
  <2>1. o \in Ops /\ CallOK(o)
    BY <1>1, <1>12 DEF Remove, Ops, CallOK, Phases
  <2>2. CASE Enter(c, o)
    BY <2>1, <2>2
  <2>3. CASE FailAt(c, "failed", "io")
    BY <1>1, <1>12, <2>3, FailureFits DEF FailAt, Remove
  <2>4. QED
    BY <1>12, <2>2, <2>3 DEF Remove
<1>13. CASE Prune(c)
  <2> DEFINE o == [op[c] EXCEPT !.pc = "done"]
  <2>1. o \in Ops /\ CallOK(o)
    BY <1>1, <1>13 DEF Prune, Ops, CallOK, Phases
  <2>2. QED
    BY <1>13, <2>1 DEF Prune
<1>14. CASE Open(c)
  <2> DEFINE o == [op[c] EXCEPT !.pc = "done"]
             n == [op[c] EXCEPT !.pc = "serve", !.file = entry[Key(c)]]
  <2>1. o \in Ops /\ CallOK(o)
    BY <1>1, <1>14 DEF Open, Ops, CallOK, Phases
  <2>2. entry[Key(c)] \in Files \union {None}
    BY <1>1, <1>14 DEF FsInv, TypeOK, Open, CallOK, Key, Requests, Puts, Lookups
  <2>3. entry[Key(c)] # None => n \in Ops /\ CallOK(n)
    BY <1>1, <1>14, <2>2 DEF Open, Ops, CallOK, Phases
  <2>4. CASE FailAt(c, "failed", "io")
    BY <1>1, <1>14, <2>4, FailureFits DEF FailAt, Open
  <2>5. QED
    BY <1>14, <2>1, <2>3, <2>4 DEF Open
<1>15. CASE ServeContent(c)
  <2>1. data[op[c].file] \in Contents
    BY <1>15, CompleteFilesAreContents DEF FsInv, FileOK, ServeContent
  <2> DEFINE o == [op[c] EXCEPT !.pc = "done", !.file = None, !.answer = data[op[c].file]]
  <2>2. o \in Ops /\ CallOK(o)
    BY <1>1, <1>15, <2>1 DEF ServeContent, Ops, CallOK, Phases
  <2>3. QED
    BY <1>15, <2>2 DEF ServeContent
<1>16. QED
  BY <1>2, <1>3, <1>4, <1>5, <1>6, <1>7, <1>8, <1>9, <1>10, <1>11, <1>12, <1>13, <1>14, <1>15 DEF Step

\* What a step does to the tree, whatever it does to the call.
LEMMA TreeTypes ==
  ASSUME FsInv, NEW c \in Clients, Step(c)
  PROVE  /\ dirs' \subseteq Dirs
         /\ entry' \in [Keys -> Files \union {None}]
         /\ temps' \in [Files -> Dirs \union {None}]
         /\ data' \in [Files -> Contents \union {None}]
         /\ pruned' \subseteq Clients
         /\ crashes' = crashes /\ lost' \in 0 .. MaxLost
<1>1. TypeOK /\ op[c] \in Ops /\ CallOK(op[c]) /\ FileOK(c)
  BY DEF FsInv, TypeOK
<1>2. op[c].request # None => Key(c) \in Keys /\ Dir(c) \in Dirs
  BY <1>1, TreeAssumption DEF Ops, Key, Dir, Requests, Puts, Lookups
<1>3. op[c].request \in Puts => Body(c) \in Bodies
  BY DEF Puts, Body
<1>4. op[c].pc # "idle" => op[c].request # None
  BY <1>1, AbsentIsAbsent DEF CallOK
<1>5. CASE UNCHANGED <<dirs, entry, temps, data, pruned, crashes, lost>>
  BY <1>1, <1>5 DEF TypeOK
<1>6. CASE Return(c)
  BY <1>1, <1>6 DEF TypeOK, Return
<1>7. CASE Mkdir(c)
  <2>1. Head(op[c].todo) \in Dirs
    BY <1>1, <1>2, <1>4, <1>7, ChainShrinks DEF CallOK, Ops, Mkdir, Dir, Key
  <2>2. QED
    BY <1>1, <1>7, <2>1 DEF TypeOK, Mkdir
<1>8. CASE \E f \in Files : CreateTemp(c, f)
  BY <1>1, <1>2, <1>3, <1>4, <1>8 DEF TypeOK, CreateTemp, CallOK, Contents
<1>9. CASE Copy(c)
  <2>1. op[c].file \in Files /\ data[op[c].file] \in Contents
    BY <1>1, <1>9, AbsentIsAbsent DEF Copy, CallOK, FileOK, Writing, Ops
  <2>2. [data[op[c].file] EXCEPT !.len = @ + 1] \in Contents
    BY <2>1 DEF Contents
  <2>3. QED
    BY <1>1, <1>9, <2>1, <2>2 DEF TypeOK, Copy
<1>10. CASE Rename(c)
  BY <1>1, <1>2, <1>4, <1>10 DEF TypeOK, Rename, Ops
<1>11. CASE Cleanup(c)
  <2>1. lost' \in 0 .. MaxLost
    BY <1>1, <1>11, FaultAssumption DEF TypeOK, Cleanup
  <2>2. QED
    BY <1>1, <1>11, <2>1 DEF TypeOK, Cleanup
<1>12. CASE Remove(c)
  BY <1>1, <1>12 DEF TypeOK, Remove
<1>13. CASE Prune(c)
  BY <1>1, <1>13 DEF TypeOK, Prune, Counting
<1>14. QED
  BY <1>5, <1>6, <1>7, <1>8, <1>9, <1>10, <1>11, <1>12, <1>13
     DEF Step, Put, Delete, Get, Call, Stat, NoDirectory, RejectTooLarge, PutFails, Open, ServeContent

LEMMA TypeStep ==
  ASSUME FsInv, [Next]_vars
  PROVE  TypeOK' /\ \A c \in Clients : CallOK(op'[c])
<1>1. TypeOK /\ \A c \in Clients : CallOK(op[c])
  BY DEF FsInv
<1>2. ASSUME NEW c \in Clients, Step(c), ~Copy(c)
      PROVE  TypeOK' /\ \A b \in Clients : CallOK(op'[b])
  <2>1. PICK o \in Ops : Enter(c, o) /\ CallOK(o)
    BY <1>2, CallMoves
  <2>2. op' \in [Clients -> Ops] /\ op'[c] = o /\ \A b \in Clients \ {c} : op'[b] = op[b]
    BY <1>1, <2>1, OneCallMoves DEF TypeOK
  <2>3. TypeOK'
    BY <1>1, <1>2, <2>2, TreeTypes DEF TypeOK
  <2>4. ASSUME NEW b \in Clients PROVE CallOK(op'[b])
    BY <1>1, <2>1, <2>2
  <2>5. QED
    BY <2>3, <2>4
<1>3. ASSUME NEW c \in Clients, Copy(c)
      PROVE  TypeOK' /\ \A b \in Clients : CallOK(op'[b])
  <2>1. op' = op
    BY <1>3 DEF Copy
  <2>2. TypeOK'
    BY <1>1, <1>3, <2>1, TreeTypes DEF TypeOK, Step
  <2>3. QED
    BY <1>1, <2>1, <2>2
<1>4. CASE Crash
  <2>1. TypeOK'
    BY <1>1, <1>4, IdleFits, FaultAssumption DEF TypeOK, Crash
  <2>2. QED
    BY <1>4, <2>1, IdleFits DEF Crash
<1>5. CASE UNCHANGED vars
  BY <1>1, <1>5 DEF vars, TypeOK
<1>6. QED
  BY <1>2, <1>3, <1>4, <1>5 DEF Next, Step
-----------------------------------------------------------------------------
\* Nobody's file changes in a step that touches no name and no bytes and leaves
\* the client without a file.
LEMMA FilesStay ==
  ASSUME FsInv, NEW c \in Clients, UNCHANGED <<entry, temps, data>>,
         \A b \in Clients \ {c} : op'[b] = op[b],
         CallOK(op'[c]), op'[c].pc \notin {"copy", "cleanup", "serve"}
  PROVE  (\A b \in Clients : FileOK(b)') /\ \A k \in Keys : LinkOK(k)'
<1>1. op'[c].file = None
  BY DEF CallOK
<1>2. ASSUME NEW b \in Clients PROVE FileOK(b)'
  <2>1. CASE b = c
    BY <2>1 DEF FileOK, Writing
  <2>2. CASE b # c
    <3>1. FileOK(b) /\ CallOK(op[b]) /\ op'[b] = op[b]
      BY <2>2 DEF FsInv
    <3>2. Writing(b) => op[b].file # None
      BY <3>1 DEF CallOK, Writing
    <3>3. QED
      BY <1>1, <2>2, <3>1, <3>2 DEF FileOK, Writing, Dir, Key, Body, Reads, Limit, Cap
  <2>3. QED
    BY <2>1, <2>2
<1>3. \A k \in Keys : LinkOK(k)'
  BY DEF FsInv, LinkOK
<1>4. QED
  BY <1>2, <1>3

\* The call a step moves a client to.
LEMMA Move ==
  ASSUME TypeOK, NEW c \in Clients, NEW o, Enter(c, o)
  PROVE  op'[c] = o /\ \A b \in Clients \ {c} : op'[b] = op[b]
  BY DEF TypeOK, Enter

LEMMA Went ==
  ASSUME TypeOK, NEW c \in Clients, NEW pc, Goto(c, pc)
  PROVE  /\ op'[c].pc = pc /\ op'[c].request = op[c].request /\ op'[c].file = op[c].file
         /\ op'[c].todo = op[c].todo /\ op'[c].cause = op[c].cause /\ op'[c].answer = op[c].answer
         /\ \A b \in Clients \ {c} : op'[b] = op[b]
  BY DEF TypeOK, Ops, Goto, Enter

LEMMA Failed ==
  ASSUME TypeOK, NEW c \in Clients, NEW pc, NEW cause, FailAt(c, pc, cause)
  PROVE  /\ op'[c].pc = pc /\ op'[c].request = op[c].request /\ op'[c].file = op[c].file
         /\ op'[c].todo = <<>> /\ op'[c].cause = cause /\ op'[c].answer = op[c].answer
         /\ \A b \in Clients \ {c} : op'[b] = op[b]
  BY DEF TypeOK, Ops, FailAt, Enter

LEMMA LetGo ==
  ASSUME TypeOK, NEW c \in Clients, NEW pc,
         Enter(c, [op[c] EXCEPT !.pc = pc, !.file = None])
  PROVE  /\ op'[c].pc = pc /\ op'[c].request = op[c].request /\ op'[c].file = None
         /\ op'[c].todo = op[c].todo /\ op'[c].cause = op[c].cause /\ op'[c].answer = op[c].answer
         /\ \A b \in Clients \ {c} : op'[b] = op[b]
  BY DEF TypeOK, Ops, Enter

LEMMA Opened ==
  ASSUME TypeOK, NEW c \in Clients, NEW pc, NEW f,
         Enter(c, [op[c] EXCEPT !.pc = pc, !.file = f])
  PROVE  /\ op'[c].pc = pc /\ op'[c].request = op[c].request /\ op'[c].file = f
         /\ op'[c].todo = op[c].todo /\ op'[c].cause = op[c].cause /\ op'[c].answer = op[c].answer
         /\ \A b \in Clients \ {c} : op'[b] = op[b]
  BY DEF TypeOK, Ops, Enter

LEMMA Descended ==
  ASSUME TypeOK, NEW c \in Clients, Descend(c)
  PROVE  /\ op'[c].pc = IF Len(op[c].todo) = 1 THEN "temp" ELSE "mkdir"
         /\ op'[c].request = op[c].request /\ op'[c].todo = Tail(op[c].todo)
         /\ op'[c].file = op[c].file /\ op'[c].cause = op[c].cause /\ op'[c].answer = op[c].answer
         /\ \A b \in Clients \ {c} : op'[b] = op[b]
  BY DEF TypeOK, Ops, Descend, Enter

LEMMA Searched ==
  ASSUME TypeOK, NEW c \in Clients, Enter(c, [op[c] EXCEPT !.todo = <<Missing(c)>> \o @])
  PROVE  /\ op'[c].pc = op[c].pc /\ op'[c].request = op[c].request
         /\ op'[c].file = op[c].file /\ op'[c].cause = op[c].cause /\ op'[c].answer = op[c].answer
         /\ \A b \in Clients \ {c} : op'[b] = op[b]
  BY DEF TypeOK, Ops, Enter

LEMMA FileStep ==
  ASSUME FsInv, NEW c \in Clients, Step(c), TypeOK', CallOK(op'[c])
  PROVE  (\A b \in Clients : FileOK(b)') /\ \A k \in Keys : LinkOK(k)'
<1>1. /\ TypeOK /\ op[c] \in Ops
      /\ \A b \in Clients : CallOK(op[b]) /\ FileOK(b)
      /\ \A k \in Keys : LinkOK(k)
  BY DEF FsInv, TypeOK
<1>3. CASE \E r \in Requests : Put(c, r) \/ Delete(c, r) \/ Get(c, r)
  BY <1>1, <1>3, Move, FilesStay DEF Put, Delete, Get, Call, Started
<1>4. CASE Return(c)
  BY <1>1, <1>4, Move, FilesStay DEF Return, Idle, Started
<1>5. CASE Stat(c) \/ Mkdir(c) \/ NoDirectory(c) \/ Prune(c)
  <2>1. op'[c].pc \in {"stat", "mkdir", "temp", "failed", "done"}
    <3>1. CASE Stat(c)
      BY <1>1, <3>1, Went, Searched DEF Stat
    <3>2. CASE Mkdir(c)
      BY <1>1, <3>2, Descended, Failed DEF Mkdir
    <3>3. CASE NoDirectory(c)
      BY <1>1, <3>3, Failed DEF NoDirectory
    <3>4. CASE Prune(c)
      BY <1>1, <3>4, Went DEF Prune
    <3>5. QED
      BY <1>5, <3>1, <3>2, <3>3, <3>4
  <2>2. \A b \in Clients \ {c} : op'[b] = op[b]
    BY <1>1, <1>5, Move DEF Stat, Mkdir, NoDirectory, Prune, Descend, FailAt, Goto
  <2>3. QED
    BY <1>5, <2>1, <2>2, FilesStay DEF Stat, Mkdir, NoDirectory, Prune
<1>6. CASE \E f \in Files : CreateTemp(c, f)
  <2>1. PICK f \in Files : CreateTemp(c, f)
    BY <1>6
  <2>2. /\ op'[c] = [op[c] EXCEPT !.pc = "copy", !.file = f]
        /\ \A b \in Clients \ {c} : op'[b] = op[b]
    BY <1>1, <2>1, Move DEF CreateTemp
  <2>3. /\ op'[c].pc = "copy" /\ op'[c].file = f /\ op'[c].request = op[c].request
        /\ op[c].request \in Puts /\ op[c].pc = "temp"
    BY <1>1, <2>1, <2>2 DEF Ops, CallOK, CreateTemp
  <2>4. FileOK(c)'
    <3>1. Body(c) \in Bodies /\ Cap(c) \in Nat /\ Length[Body(c)] \in Nat
      BY <2>3, BodiesAssumption, CapsAreNumbers DEF Puts, Body, Cap
    <3>2. Reads(c)' \in Nat /\ Body(c)' = Body(c) /\ Dir(c)' = Dir(c)
      BY <2>3, <3>1 DEF Reads, Limit, Body, Cap, Dir, Key
    <3>3. data'[f] = [body |-> Body(c), len |-> 0] /\ temps'[f] = Dir(c)
      BY <1>1, <2>1 DEF CreateTemp, TypeOK
    <3>4. data'[f] \in Contents /\ data'[f].body = Body(c) /\ data'[f].len = 0
      BY <3>1, <3>3 DEF Contents
    <3>5. (\A k \in Keys : entry'[k] # f) /\ \A b \in Clients \ {c} : op'[b].file # f
      BY <2>1, <2>2 DEF CreateTemp, Free
    <3>6. QED
      BY <2>3, <3>2, <3>3, <3>4, <3>5 DEF FileOK, Writing
  <2>5. ASSUME NEW b \in Clients \ {c} PROVE FileOK(b)'
    <3>1. FileOK(b) /\ CallOK(op[b]) /\ op'[b] = op[b] /\ op[b].file # f
      BY <1>1, <2>1, <2>2 DEF CreateTemp, Free
    <3>2. (Writing(b) \/ op[b].pc = "serve") => op[b].file \in Files
      BY <1>1, <3>1 DEF CallOK, Writing, TypeOK, Ops
    <3>3. ASSUME Writing(b) \/ op[b].pc = "serve"
          PROVE  temps'[op[b].file] = temps[op[b].file] /\ data'[op[b].file] = data[op[b].file]
      BY <1>1, <2>1, <3>1, <3>2, <3>3 DEF CreateTemp, TypeOK
    <3>4. entry' = entry
      BY <2>1 DEF CreateTemp
    <3>5. Writing(b)' = Writing(b) /\ Dir(b)' = Dir(b) /\ Body(b)' = Body(b) /\ Reads(b)' = Reads(b)
      BY <3>1 DEF Writing, Dir, Key, Body, Reads, Limit, Cap
    <3>6. ASSUME Writing(b), NEW a \in Clients \ {b} PROVE op'[a].file # op[b].file
      <4>1. CASE a = c
        BY <2>3, <3>1, <4>1
      <4>2. CASE a # c
        BY <2>2, <3>1, <3>6, <4>2 DEF FileOK
      <4>3. QED
        BY <4>1, <4>2
    <3>7. QED
      BY <3>1, <3>3, <3>4, <3>5, <3>6 DEF FileOK, Writing
  <2>6. ASSUME NEW k \in Keys PROVE LinkOK(k)'
    <3>1. entry' = entry /\ entry[k] # f
      BY <2>1 DEF CreateTemp, Free
    <3>2. entry[k] # None => temps'[entry[k]] = temps[entry[k]] /\ data'[entry[k]] = data[entry[k]]
      BY <1>1, <2>1, <3>1 DEF CreateTemp, TypeOK
    <3>3. QED
      BY <1>1, <3>1, <3>2 DEF LinkOK
  <2>7. QED
    BY <2>4, <2>5, <2>6
<1>7. CASE Copy(c)
  <2>1. /\ op' = op /\ entry' = entry /\ temps' = temps /\ Writing(c)
        /\ op[c].file \in Files /\ data[op[c].file] \in Contents
    BY <1>1, <1>7 DEF Copy, Writing, CallOK, FileOK, Ops
  <2> DEFINE f == op[c].file
  <2>2. /\ data'[f] = [data[f] EXCEPT !.len = @ + 1]
        /\ \A g \in Files \ {f} : data'[g] = data[g]
    BY <1>1, <1>7, <2>1 DEF Copy, TypeOK
  <2>3. FileOK(c)'
    <3>1. /\ data'[f] \in Contents /\ data'[f].body = data[f].body
          /\ data'[f].len = data[f].len + 1 /\ data[f].len < Reads(c)
      BY <1>7, <2>1, <2>2 DEF Contents, Copy, Copied
    <3>2. Reads(c) \in Nat
      BY <1>1, <1>7, BodiesAssumption, CapsAreNumbers DEF Copy, CallOK, Puts, Reads, Limit, Body, Cap
    <3>3. data[f].len \in Nat
      BY <2>1 DEF Contents
    <3>4. FileOK(c) /\ op[c].pc = "copy"
      BY <1>1, <1>7 DEF Copy
    <3>5. Dir(c)' = Dir(c) /\ Body(c)' = Body(c) /\ Reads(c)' = Reads(c)
      BY <2>1 DEF Dir, Key, Body, Reads, Limit, Cap
    <3>6. data'[f].len <= Reads(c)
      BY <3>1, <3>2, <3>3
    <3>7. QED
      BY <2>1, <3>1, <3>4, <3>5, <3>6 DEF FileOK, Writing
  <2>4. ASSUME NEW b \in Clients \ {c} PROVE FileOK(b)'
    <3>1. op[b].file # f /\ ((Writing(b) \/ op[b].pc = "serve") => op[b].file \in Files)
      BY <1>1, <2>1 DEF FileOK, CallOK, Writing, TypeOK, Ops
    <3>2. QED
      BY <1>1, <2>1, <2>2, <3>1 DEF FileOK, Writing, Dir, Key, Body, Reads, Limit, Cap
  <2>5. ASSUME NEW k \in Keys PROVE LinkOK(k)'
    <3>1. entry[k] # f /\ entry[k] \in Files \union {None}
      BY <1>1, <2>1 DEF FileOK, TypeOK
    <3>2. QED
      BY <1>1, <2>1, <2>2, <3>1 DEF LinkOK
  <2>6. QED
    BY <2>3, <2>4, <2>5
<1>8. CASE op[c].pc = "copy" /\ FailAt(c, "cleanup", op'[c].cause) /\ UNCHANGED <<entry, temps, data>>
  <2>1. /\ op'[c].pc = "cleanup" /\ op'[c].file = op[c].file /\ op'[c].request = op[c].request
        /\ \A b \in Clients \ {c} : op'[b] = op[b]
    BY <1>1, <1>8, Failed
  <2>2. ASSUME NEW b \in Clients PROVE FileOK(b)'
    BY <1>1, <1>8, <2>1 DEF FileOK, Writing, Dir, Key, Body, Reads, Limit, Cap
  <2>3. QED
    BY <1>1, <1>8, <2>2 DEF LinkOK
<1>9. CASE PutFails(c) \/ RejectTooLarge(c)
  <2>1. CASE op[c].pc = "copy"
    <3>1. op'[c].cause \in {"io", "size"} /\ FailAt(c, "cleanup", op'[c].cause)
      BY <1>1, <1>9, <2>1, Failed DEF PutFails, RejectTooLarge
    <3>2. QED
      BY <1>8, <1>9, <2>1, <3>1 DEF PutFails, RejectTooLarge
  <2>2. CASE op[c].pc # "copy"
    BY <1>1, <1>9, <2>2, Failed, FilesStay DEF PutFails, RejectTooLarge
  <2>3. QED
    BY <2>1, <2>2
<1>10. CASE Rename(c)
  <2> DEFINE f == op[c].file
             k == Key(c)
  <2>1. /\ f \in Files /\ k \in Keys /\ Writing(c) /\ CallOK(op[c])
        /\ op[c].request \in Puts /\ op[c].pc = "copy"
    BY <1>1, <1>10 DEF Rename, Writing, CallOK, Ops, Key, Puts
  <2>2. /\ entry' = [entry EXCEPT ![k] = f]
        /\ temps' = [temps EXCEPT ![f] = None]
        /\ data' = data
        /\ op'[c].pc = "done" /\ op'[c].file = None
        /\ \A b \in Clients \ {c} : op'[b] = op[b]
    BY <1>1, <1>10, LetGo DEF Rename
  <2>3. data[f] \in Complete
    <3>1. Body(c) \in Bodies /\ Cap(c) \in Nat /\ Length[Body(c)] \in Nat
      BY <2>1, BodiesAssumption, CapsAreNumbers DEF Puts, Body, Cap
    <3>2. data[f] \in Contents /\ data[f].body = Body(c) /\ data[f].len = Reads(c)
      BY <1>1, <1>10, <2>1 DEF FileOK, Rename, Copied
    <3>3. CASE MaxInt \in Caps
      BY <3>2, <3>3 DEF Complete
    <3>4. CASE MaxInt \notin Caps
      <4>1. Cap(c) # MaxInt
        BY <2>1, <3>4 DEF Puts, Cap
      <4>2. Reads(c) = Length[Body(c)]
        BY <1>10, <3>1, <3>2, <4>1 DEF Rename, TooLarge, Copied, Reads, Limit
      <4>3. data[f] = [body |-> Body(c), len |-> Length[Body(c)]]
        BY <3>2, <4>2 DEF Contents
      <4>4. QED
        BY <3>1, <3>4, <4>3 DEF Complete, Store!Objects, Store!Whole
    <3>5. QED
      BY <3>3, <3>4
  <2>4. ASSUME NEW b \in Clients PROVE FileOK(b)'
    <3>1. CASE b = c
      BY <2>2, <3>1 DEF FileOK, Writing
    <3>2. CASE b # c
      <4>1. /\ op[b].file # f /\ op'[b] = op[b] /\ FileOK(b)
            /\ (Writing(b) \/ op[b].pc = "serve") => op[b].file \in Files
        BY <1>1, <2>1, <2>2, <3>2 DEF FileOK, CallOK, Writing, TypeOK, Ops
      <4>2. (Writing(b) \/ op[b].pc = "serve") =>
              temps'[op[b].file] = temps[op[b].file] /\ op[b].file # None
        BY <1>1, <2>1, <2>2, <4>1, AbsentIsAbsent DEF TypeOK
      <4>3. QED
        BY <1>1, <2>1, <2>2, <3>2, <4>1, <4>2 DEF FileOK, Writing, Dir, Key, Body, Reads, Limit, Cap, TypeOK
    <3>3. QED
      BY <3>1, <3>2
  <2>5. ASSUME NEW j \in Keys PROVE LinkOK(j)'
    BY <1>1, <2>1, <2>2, <2>3 DEF LinkOK, TypeOK
  <2>6. QED
    BY <2>4, <2>5
<1>11. CASE Cleanup(c)
  <2> DEFINE f == op[c].file
  <2>1. f \in Files /\ Writing(c)
    BY <1>1, <1>11 DEF Cleanup, Writing, CallOK, Ops
  <2>2. /\ entry' = entry /\ data' = data
        /\ \A g \in Files \ {f} : temps'[g] = temps[g]
        /\ op'[c].pc = "failed" /\ op'[c].file = None
        /\ \A b \in Clients \ {c} : op'[b] = op[b]
    BY <1>1, <1>11, LetGo DEF Cleanup, TypeOK
  <2>3. ASSUME NEW b \in Clients PROVE FileOK(b)'
    <3>1. CASE b = c
      BY <2>2, <3>1 DEF FileOK, Writing
    <3>2. CASE b # c
      <4>1. /\ op[b].file # f /\ op'[b] = op[b] /\ FileOK(b)
            /\ (Writing(b) \/ op[b].pc = "serve") => op[b].file \in Files
        BY <1>1, <2>1, <2>2, <3>2 DEF FileOK, CallOK, Writing, TypeOK, Ops
      <4>2. (Writing(b) \/ op[b].pc = "serve") =>
              temps'[op[b].file] = temps[op[b].file] /\ op[b].file # None
        BY <1>1, <2>1, <2>2, <4>1, AbsentIsAbsent DEF TypeOK
      <4>3. QED
        BY <1>1, <2>1, <2>2, <3>2, <4>1, <4>2 DEF FileOK, Writing, Dir, Key, Body, Reads, Limit, Cap, TypeOK
    <3>3. QED
      BY <3>1, <3>2
  <2>4. ASSUME NEW j \in Keys PROVE LinkOK(j)'
    BY <1>1, <2>1, <2>2 DEF LinkOK, FileOK, TypeOK
  <2>5. QED
    BY <2>3, <2>4
<1>12. CASE Remove(c)
  <2>1. /\ temps' = temps /\ data' = data
        /\ entry' = entry \/ entry' = [entry EXCEPT ![Key(c)] = None]
        /\ op'[c].pc \in {"prune", "failed"} /\ op'[c].file = None
        /\ \A b \in Clients \ {c} : op'[b] = op[b]
    BY <1>1, <1>12, Went, Failed DEF Remove, CallOK
  <2>2. \A k \in Keys : entry'[k] \in {entry[k], None}
    BY <1>1, <2>1 DEF TypeOK
  <2>3. ASSUME NEW b \in Clients PROVE FileOK(b)'
    <3>1. CASE b = c
      BY <2>1, <3>1 DEF FileOK, Writing
    <3>2. CASE b # c
      <4>1. Writing(b) => op[b].file # None
        BY <1>1 DEF Writing, CallOK
      <4>2. QED
        BY <1>1, <2>1, <2>2, <3>2, <4>1 DEF FileOK, Writing, Dir, Key, Body, Reads, Limit, Cap
    <3>3. QED
      BY <3>1, <3>2
  <2>4. QED
    BY <1>1, <2>1, <2>2, <2>3 DEF LinkOK
<1>13. CASE Open(c)
  <2>0. UNCHANGED <<entry, temps, data>>
    BY <1>13 DEF Open
  <2>1. CASE Goto(c, "done")
    BY <1>1, <2>0, <2>1, Went, FilesStay
  <2>2. CASE FailAt(c, "failed", "io")
    BY <1>1, <2>0, <2>2, Failed, FilesStay
  <2>3. CASE /\ entry[Key(c)] # None
             /\ Enter(c, [op[c] EXCEPT !.pc = "serve", !.file = entry[Key(c)]])
    <3>1. /\ op'[c].pc = "serve" /\ op'[c].file = entry[Key(c)]
          /\ \A b \in Clients \ {c} : op'[b] = op[b]
      <4>1. /\ op'[c] = [op[c] EXCEPT !.pc = "serve", !.file = entry[Key(c)]]
            /\ \A b \in Clients \ {c} : op'[b] = op[b]
        BY <1>1, <2>3, Move
      <4>2. QED
        BY <1>1, <4>1 DEF Ops
    <3>2. Key(c) \in Keys
      BY <1>1, <1>13 DEF Open, CallOK, Requests, Puts, Lookups, Key
    <3>3. FileOK(c)'
      BY <1>1, <2>0, <2>3, <3>1, <3>2 DEF FileOK, Writing, LinkOK
    <3>4. ASSUME NEW b \in Clients \ {c} PROVE FileOK(b)'
      <4>1. Writing(b) => op[b].file # entry[Key(c)]
        BY <1>1, <3>2 DEF FileOK
      <4>2. QED
        BY <1>1, <2>0, <3>1, <4>1 DEF FileOK, Writing, Dir, Key, Body, Reads, Limit, Cap
    <3>5. QED
      BY <1>1, <2>0, <3>3, <3>4 DEF LinkOK
  <2>4. QED
    BY <1>13, <2>1, <2>2, <2>3 DEF Open
<1>14. CASE ServeContent(c)
  <2>1. op'[c].pc = "done" /\ \A b \in Clients \ {c} : op'[b] = op[b]
    BY <1>1, <1>14 DEF ServeContent, Enter, TypeOK, Ops
  <2>2. QED
    BY <1>14, <2>1, FilesStay DEF ServeContent
<1>15. QED
  BY <1>3, <1>4, <1>5, <1>6, <1>7, <1>9, <1>10, <1>11, <1>12, <1>13, <1>14 DEF Step
-----------------------------------------------------------------------------
\* The request of a call in progress names a key and its directory.
LEMMA CallHasKey ==
  ASSUME FsInv, NEW c \in Clients, op[c].pc # "idle"
  PROVE  Key(c) \in Keys /\ Dir(c) \in Dirs /\ Dir(c) # Root
  BY TreeAssumption DEF FsInv, CallOK, Key, Dir, Requests, Puts, Lookups

LEMMA TreeStep ==
  ASSUME FsInv, NEW c \in Clients, Step(c)
  PROVE  TreeOK'
<1>1. TypeOK /\ TreeOK /\ CallOK(op[c]) /\ FileOK(c) /\ op[c] \in Ops
  BY DEF FsInv, TypeOK
<1>2. CASE UNCHANGED <<dirs, entry, temps>>
  BY <1>1, <1>2 DEF TreeOK, Exists
<1>3. CASE Mkdir(c)
  <2>1. UNCHANGED <<entry, temps>> /\ (UNCHANGED dirs \/
          (Exists(Parent[Head(op[c].todo)]) /\ dirs' = dirs \union {Head(op[c].todo)}))
    BY <1>3 DEF Mkdir
  <2>2. QED
    BY <1>1, <2>1 DEF TreeOK, Exists
<1>4. CASE \E f \in Files : CreateTemp(c, f)
  <2>1. PICK f \in Files : CreateTemp(c, f)
    BY <1>4
  <2>2. Dir(c) \in dirs
    BY <2>1, CallHasKey DEF CreateTemp, Exists
  <2>3. QED
    BY <1>1, <2>1, <2>2 DEF CreateTemp, TreeOK, Exists, TypeOK
<1>5. CASE Rename(c)
  <2>1. /\ entry' = [entry EXCEPT ![Key(c)] = op[c].file] /\ dirs' = dirs
        /\ temps' = [temps EXCEPT ![op[c].file] = None]
        /\ Key(c) \in Keys /\ temps[op[c].file] = Dir(c) /\ op[c].file \in Files
    BY <1>1, <1>5, CallHasKey DEF Rename, FileOK, Writing, CallOK, Ops
  <2>2. DirOf[Key(c)] \in dirs
    BY <1>1, <1>5, <2>1, CallHasKey, AbsentIsAbsent DEF Rename, TreeOK, Dir
  <2>3. QED
    BY <1>1, <2>1, <2>2 DEF TreeOK, Exists, TypeOK
<1>6. CASE Cleanup(c)
  BY <1>1, <1>6 DEF Cleanup, TreeOK, Exists, TypeOK
<1>7. CASE Remove(c)
  BY <1>1, <1>7 DEF Remove, TreeOK, Exists, TypeOK
<1>8. CASE Prune(c)
  <2>1. CASE UNCHANGED <<dirs, entry, temps>>
    BY <1>2, <2>1
  <2>2. CASE IsEmpty(Dir(c)) /\ dirs' = dirs \ {Dir(c)} /\ UNCHANGED <<entry, temps>>
    BY <1>1, <2>2 DEF IsEmpty, TreeOK, Exists
  <2>3. QED
    BY <1>8, <2>1, <2>2 DEF Prune
<1>9. QED
  BY <1>2, <1>3, <1>4, <1>5, <1>6, <1>7, <1>8
     DEF Step, Put, Delete, Get, Call, Return, Stat, NoDirectory, Copy, RejectTooLarge, PutFails, Open, ServeContent

\* A put that stands on no directory, or on one that is there, has its footing.
LEMMA OthersKeepFooting ==
  ASSUME FsInv, NEW c \in Clients, NEW b \in Clients \ {c}, op'[b] = op[b], Step(c)
  PROVE  Footing(b)'
<1>1. Footing(b)
  BY DEF FsInv
<1>2. CASE dirs \subseteq dirs' /\ pruned \ {c} \subseteq pruned'
  BY <1>1, <1>2 DEF Footing, Exists, Dir, Key
<1>3. CASE Prune(c) /\ dirs' = dirs \ {Dir(c)} /\ pruned' = pruned \union Counting(Dir(c))
  BY <1>1, <1>3 DEF Footing, Exists, Dir, Key, Counting
<1>4. \/ dirs \subseteq dirs' /\ pruned \ {c} \subseteq pruned'
      \/ Prune(c) /\ dirs' = dirs \ {Dir(c)} /\ pruned' = pruned \union Counting(Dir(c))
  BY DEF Step, Put, Delete, Get, Call, Return, Stat, Mkdir, CreateTemp, NoDirectory, Copy,
         RejectTooLarge, Rename, PutFails, Cleanup, Remove, Prune, Open, ServeContent
<1>5. QED
  BY <1>2, <1>3, <1>4

LEMMA FootingStep ==
  ASSUME FsInv, NEW c \in Clients, Step(c)
  PROVE  \A b \in Clients : Footing(b)'
<1>1. TypeOK /\ Footing(c) /\ CallOK(op[c]) /\ op[c] \in Ops
  BY DEF FsInv, TypeOK
<1>2. CASE \E r \in Requests : Put(c, r) \/ Delete(c, r) \/ Get(c, r)
  <2>1. PICK r \in Requests, pc \in {"stat", "remove", "open"} : Enter(c, Started(pc, r))
    BY <1>2 DEF Put, Delete, Get, Call
  <2>2. op'[c] = Started(pc, r) /\ \A b \in Clients \ {c} : op'[b] = op[b]
    BY <1>1, <2>1, Move
  <2>3. QED
    BY <2>2, OthersKeepFooting DEF Footing, Started
<1>3. CASE Return(c)
  <2>1. op'[c] = Idle /\ \A b \in Clients \ {c} : op'[b] = op[b]
    BY <1>1, <1>3, Move DEF Return
  <2>2. QED
    BY <2>1, OthersKeepFooting DEF Footing, Idle, Started
<1>4. CASE Stat(c)
  <2>1. CASE Goto(c, IF op[c].todo = <<>> THEN "temp" ELSE "mkdir") /\ Exists(Missing(c))
    <3>0. /\ op'[c].pc = IF op[c].todo = <<>> THEN "temp" ELSE "mkdir"
          /\ op'[c].request = op[c].request /\ op'[c].todo = op[c].todo
          /\ op'[c].cause = op[c].cause
          /\ \A b \in Clients \ {c} : op'[b] = op[b]
      BY <1>1, <2>1, Went
    <3>1. Exists(Missing(c))' /\ pruned' = pruned
      BY <1>4, <2>1, <3>0 DEF Stat, Exists, Missing, Dir, Key
    <3>2. Footing(c)'
      BY <1>1, <3>0, <3>1 DEF Footing, Missing
    <3>3. QED
      BY <1>1, <3>0, <3>2, OthersKeepFooting
  <2>2. CASE Enter(c, [op[c] EXCEPT !.todo = <<Missing(c)>> \o @])
    <3>1. Footing(c)'
      BY <1>1, <1>4, <2>2, Searched DEF Stat, Footing
    <3>2. QED
      BY <1>1, <2>2, <3>1, Searched, OthersKeepFooting
  <2>3. QED
    BY <1>4, <2>1, <2>2 DEF Stat
<1>5. CASE Mkdir(c)
  <2>1. CASE Descend(c) /\ dirs' = dirs \union {Head(op[c].todo)}
    <3>1. /\ Len(op[c].todo) = 1 => Head(op[c].todo) = Dir(c)
          /\ Len(op[c].todo) # 1 => Parent[Head(Tail(op[c].todo))] = Head(op[c].todo)
      BY <1>1, <1>5, CallHasKey, ChainShrinks DEF Mkdir, CallOK, Ops, Dir, Key
    <3>2. Footing(c)'
      BY <1>1, <1>5, <2>1, <3>1, Descended DEF Mkdir, Footing, Exists, Dir, Key
    <3>3. QED
      BY <1>1, <2>1, <3>2, Descended, OthersKeepFooting
  <2>2. CASE FailAt(c, "failed", "dir") /\ ~Exists(Parent[Head(op[c].todo)])
    <3>1. Footing(c)'
      BY <1>1, <1>5, <2>2, Failed DEF Mkdir, Footing
    <3>2. QED
      BY <1>1, <2>2, <3>1, Failed, OthersKeepFooting
  <2>3. QED
    BY <1>5, <2>1, <2>2 DEF Mkdir
<1>6. CASE NoDirectory(c)
  <2>1. Footing(c)'
    BY <1>1, <1>6, Failed DEF NoDirectory, Footing
  <2>2. QED
    BY <1>1, <1>6, <2>1, Failed, OthersKeepFooting DEF NoDirectory
<1>7. ASSUME op'[c].pc \notin {"temp", "mkdir"}, op'[c].cause \in {op[c].cause, "io", "size"},
             \A b \in Clients \ {c} : op'[b] = op[b], c \in pruned => c \in pruned'
      PROVE  \A b \in Clients : Footing(b)'
  BY <1>1, <1>7, OthersKeepFooting DEF Footing
<1>8. CASE \E f \in Files : CreateTemp(c, f)
  <2>1. PICK f \in Files : CreateTemp(c, f)
    BY <1>8
  <2>2. /\ op'[c].pc = "copy" /\ op'[c].cause = op[c].cause
        /\ \A b \in Clients \ {c} : op'[b] = op[b]
    BY <1>1, <2>1, Opened DEF CreateTemp
  <2>3. QED
    BY <1>7, <2>1, <2>2 DEF CreateTemp
<1>9. CASE Copy(c)
  BY <1>1, <1>7, <1>9 DEF Copy
<1>10. CASE RejectTooLarge(c) \/ PutFails(c)
  <2>1. PICK pc \in {"failed", "cleanup"}, cause \in {"io", "size"} : FailAt(c, pc, cause)
    BY <1>10 DEF RejectTooLarge, PutFails
  <2>2. /\ op'[c].pc \in {"failed", "cleanup"} /\ op'[c].cause \in {"io", "size"}
        /\ \A b \in Clients \ {c} : op'[b] = op[b]
    BY <1>1, <2>1, Failed
  <2>3. QED
    BY <1>7, <1>10, <2>2 DEF RejectTooLarge, PutFails
<1>11. CASE Rename(c) \/ Cleanup(c)
  <2>1. PICK pc \in {"done", "failed"} : Enter(c, [op[c] EXCEPT !.pc = pc, !.file = None])
    BY <1>11 DEF Rename, Cleanup
  <2>2. /\ op'[c].pc \in {"done", "failed"} /\ op'[c].cause = op[c].cause
        /\ \A b \in Clients \ {c} : op'[b] = op[b]
    BY <1>1, <2>1, LetGo
  <2>3. QED
    BY <1>7, <1>11, <2>2 DEF Rename, Cleanup
<1>12. CASE Remove(c) \/ Prune(c)
  <2>1. Goto(c, "prune") \/ Goto(c, "done") \/ FailAt(c, "failed", "io")
    BY <1>12 DEF Remove, Prune
  <2>2. /\ op'[c].pc \in {"prune", "done", "failed"} /\ op'[c].cause \in {op[c].cause, "io"}
        /\ \A b \in Clients \ {c} : op'[b] = op[b]
    <3>1. CASE Goto(c, "prune")
      BY <1>1, <3>1, Went
    <3>2. CASE Goto(c, "done")
      BY <1>1, <3>2, Went
    <3>3. CASE FailAt(c, "failed", "io")
      BY <1>1, <3>3, Failed
    <3>4. QED
      BY <2>1, <3>1, <3>2, <3>3
  <2>3. QED
    BY <1>7, <1>12, <2>2 DEF Remove, Prune
<1>13. CASE Open(c)
  <2>1. /\ op'[c].pc \in {"done", "serve", "failed"} /\ op'[c].cause \in {op[c].cause, "io"}
        /\ \A b \in Clients \ {c} : op'[b] = op[b]
    <3>1. CASE Goto(c, "done")
      BY <1>1, <3>1, Went
    <3>2. CASE Enter(c, [op[c] EXCEPT !.pc = "serve", !.file = entry[Key(c)]])
      BY <1>1, <3>2, Opened
    <3>3. CASE FailAt(c, "failed", "io")
      BY <1>1, <3>3, Failed
    <3>4. QED
      BY <1>13, <3>1, <3>2, <3>3 DEF Open
  <2>2. QED
    BY <1>7, <1>13, <2>1 DEF Open
<1>14. CASE ServeContent(c)
  <2>1. op'[c].pc = "done" /\ op'[c].cause = op[c].cause /\ \A b \in Clients \ {c} : op'[b] = op[b]
    BY <1>1, <1>14 DEF ServeContent, Enter, TypeOK, Ops
  <2>2. QED
    BY <1>7, <1>14, <2>1 DEF ServeContent
<1>15. QED
  BY <1>2, <1>3, <1>4, <1>5, <1>6, <1>8, <1>9, <1>10, <1>11, <1>12, <1>13, <1>14 DEF Step
-----------------------------------------------------------------------------
\* The invariant is inductive.
LEMMA InitInv == Init => FsInv
<1> SUFFICES ASSUME Init PROVE FsInv
  OBVIOUS
<1>1. TypeOK
  BY IdleFits, FaultAssumption DEF Init, TypeOK
<1>2. ASSUME NEW c \in Clients PROVE CallOK(op[c]) /\ FileOK(c) /\ Footing(c)
  BY IdleFits DEF Init, FileOK, Footing, Writing, Idle, Started
<1>3. (\A k \in Keys : LinkOK(k)) /\ TreeOK
  BY DEF Init, LinkOK, TreeOK
<1>4. QED
  BY <1>1, <1>2, <1>3 DEF FsInv

LEMMA StepInv ==
  ASSUME FsInv, [Next]_vars
  PROVE  FsInv'
<1>1. TypeOK' /\ \A c \in Clients : CallOK(op'[c])
  BY TypeStep
<1>2. CASE \E c \in Clients : Step(c)
  <2>1. PICK c \in Clients : Step(c)
    BY <1>2
  <2>2. (\A b \in Clients : FileOK(b)') /\ \A k \in Keys : LinkOK(k)'
    BY <1>1, <2>1, FileStep
  <2>3. TreeOK' /\ \A b \in Clients : Footing(b)'
    BY <2>1, TreeStep, FootingStep
  <2>4. QED
    BY <1>1, <2>2, <2>3 DEF FsInv
<1>3. CASE Crash
  <2>1. \A c \in Clients : FileOK(c)' /\ Footing(c)'
    BY <1>3 DEF Crash, FileOK, Footing, Writing, Idle, Started
  <2>2. (\A k \in Keys : LinkOK(k)') /\ TreeOK'
    BY <1>3 DEF FsInv, Crash, LinkOK, TreeOK, Exists
  <2>3. QED
    BY <1>1, <2>1, <2>2 DEF FsInv
<1>4. CASE UNCHANGED vars
  <2>1. \A c \in Clients : FileOK(c)' /\ Footing(c)'
    BY <1>4 DEF FsInv, vars, FileOK, Footing, Writing, Dir, Key, Body, Reads, Limit, Cap, Exists
  <2>2. (\A k \in Keys : LinkOK(k)') /\ TreeOK'
    BY <1>4 DEF FsInv, vars, LinkOK, TreeOK, Exists
  <2>3. QED
    BY <1>1, <2>1, <2>2 DEF FsInv
<1>5. QED
  BY <1>2, <1>3, <1>4 DEF Next, Step

\* What holds of the driver at all times.
THEOREM DriverInvariant == Spec => []FsInv
  BY InitInv, StepInv, PTL DEF Spec

\* The comment of writeObject, for every body, tree and interleaving, and every
\* limit below the largest int64: a name never links to less than a whole body.
THEOREM FilesAreWhole ==
  ASSUME MaxInt \notin Caps
  PROVE  Spec => []LinkedFilesAreWhole
<1>1. FsInv => LinkedFilesAreWhole
  BY DEF FsInv, LinkOK, LinkedFilesAreWhole, Linked, Complete
<1>2. QED
  BY <1>1, DriverInvariant, PTL

\* writeObject against DeleteObject: only a prune pulls a directory away.
THEOREM OnlyPruneLosesDirectories == Spec => []DirectoryMissingOnlyByPrune
<1>1. FsInv => DirectoryMissingOnlyByPrune
  BY DEF FsInv, Footing, DirectoryMissingOnlyByPrune
<1>2. QED
  BY <1>1, DriverInvariant, PTL

\* The variables of the driver have their types.
THEOREM DriverTypes == Spec => []TypeOK
<1>1. FsInv => TypeOK
  BY DEF FsInv
<1>2. QED
  BY <1>1, DriverInvariant, PTL
-----------------------------------------------------------------------------
\* A running driver whose removals work makes no stray: whoever stops using a temp
\* file has taken its name away.
LEMMA NoNewStrays ==
  ASSUME FsInv, NEW c \in Clients, Step(c), lost' = lost
  PROVE  Strays' \subseteq Strays
<1>1. TypeOK /\ CallOK(op[c]) /\ FileOK(c) /\ op[c] \in Ops /\ lost \in Nat
  BY FaultAssumption DEF FsInv, TypeOK
<1>2. SUFFICES ASSUME NEW f \in Files, temps'[f] # None, \A b \in Clients : op'[b].file # f
               PROVE  temps[f] # None /\ \A b \in Clients : op[b].file # f
  BY DEF Strays
<1>3. temps[f] # None
  <2>1. CASE \E g \in Files : CreateTemp(c, g)
    <3>1. PICK g \in Files : CreateTemp(c, g)
      BY <2>1
    <3>2. g # f
      <4>1. op'[c] = [op[c] EXCEPT !.pc = "copy", !.file = g]
        BY <1>1, <3>1, Move DEF CreateTemp
      <4>2. op'[c].file = g
        BY <1>1, <4>1 DEF Ops
      <4>3. QED
        BY <1>2, <4>2
    <3>3. QED
      BY <1>1, <1>2, <3>1, <3>2 DEF CreateTemp, TypeOK
  <2>2. CASE ~\E g \in Files : CreateTemp(c, g)
    BY <1>1, <1>2, <2>2 DEF TypeOK, Step, Put, Delete, Get, Call, Return, Stat, Mkdir, NoDirectory, Copy,
       RejectTooLarge, Rename, PutFails, Cleanup, Remove, Prune, Open, ServeContent
  <2>3. QED
    BY <2>1, <2>2
<1>4. ASSUME op'[c].file = op[c].file \/ op[c].file = None,
             \A b \in Clients \ {c} : op'[b] = op[b]
      PROVE  \A b \in Clients : op[b].file # f
  BY <1>2, <1>4, AbsentIsAbsent
<1>5. CASE Rename(c) \/ Cleanup(c)
  <2>1. PICK pc \in {"done", "failed"} : Enter(c, [op[c] EXCEPT !.pc = pc, !.file = None])
    BY <1>5 DEF Rename, Cleanup
  <2>2. temps' = [temps EXCEPT ![op[c].file] = None]
    BY <1>1, <1>5 DEF Rename, Cleanup
  <2>3. op[c].file # f
    BY <1>1, <1>2, <2>2 DEF TypeOK
  <2>4. \A b \in Clients \ {c} : op'[b] = op[b]
    BY <1>1, <2>1, LetGo
  <2>5. QED
    BY <1>2, <1>3, <2>3, <2>4
<1>6. CASE ServeContent(c)
  <2>1. op[c].file # f
    BY <1>1, <1>3, <1>6 DEF ServeContent, FileOK
  <2>2. \A b \in Clients \ {c} : op'[b] = op[b]
    BY <1>1, <1>6 DEF ServeContent, Enter, TypeOK
  <2>3. QED
    BY <1>2, <1>3, <2>1, <2>2
<1>7. CASE ~(Rename(c) \/ Cleanup(c) \/ ServeContent(c))
  <2>1. op[c].file = None \/ op[c].pc = "copy"
    <3>1. CASE op[c] = Idle
      BY <3>1 DEF Idle, Started
    <3>2. CASE op[c] # Idle
      <4>1. op[c].pc \notin {"cleanup", "serve"}
        BY <1>7, <3>2 DEF Step, Put, Delete, Get, Call, Return, Stat, Mkdir, CreateTemp,
           NoDirectory, Copy, RejectTooLarge, PutFails, Remove, Prune, Open
      <4>2. QED
        BY <1>1, <4>1 DEF CallOK
    <3>3. QED
      BY <3>1, <3>2
  <2>2. PICK o : op' = op \/ Enter(c, o)
    BY <1>7 DEF Step, Put, Delete, Get, Call, Return, Stat, Mkdir, Descend, CreateTemp, NoDirectory, Copy,
       RejectTooLarge, PutFails, Remove, Prune, Open, Goto, FailAt
  <2>3. \A b \in Clients \ {c} : op'[b] = op[b]
    BY <1>1, <2>2, Move
  <2>4. op[c].pc = "copy" => op'[c].file = op[c].file
    <3>1. CASE Copy(c)
      BY <3>1 DEF Copy
    <3>2. CASE op[c].pc = "copy" /\ ~Copy(c)
      <4>0. op[c] # Idle
        BY <3>2 DEF Idle, Started
      <4>1. RejectTooLarge(c) \/ PutFails(c)
        BY <1>7, <3>2, <4>0 DEF Step, Put, Delete, Get, Call, Return, Stat, Mkdir, CreateTemp, NoDirectory,
           Remove, Prune, Open
      <4>2. PICK cause \in {"io", "size"} : FailAt(c, "cleanup", cause)
        BY <3>2, <4>1 DEF RejectTooLarge, PutFails
      <4>3. QED
        BY <1>1, <4>2, Failed
    <3>3. QED
      BY <3>1, <3>2
  <2>5. QED
    BY <1>3, <1>4, <2>1, <2>3, <2>4
<1>8. QED
  BY <1>5, <1>6, <1>7

\* A restart cuts off at most one put per client.
LEMMA StraysOfARestart ==
  ASSUME FsInv, Crash
  PROVE  Cardinality(Strays') <= Cardinality(Strays) + Cardinality(Clients)
<1> DEFINE held == [c \in Clients |-> op[c].file]
           cut == {op[c].file : c \in Clients}
<1>1. Strays' \subseteq Strays \union cut
  BY DEF Crash, Strays
<1>2. held \in Surjection(Clients, cut)
  BY DEF Surjection
<1>3. IsFiniteSet(cut) /\ Cardinality(cut) <= Cardinality(Clients)
  BY <1>2, FilesAssumption, FS_Surjection
<1>4. IsFiniteSet(Strays)
  BY FilesAssumption, FS_Subset DEF Strays
<1>5. /\ IsFiniteSet(Strays \union cut)
      /\ Cardinality(Strays \union cut) = Cardinality(Strays) + Cardinality(cut) - Cardinality(Strays \intersect cut)
  BY <1>3, <1>4, FS_Union
<1>6. IsFiniteSet(Strays \intersect cut)
  BY <1>4, FS_Subset
<1>7. Cardinality(Strays') <= Cardinality(Strays \union cut) /\ IsFiniteSet(Strays')
  BY <1>1, <1>5, FS_Subset
<1>8. /\ Cardinality(Strays') \in Nat /\ Cardinality(Strays \intersect cut) \in Nat
      /\ Cardinality(cut) \in Nat /\ Cardinality(Strays) \in Nat /\ Cardinality(Clients) \in Nat
  BY <1>3, <1>4, <1>6, <1>7, FilesAssumption, FS_CardinalityType
<1>9. QED
  BY <1>3, <1>5, <1>7, <1>8

\* A removal that fails makes a stray of the one file it was to remove.
LEMMA StrayOfAFailedRemove ==
  ASSUME FsInv, NEW c \in Clients, Cleanup(c), lost' # lost
  PROVE  Cardinality(Strays') <= Cardinality(Strays) + 1 /\ lost' = lost + 1
<1> DEFINE f == op[c].file
<1>1. TypeOK /\ CallOK(op[c]) /\ op[c] \in Ops
  BY DEF FsInv, TypeOK
<1>2. f \in Files /\ temps' = temps /\ lost' = lost + 1
  BY <1>1 DEF Cleanup, CallOK, Ops
<1>3. \A b \in Clients \ {c} : op'[b] = op[b]
  BY <1>1, LetGo DEF Cleanup
<1>4. Strays' \subseteq Strays \union {f}
  BY <1>2, <1>3 DEF Strays
<1>5. IsFiniteSet(Strays)
  BY FilesAssumption, FS_Subset DEF Strays
<1>6. /\ IsFiniteSet(Strays \union {f})
      /\ Cardinality(Strays \union {f}) <= Cardinality(Strays) + 1
      /\ Cardinality(Strays) \in Nat
  <2>1. Cardinality(Strays) \in Nat
    BY <1>5, FS_CardinalityType
  <2>2. /\ IsFiniteSet(Strays \union {f})
        /\ \/ Cardinality(Strays \union {f}) = Cardinality(Strays)
           \/ Cardinality(Strays \union {f}) = Cardinality(Strays) + 1
    BY <1>5, FS_AddElement
  <2>3. QED
    BY <2>1, <2>2
<1>7. Cardinality(Strays') <= Cardinality(Strays \union {f}) /\ IsFiniteSet(Strays')
  BY <1>4, <1>6, FS_Subset
<1>8. Cardinality(Strays') \in Nat /\ Cardinality(Strays \union {f}) \in Nat
  BY <1>6, <1>7, FS_CardinalityType
<1>9. QED
  BY <1>2, <1>6, <1>7, <1>8

\* The deferred Remove of writeObject: a temp file outlives its upload by a
\* restart that finds the upload in flight, or by a removal that fails.
THEOREM StraysAreBounded == Spec => []StrayTempsHaveACause
<1>1. Init => StrayTempsHaveACause
  <2>1. Init => Strays = {}
    BY DEF Init, Strays
  <2>2. Cardinality({}) = 0 /\ Cardinality(Clients) \in Nat
    BY FS_EmptySet, FS_CardinalityType, FilesAssumption
  <2>3. 0 * Cardinality(Clients) = 0
    BY <2>2
  <2>4. QED
    BY <2>1, <2>2, <2>3 DEF Init, StrayTempsHaveACause
<1>2. ASSUME FsInv, StrayTempsHaveACause, [Next]_vars
      PROVE  StrayTempsHaveACause'
  <2>1. /\ IsFiniteSet(Strays) /\ IsFiniteSet(Strays') /\ crashes \in Nat /\ lost \in Nat
        /\ Cardinality(Strays) \in Nat /\ Cardinality(Strays') \in Nat /\ Cardinality(Clients) \in Nat
    BY <1>2, FilesAssumption, FS_Subset, FS_CardinalityType, FaultAssumption DEF Strays, FsInv, TypeOK
  <2>0. crashes * Cardinality(Clients) \in Nat
    BY <2>1
  <2>2. CASE Strays' \subseteq Strays /\ crashes' = crashes /\ lost' = lost
    <3>1. Cardinality(Strays') <= Cardinality(Strays)
      BY <2>1, <2>2, FS_Subset
    <3>2. QED
      BY <1>2, <2>0, <2>1, <2>2, <3>1 DEF StrayTempsHaveACause
  <2>3. CASE \E c \in Clients : Step(c)
    <3>1. PICK c \in Clients : Step(c)
      BY <2>3
    <3>2. crashes' = crashes
      BY <1>2, <3>1, TreeTypes
    <3>3. CASE lost' = lost
      BY <1>2, <2>2, <3>1, <3>2, <3>3, NoNewStrays
    <3>4. CASE lost' # lost
      <4>1. Cleanup(c)
        BY <3>1, <3>4 DEF Step, Put, Delete, Get, Call, Return, Stat, Mkdir, CreateTemp, NoDirectory,
           Copy, RejectTooLarge, Rename, PutFails, Remove, Prune, Open, ServeContent
      <4>2. Cardinality(Strays') <= Cardinality(Strays) + 1 /\ lost' = lost + 1
        BY <1>2, <3>4, <4>1, StrayOfAFailedRemove
      <4>3. QED
        BY <1>2, <2>0, <2>1, <3>2, <4>2 DEF StrayTempsHaveACause
    <3>5. QED
      BY <3>3, <3>4
  <2>4. CASE Crash
    <3>1. crashes' = crashes + 1 /\ lost' = lost
      BY <2>4 DEF Crash
    <3>2. (crashes + 1) * Cardinality(Clients) = crashes * Cardinality(Clients) + Cardinality(Clients)
      BY <2>1
    <3>3. Cardinality(Strays') <= Cardinality(Strays) + Cardinality(Clients)
      BY <1>2, <2>4, StraysOfARestart
    <3>4. QED
      BY <1>2, <2>0, <2>1, <3>1, <3>2, <3>3 DEF StrayTempsHaveACause
  <2>5. CASE UNCHANGED vars
    BY <2>2, <2>5 DEF vars, Strays
  <2>6. QED
    BY <1>2, <2>3, <2>4, <2>5 DEF Next, Step
<1>3. QED
  BY <1>1, <1>2, DriverInvariant, PTL DEF Spec
-----------------------------------------------------------------------------
\* What a step of a client takes out of the tree is its own.
LEMMA NamesStep ==
  ASSUME FsInv, NEW c \in Clients, Step(c)
  PROVE  /\ \A k \in Keys : entry[k] # None /\ entry'[k] = None =>
              op[c].pc = "remove" /\ Key(c) = k /\ op'[c].pc = "prune"
         /\ \A f \in Files : temps[f] # None /\ temps'[f] = None =>
              Writing(c) /\ op[c].file = f /\ op'[c].file = None
<1>1. TypeOK /\ CallOK(op[c]) /\ op[c] \in Ops
  BY DEF FsInv, TypeOK
<1>2. CASE UNCHANGED <<entry, temps>>
  BY <1>2
<1>3. CASE \E f \in Files : CreateTemp(c, f)
  <2>1. PICK f \in Files : CreateTemp(c, f)
    BY <1>3
  <2>2. entry' = entry /\ temps' = [temps EXCEPT ![f] = Dir(c)] /\ temps[f] = None
    BY <2>1 DEF CreateTemp, Free
  <2>3. QED
    BY <1>1, <2>2 DEF TypeOK
<1>4. CASE Rename(c) \/ Cleanup(c)
  <2>1. PICK pc \in {"done", "failed"} : Enter(c, [op[c] EXCEPT !.pc = pc, !.file = None])
    BY <1>4 DEF Rename, Cleanup
  <2>2. op'[c].file = None /\ Writing(c) /\ op[c].file \in Files
    BY <1>1, <1>4, <2>1, LetGo DEF Rename, Cleanup, Writing, CallOK, Ops
  <2>3. temps' = temps \/ temps' = [temps EXCEPT ![op[c].file] = None]
    BY <1>4 DEF Rename, Cleanup
  <2>4. entry' = entry \/ entry' = [entry EXCEPT ![Key(c)] = op[c].file]
    BY <1>4 DEF Rename, Cleanup
  <2>5. \A k \in Keys : entry[k] # None => entry'[k] # None
    BY <1>1, <2>2, <2>4, AbsentIsAbsent DEF TypeOK
  <2>6. \A f \in Files : temps[f] # None /\ temps'[f] = None => op[c].file = f
    BY <1>1, <2>3 DEF TypeOK
  <2>7. QED
    BY <2>2, <2>5, <2>6
<1>5. CASE Remove(c)
  <2>1. CASE entry' = [entry EXCEPT ![Key(c)] = None] /\ Goto(c, "prune")
    <3>1. op'[c].pc = "prune" /\ op[c].pc = "remove" /\ temps' = temps
      BY <1>1, <1>5, <2>1, Went DEF Remove
    <3>2. \A k \in Keys : entry[k] # None /\ entry'[k] = None => Key(c) = k
      BY <1>1, <2>1 DEF TypeOK
    <3>3. QED
      BY <3>1, <3>2
  <2>2. CASE UNCHANGED entry
    BY <1>2, <1>5, <2>2 DEF Remove
  <2>3. QED
    BY <1>5, <2>1, <2>2 DEF Remove
<1>6. QED
  BY <1>2, <1>3, <1>4, <1>5
     DEF Step, Put, Delete, Get, Call, Return, Stat, Mkdir, NoDirectory, Copy, RejectTooLarge,
         PutFails, Prune, Open, ServeContent

\* DeleteObject's prune against writeObject: whatever puts and deletes share a
\* directory, nobody's file or temp file goes but by its owner.
THEOREM PruneSparesFiles == Spec => NamesGoByTheirOwners
<1>1. ASSUME FsInv, [Next]_vars
      PROVE  /\ \A k \in Keys : entry[k] # None /\ entry'[k] = None =>
                  \E c \in Clients : op[c].pc = "remove" /\ Key(c) = k /\ op'[c].pc = "prune"
             /\ \A f \in Files : temps[f] # None /\ temps'[f] = None =>
                  \E c \in Clients : Writing(c) /\ op[c].file = f /\ op'[c].file = None
  <2>1. CASE \E c \in Clients : Step(c)
    <3>1. PICK c \in Clients : Step(c)
      BY <2>1
    <3>2. QED
      BY <1>1, <3>1, NamesStep
  <2>2. CASE Crash \/ UNCHANGED vars
    BY <2>2 DEF Crash, vars
  <2>3. QED
    BY <1>1, <2>1, <2>2 DEF Next, Step
<1>2. FsInv /\ [Next]_vars =>
        /\ \A k \in Keys : entry[k] # None /\ entry'[k] = None =>
             \E c \in Clients : op[c].pc = "remove" /\ Key(c) = k /\ op'[c].pc = "prune"
        /\ \A f \in Files : temps[f] # None /\ temps'[f] = None =>
             \E c \in Clients : Writing(c) /\ op[c].file = f /\ op'[c].file = None
  BY <1>1
<1>3. QED
  BY <1>2, DriverInvariant, PTL DEF Spec, NamesGoByTheirOwners
-----------------------------------------------------------------------------
\* How a call looks from outside.
Look(o, d) == [state   |-> StateOf(o.pc),
               request |-> o.request,
               answer  |-> IF o.pc = "serve" THEN d ELSE o.answer]

\* Nobody else's call looks different after a step.
LEMMA OthersLookAlike ==
  ASSUME FsInv, NEW c \in Clients, NEW b \in Clients \ {c}, Step(c), op'[b] = op[b]
  PROVE  Visible'[b] = Visible[b]
<1>1. TypeOK /\ FileOK(c) /\ FileOK(b) /\ CallOK(op[c]) /\ CallOK(op[b]) /\ op[b] \in Ops /\ op[c] \in Ops
  BY DEF FsInv, TypeOK
<1>2. op[b].pc = "serve" => data'[op[b].file] = data[op[b].file]
  <2>1. SUFFICES ASSUME op[b].pc = "serve" PROVE data'[op[b].file] = data[op[b].file]
    OBVIOUS
  <2>2. op[b].file \in Files
    BY <1>1, <2>1 DEF CallOK, Ops
  <2>3. CASE data' = data
    BY <2>3
  <2>4. CASE \E f \in Files : CreateTemp(c, f)
    BY <1>1, <2>2, <2>4 DEF CreateTemp, Free, TypeOK
  <2>5. CASE Copy(c)
    <3>1. op[b].file # op[c].file
      BY <1>1, <2>5 DEF Copy, FileOK, Writing
    <3>2. QED
      BY <1>1, <2>2, <2>5, <3>1 DEF Copy, TypeOK
  <2>6. QED
    BY <2>3, <2>4, <2>5 DEF Step, Put, Delete, Get, Call, Return, Stat, Mkdir, NoDirectory,
       RejectTooLarge, Rename, PutFails, Cleanup, Remove, Prune, Open, ServeContent
<1>3. QED
  BY <1>2 DEF Visible

\* A step that links no name and unlinks none changes no object.
LEMMA ObjectsStay ==
  ASSUME FsInv, NEW c \in Clients, Step(c), UNCHANGED entry
  PROVE  Linked' = Linked
<1>1. TypeOK /\ FileOK(c) /\ CallOK(op[c]) /\ op[c] \in Ops
  BY DEF FsInv, TypeOK
<1>2. SUFFICES ASSUME NEW k \in Keys, entry[k] # None PROVE data'[entry[k]] = data[entry[k]]
  BY DEF Linked
<1>3. entry[k] \in Files
  BY <1>1, <1>2 DEF TypeOK
<1>4. CASE data' = data
  BY <1>4
<1>5. CASE \E f \in Files : CreateTemp(c, f)
  BY <1>1, <1>3, <1>5 DEF CreateTemp, Free, TypeOK
<1>6. CASE Copy(c)
  <2>1. entry[k] # op[c].file
    BY <1>1, <1>6 DEF Copy, FileOK, Writing
  <2>2. QED
    BY <1>1, <1>3, <1>6, <2>1 DEF Copy, TypeOK
<1>7. QED
  BY <1>4, <1>5, <1>6 DEF Step, Put, Delete, Get, Call, Return, Stat, Mkdir, NoDirectory,
     RejectTooLarge, Rename, PutFails, Cleanup, Remove, Prune, Open, ServeContent

\* One call looks different: the others stay.
LEMMA OneLooksDifferent ==
  ASSUME FsInv, NEW c \in Clients, Step(c), \A b \in Clients \ {c} : op'[b] = op[b]
  PROVE  /\ Visible' = [Visible EXCEPT ![c] = Visible'[c]]
         /\ Visible'[c] = Visible[c] => Visible' = Visible
         /\ Visible \in [Clients -> {Visible[b] : b \in Clients}]
<1>1. \A b \in Clients \ {c} : Visible'[b] = Visible[b]
  BY OthersLookAlike
<1>2. DOMAIN Visible = Clients /\ DOMAIN Visible' = Clients
  BY DEF Visible
<1>3. Visible = [b \in Clients |-> Visible[b]] /\ Visible' = [b \in Clients |-> Visible'[b]]
  BY DEF Visible
<1>4. QED
  BY <1>1, <1>2, <1>3

\* Every step of a client is one of the abstract store's, or none.
LEMMA ClientImplements ==
  ASSUME MaxInt \notin Caps, FsInv, FsInv', NEW c \in Clients, Step(c)
  PROVE  Store!Next \/ UNCHANGED <<Linked, Visible>>
<1>1. /\ TypeOK /\ op[c] \in Ops /\ CallOK(op[c]) /\ FileOK(c) /\ CallOK(op'[c])
      /\ \A k \in Keys : LinkOK(k)
  BY DEF FsInv, TypeOK
<1>2. Visible[c] = Look(op[c], data[op[c].file]) /\ Visible'[c] = Look(op'[c], data'[op'[c].file])
  BY DEF Visible, Look
<1>3. ASSUME UNCHANGED entry, \A b \in Clients \ {c} : op'[b] = op[b], Visible'[c] = Visible[c]
      PROVE  UNCHANGED <<Linked, Visible>>
  BY <1>3, ObjectsStay, OneLooksDifferent
<1>4. ASSUME UNCHANGED entry, \A b \in Clients \ {c} : op'[b] = op[b],
             Visible[c].state = "called", Visible'[c] = [Visible[c] EXCEPT !.state = "failed"]
      PROVE  Store!Next
  <2>1. Store!Fail(c)
    BY <1>4, ObjectsStay, OneLooksDifferent DEF Store!Fail
  <2>2. QED
    BY <2>1 DEF Store!Next
<1>5. CASE \E r \in Requests : Put(c, r) \/ Delete(c, r) \/ Get(c, r)
  <2>1. PICK r \in Requests, pc \in {"stat", "remove", "open"} : Call(c, r, pc)
    BY <1>5 DEF Put, Delete, Get
  <2>2. op'[c] = Started(pc, r) /\ op[c] = Idle /\ \A b \in Clients \ {c} : op'[b] = op[b]
    BY <1>1, <2>1, Move DEF Call
  <2>3. /\ Visible[c] = [state |-> "idle", request |-> None, answer |-> None]
        /\ Visible'[c] = [state |-> "called", request |-> r, answer |-> None]
    BY <1>2, <2>2 DEF Look, Idle, Started, StateOf
  <2>4. Linked' = Linked /\ Visible' = [Visible EXCEPT ![c] = Visible'[c]]
    BY <2>1, <2>2, ObjectsStay, OneLooksDifferent DEF Call
  <2>5. Store!Call(c, r)
    BY <2>3, <2>4 DEF Store!Call, Store!NoCall
  <2>6. r \in Store!Requests
    BY DEF Requests, Puts, Lookups, Store!Requests, Store!Puts, Store!Lookups
  <2>7. QED
    BY <2>5, <2>6 DEF Store!Next
<1>6. CASE Return(c)
  <2>1. op'[c] = Idle /\ op[c].pc \in {"done", "failed"} /\ \A b \in Clients \ {c} : op'[b] = op[b]
    BY <1>1, <1>6, Move DEF Return
  <2>2. /\ Visible[c].state \in {"applied", "failed"}
        /\ Visible'[c] = [state |-> "idle", request |-> None, answer |-> None]
    BY <1>2, <2>1 DEF Look, Idle, Started, StateOf
  <2>3. Linked' = Linked /\ Visible' = [Visible EXCEPT ![c] = Visible'[c]]
    BY <1>6, <2>1, ObjectsStay, OneLooksDifferent DEF Return
  <2>4. Store!Return(c)
    BY <2>2, <2>3 DEF Store!Return, Store!NoCall
  <2>5. QED
    BY <2>4 DEF Store!Next
<1>7. CASE Stat(c)
  <2>1. /\ op[c].pc = "stat" /\ op'[c].pc \in {"stat", "temp", "mkdir"}
        /\ op'[c].request = op[c].request /\ op'[c].answer = op[c].answer
        /\ \A b \in Clients \ {c} : op'[b] = op[b]
    BY <1>1, <1>7, Went, Searched DEF Stat
  <2>2. Visible'[c] = Visible[c]
    BY <1>2, <2>1 DEF Look, StateOf
  <2>3. QED
    BY <1>3, <1>7, <2>1, <2>2 DEF Stat
<1>8. CASE Mkdir(c) /\ Descend(c)
  <2>1. /\ op[c].pc = "mkdir" /\ op'[c].pc \in {"temp", "mkdir"}
        /\ op'[c].request = op[c].request /\ op'[c].answer = op[c].answer
        /\ \A b \in Clients \ {c} : op'[b] = op[b]
    BY <1>1, <1>8, Descended DEF Mkdir
  <2>2. Visible'[c] = Visible[c]
    BY <1>2, <2>1 DEF Look, StateOf
  <2>3. QED
    BY <1>3, <1>8, <2>1, <2>2 DEF Mkdir
<1>9. CASE \E f \in Files : CreateTemp(c, f)
  <2>1. PICK f \in Files : CreateTemp(c, f)
    BY <1>9
  <2>2. /\ op[c].pc = "temp" /\ op'[c].pc = "copy"
        /\ op'[c].request = op[c].request /\ op'[c].answer = op[c].answer
        /\ \A b \in Clients \ {c} : op'[b] = op[b]
    BY <1>1, <2>1, Opened DEF CreateTemp
  <2>3. Visible'[c] = Visible[c]
    BY <1>2, <2>2 DEF Look, StateOf
  <2>4. QED
    BY <1>3, <2>1, <2>2, <2>3 DEF CreateTemp
<1>10. CASE Copy(c)
  <2>1. op' = op /\ op[c].pc = "copy" /\ UNCHANGED entry
    BY <1>10 DEF Copy
  <2>2. Visible'[c] = Visible[c]
    BY <1>2, <2>1 DEF Look
  <2>3. QED
    BY <1>3, <2>1, <2>2
<1>11. CASE \E pc \in {"failed", "cleanup"}, cause \in {"io", "size", "dir"} :
              /\ FailAt(c, pc, cause) /\ UNCHANGED entry
              /\ op[c].pc \in {"stat", "mkdir", "temp", "copy", "remove", "open"}
  <2>1. PICK pc \in {"failed", "cleanup"}, cause \in {"io", "size", "dir"} : FailAt(c, pc, cause)
    BY <1>11
  <2>2. /\ op'[c].pc = pc /\ op'[c].request = op[c].request /\ op'[c].answer = op[c].answer
        /\ \A b \in Clients \ {c} : op'[b] = op[b]
    BY <1>1, <2>1, Failed
  <2>3. StateOf(op[c].pc) = "called" /\ StateOf(op'[c].pc) = "failed" /\ op[c].pc # "serve" /\ op'[c].pc # "serve"
    BY <1>11, <2>2 DEF StateOf
  <2>4. Visible[c].state = "called" /\ Visible'[c] = [Visible[c] EXCEPT !.state = "failed"]
    BY <1>2, <2>2, <2>3 DEF Look
  <2>5. QED
    BY <1>4, <1>11, <2>2, <2>4
<1>12. CASE Rename(c)
  <2> DEFINE k == Key(c)
             r == op[c].request
  <2>1. /\ r \in Puts /\ k \in Keys /\ op[c].pc = "copy" /\ op[c].answer = None /\ op[c].file \in Files
        /\ Writing(c)
    BY <1>1, <1>12 DEF Rename, CallOK, Puts, Key, Ops, Writing
  <2>2. /\ op'[c].pc = "done" /\ op'[c].request = r /\ op'[c].answer = None
        /\ \A b \in Clients \ {c} : op'[b] = op[b]
    BY <1>1, <1>12, <2>1, LetGo DEF Rename
  <2>3. /\ Visible[c] = [state |-> "called", request |-> r, answer |-> None]
        /\ Visible'[c] = [state |-> "applied", request |-> r, answer |-> None]
    BY <1>2, <2>1, <2>2 DEF Look, StateOf
  <2>4. Body(c) \in Bodies /\ Cap(c) \in Nat /\ Length[Body(c)] \in Nat
    BY <2>1, BodiesAssumption, CapsAreNumbers DEF Puts, Body, Cap
  <2>5. data[op[c].file] \in Contents /\ data[op[c].file].body = Body(c) /\ data[op[c].file].len = Reads(c)
    BY <1>1, <1>12, <2>1 DEF FileOK, Rename, Copied
  <2>6. Reads(c) = Length[Body(c)] /\ Store!Fits(r)
    <3>1. Cap(c) # MaxInt
      BY <2>1 DEF Puts, Cap
    <3>2. QED
      BY <1>12, <2>4, <2>5, <3>1 DEF Rename, TooLarge, Copied, Reads, Limit, Store!Fits, Body, Cap
  <2>7. data[op[c].file] = Store!Whole(r.body)
    BY <2>5, <2>6 DEF Contents, Store!Whole, Body
  <2>8. Linked' = [Linked EXCEPT ![r.key] = Store!Whole(r.body)]
    <3>1. entry' = [entry EXCEPT ![k] = op[c].file] /\ data' = data /\ op[c].file # None
      BY <1>12, <2>1, AbsentIsAbsent DEF Rename
    <3>2. QED
      BY <1>1, <2>1, <2>7, <3>1 DEF Linked, TypeOK, Key
  <2>9. Visible' = [Visible EXCEPT ![c] = Visible'[c]]
    BY <2>2, OneLooksDifferent
  <2>10. Store!Apply(c)
    BY <2>1, <2>3, <2>6, <2>8, <2>9 DEF Store!Apply, Puts
  <2>11. QED
    BY <2>10 DEF Store!Next
<1>13. CASE Cleanup(c)
  <2>1. /\ op[c].pc = "cleanup" /\ op'[c].pc = "failed"
        /\ op'[c].request = op[c].request /\ op'[c].answer = op[c].answer
        /\ \A b \in Clients \ {c} : op'[b] = op[b]
    BY <1>1, <1>13, LetGo DEF Cleanup
  <2>2. Visible'[c] = Visible[c]
    BY <1>2, <2>1 DEF Look, StateOf
  <2>3. QED
    BY <1>3, <1>13, <2>1, <2>2 DEF Cleanup
<1>14. CASE Remove(c) /\ Goto(c, "prune") /\ entry' = [entry EXCEPT ![Key(c)] = None]
  <2> DEFINE r == op[c].request
  <2>1. r.kind = "delete" /\ Key(c) \in Keys /\ op[c].pc = "remove" /\ op[c].answer = None
    BY <1>1, <1>14, CallHasKey DEF Remove, CallOK
  <2>2. /\ op'[c].pc = "prune" /\ op'[c].request = r /\ op'[c].answer = None
        /\ \A b \in Clients \ {c} : op'[b] = op[b]
    BY <1>1, <1>14, <2>1, Went
  <2>3. /\ Visible[c] = [state |-> "called", request |-> r, answer |-> None]
        /\ Visible'[c] = [state |-> "applied", request |-> r, answer |-> None]
    BY <1>2, <2>1, <2>2 DEF Look, StateOf
  <2>4. Linked' = [Linked EXCEPT ![r.key] = None]
    BY <1>1, <1>14, <2>1 DEF Remove, Linked, TypeOK, Key
  <2>5. Visible' = [Visible EXCEPT ![c] = Visible'[c]]
    BY <2>2, OneLooksDifferent
  <2>6. Store!Apply(c)
    BY <2>1, <2>3, <2>4, <2>5 DEF Store!Apply
  <2>7. QED
    BY <2>6 DEF Store!Next
<1>15. CASE Prune(c)
  <2>1. /\ op[c].pc = "prune" /\ op'[c].pc = "done"
        /\ op'[c].request = op[c].request /\ op'[c].answer = op[c].answer
        /\ \A b \in Clients \ {c} : op'[b] = op[b]
    BY <1>1, <1>15, Went DEF Prune
  <2>2. Visible'[c] = Visible[c]
    BY <1>2, <2>1 DEF Look, StateOf
  <2>3. QED
    BY <1>3, <1>15, <2>1, <2>2 DEF Prune
<1>16. CASE Open(c) /\ ~FailAt(c, "failed", "io")
  <2> DEFINE r == op[c].request
  <2>1. r.kind = "get" /\ Key(c) \in Keys /\ op[c].pc = "open" /\ op[c].answer = None
    BY <1>1, <1>16, CallHasKey DEF Open, CallOK
  <2>2. Linked' = Linked /\ data' = data
    BY <1>16, ObjectsStay DEF Open
  <2>3. /\ op'[c].request = r /\ op'[c].answer = None
        /\ \A b \in Clients \ {c} : op'[b] = op[b]
        /\ \/ op'[c].pc = "done" /\ entry[Key(c)] = None
           \/ op'[c].pc = "serve" /\ entry[Key(c)] # None /\ op'[c].file = entry[Key(c)]
    <3>1. CASE entry[Key(c)] = None /\ Goto(c, "done")
      BY <1>1, <2>1, <3>1, Went
    <3>2. CASE entry[Key(c)] # None /\ Enter(c, [op[c] EXCEPT !.pc = "serve", !.file = entry[Key(c)]])
      <4>1. /\ op'[c].pc = "serve" /\ op'[c].file = entry[Key(c)] /\ op'[c].request = r
            /\ op'[c].answer = op[c].answer /\ \A b \in Clients \ {c} : op'[b] = op[b]
        <5>1. /\ op'[c] = [op[c] EXCEPT !.pc = "serve", !.file = entry[Key(c)]]
              /\ \A b \in Clients \ {c} : op'[b] = op[b]
          BY <1>1, <3>2, Move
        <5>2. QED
          BY <1>1, <5>1 DEF Ops
      <4>2. QED
        BY <2>1, <3>2, <4>1
    <3>3. QED
      BY <1>16, <3>1, <3>2 DEF Open
  <2>4. Visible[c] = [state |-> "called", request |-> r, answer |-> None]
    BY <1>2, <2>1 DEF Look, StateOf
  <2>5. Visible'[c] = [state |-> "applied", request |-> r, answer |-> Linked[r.key]]
    BY <1>2, <2>1, <2>2, <2>3 DEF Look, StateOf, Linked, Key
  <2>6. Visible' = [Visible EXCEPT ![c] = Visible'[c]]
    BY <1>16, <2>3, OneLooksDifferent
  <2>7. Store!Apply(c)
    BY <2>1, <2>2, <2>4, <2>5, <2>6 DEF Store!Apply
  <2>8. QED
    BY <2>7 DEF Store!Next
<1>17. CASE ServeContent(c)
  <2>1. /\ op[c].pc = "serve" /\ op'[c].pc = "done"
        /\ op'[c].request = op[c].request /\ op'[c].answer = data[op[c].file]
        /\ \A b \in Clients \ {c} : op'[b] = op[b]
    BY <1>1, <1>17 DEF ServeContent, Enter, TypeOK, Ops
  <2>2. Visible'[c] = Visible[c]
    BY <1>2, <2>1 DEF Look, StateOf
  <2>3. QED
    BY <1>3, <1>17, <2>1, <2>2 DEF ServeContent
<1>18. CASE Mkdir(c) /\ ~Descend(c)
  BY <1>11, <1>18 DEF Mkdir
<1>19. CASE NoDirectory(c) \/ RejectTooLarge(c) \/ PutFails(c)
  BY <1>11, <1>19 DEF NoDirectory, RejectTooLarge, PutFails
<1>20. CASE Remove(c) /\ FailAt(c, "failed", "io") /\ UNCHANGED entry
  BY <1>11, <1>20 DEF Remove
<1>21. CASE Open(c) /\ FailAt(c, "failed", "io")
  BY <1>11, <1>21 DEF Open
<1>22. Remove(c) => \/ Goto(c, "prune") /\ entry' = [entry EXCEPT ![Key(c)] = None]
                    \/ FailAt(c, "failed", "io") /\ UNCHANGED entry
  BY DEF Remove
<1>23. QED
  BY <1>5, <1>6, <1>7, <1>8, <1>9, <1>10, <1>12, <1>13, <1>14, <1>15, <1>16, <1>17, <1>18, <1>19, <1>20, <1>21, <1>22
     DEF Step

\* The driver seen from its callers is an object store, as long as no limit is
\* the largest int64: each put, delete and get of storage.Driver happens at one
\* instant, and a failed one not at all.
THEOREM Refinement ==
  ASSUME MaxInt \notin Caps
  PROVE  Spec => ImplementsObjectStore
<1>1. Init => Store!Init
  <2>1. Init => Linked = [k \in Keys |-> None]
    BY DEF Init, Linked
  <2>2. Init => Visible = [c \in Clients |-> Store!NoCall]
    BY DEF Init, Visible, Idle, Started, StateOf, Store!NoCall
  <2>3. QED
    BY <2>1, <2>2 DEF Store!Init
<1>2. FsInv /\ FsInv' /\ [Next]_vars => [Store!Next]_<<Linked, Visible>>
  <2>1. SUFFICES ASSUME FsInv, FsInv', [Next]_vars PROVE Store!Next \/ UNCHANGED <<Linked, Visible>>
    OBVIOUS
  <2>2. CASE \E c \in Clients : Step(c)
    BY <2>1, <2>2, ClientImplements
  <2>3. CASE Crash
    <3>1. Linked' = Linked
      BY <2>3 DEF Crash, Linked
    <3>2. Visible' = [c \in Clients |-> Store!NoCall]
      BY <2>3 DEF Crash, Visible, Idle, Started, StateOf, Store!NoCall
    <3>3. QED
      BY <3>1, <3>2 DEF Store!Crash, Store!Next
  <2>4. CASE UNCHANGED vars
    BY <2>4 DEF vars, Linked, Visible
  <2>5. QED
    BY <2>1, <2>2, <2>3, <2>4 DEF Next, Step
<1>3. QED
  BY <1>1, <1>2, DriverInvariant, PTL DEF Spec, ImplementsObjectStore, Store!Spec
=============================================================================
