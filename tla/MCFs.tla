-------------------------------- MODULE MCFs --------------------------------
(* An instance of FsDriver for TLC. *)
EXTENDS FsProperties, TLC

\* A dump key in a directory of its own and an account key beside it.
TwoKeys   == {"dump", "account"}
TwoDirs   == {"owner", "unique"}
DirOfKey  == [k \in TwoKeys |-> IF k = "dump" THEN "unique" ELSE "owner"]
ParentDir == [d \in TwoDirs |-> IF d = "unique" THEN "owner" ELSE Root]

\* One body within the limit of one byte, one past it.
LengthOf == [b \in {"short", "long"} |-> IF b = "short" THEN 1 ELSE 2]

\* What a file held before it became free is overwritten before it is read.
LiveState == <<dirs, entry, temps, [f \in Files |-> IF Free(f) THEN None ELSE data[f]],
               op, pruned, crashes, lost>>

Symmetric == Permutations(Clients) \union Permutations(Files)
=============================================================================
