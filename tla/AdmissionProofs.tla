--------------------------- MODULE AdmissionProofs ---------------------------
(***************************************************************************)
(* Proofs about the path from the configuration file to an admitted upload, *)
(* for any set of files, any width of int64 and any number of rows.          *)
(***************************************************************************)
EXTENDS AdmissionProperties, FiniteSetTheorems, TLAPS

LEMMA Numbers ==
  /\ MaxInt \in Nat /\ MaxInt > 0 /\ MinInt \in Int
  /\ TooBig \in MinInt .. MaxInt
  /\ \A n \in Declared : n \in MinInt .. MaxInt
BY AdmissionAssumption DEF MinInt

LEMMA BytesFit ==
  ASSUME NEW n \in Written
  PROVE  /\ Bytes(n) \in MinInt .. MaxInt
         /\ n \in Nat /\ Float[n] \in Nat
         /\ Bytes(n) = 0 <=> n = 0
         /\ n > 0 => Float[n] > 0
         /\ n <= Precise => Float[n] = n
         /\ Float[n] <= MaxInt => Bytes(n) = Float[n]
<1>1. n \in Nat /\ TooBig \in {MinInt, MaxInt} /\ MaxInt \in Nat /\ MaxInt > 0
  BY AdmissionAssumption
<1>2. /\ Precise \in Nat /\ Precise > 0 /\ Float[n] \in Nat
      /\ IF n <= Precise THEN Float[n] = n ELSE Float[n] >= Precise
  BY AdmissionAssumption
<1>3. Float[n] = 0 <=> n = 0
  BY <1>1, <1>2
<1>4. QED
  BY <1>1, <1>2, <1>3 DEF Bytes, MinInt

LEMMA FileFields ==
  ASSUME TypeOK
  PROVE  /\ file \in File
         /\ DOMAIN file.places \subseteq Names
         /\ \A n \in DOMAIN file.places : file.places[n] \in Definition
<1>1. file \in File
  BY AdmissionAssumption DEF TypeOK
<1>2. PICK S \in SUBSET Names : file.places \in [S -> Definition]
  BY <1>1 DEF File
<1>3. QED
  BY <1>1, <1>2

LEMMA AccountNeedsIdentity ==
  ASSUME NEW d, Build(d).strategy = "account" PROVE Build(d).identity
<1>1. NeedsIdentity(d) \in BOOLEAN /\ (d.strategy = "account" => NeedsIdentity(d))
  BY DEF NeedsIdentity
<1>2. Build(d).strategy = (IF d.strategy = "" THEN "dump" ELSE d.strategy)
  BY <1>1 DEF Build
<1>3. Build(d).identity = NeedsIdentity(d)
  BY <1>1 DEF Build
<1>4. QED
  BY <1>1, <1>2, <1>3

\* A place built from a definition whose strategy is known.
LEMMA BuildOK ==
  ASSUME file \in File, NEW d \in Definition, d.strategy # "other"
  PROVE  Build(d) \in [strategy : {"dump", "account"}, max : MinInt .. MaxInt, identity : BOOLEAN]
<1>1. d.strategy \in {"", "dump", "account"} /\ d.identity \in BOOLEAN /\ d.max \in Written
  BY DEF Definition
<1>2. file.max \in Written
  BY DEF File
<1>3. Cap(d) \in MinInt .. MaxInt
  BY <1>1, <1>2, BytesFit DEF Cap
<1>4. NeedsIdentity(d) \in BOOLEAN
  BY DEF NeedsIdentity
<1>5. QED
  BY <1>1, <1>3, <1>4 DEF Build

LEMMA AdmissionInit == ASSUME Init PROVE AdmissionInv
<1>1. places = <<>> /\ DOMAIN places = {}
  BY DEF Init
<1>2. TypeOK
  <2>1. rows \in [1 .. MaxUploads -> [user : Users, size : MinInt .. MaxInt] \union {None}]
    BY DEF Init
  <2>2. QED
    BY <1>1, <2>1 DEF Init, TypeOK, Stages
<1>3. BootProgress /\ RequestChecked
  BY DEF Init, BootProgress, RequestChecked
<1>4. QED
  BY <1>2, <1>3 DEF AdmissionInv

\* The steps of run.
LEMMA BootStep ==
  ASSUME AdmissionInv,
         Load \/ BuildDriver \/ BuildPlaces \/ BuildStore \/ Migrate \/ BuildAuth \/ Shutdown
  PROVE  AdmissionInv'
<1> USE DEF AdmissionInv
<1>1. CASE Load
  <2>1. TypeOK'
    BY <1>1 DEF Load, Advance, TypeOK, Stages
  <2>2. BootProgress' /\ RequestChecked'
    BY <1>1 DEF Load, Advance, BootProgress, RequestChecked
  <2>3. QED
    BY <2>1, <2>2
<1>2. CASE BuildDriver
  <2>1. TypeOK'
    BY <1>2 DEF BuildDriver, Advance, TypeOK, Stages
  <2>2. BootProgress' /\ RequestChecked'
    BY <1>2 DEF BuildDriver, Advance, BootProgress, RequestChecked
  <2>3. QED
    BY <2>1, <2>2
<1>3. CASE BuildPlaces
  <2>1. CASE \A n \in DOMAIN file.places : file.places[n].strategy # "other"
    <3>1. stage = "places" /\ stage' = "store" /\ places' = Built
          /\ UNCHANGED <<file, store, rows, req>>
      BY <1>3, <2>1 DEF BuildPlaces, Advance, Built
    <3>2. \A n \in DOMAIN file.places : Build(file.places[n])
             \in [strategy : {"dump", "account"}, max : MinInt .. MaxInt, identity : BOOLEAN]
      BY <2>1, FileFields, BuildOK
    <3>3. Built' = Built /\ DOMAIN places' \subseteq Names
      BY <3>1, FileFields DEF Built, Build, Cap
    <3>4. TypeOK'
      BY <3>1, <3>2, <3>3 DEF Built, TypeOK, Stages
    <3>5. BootProgress' /\ RequestChecked'
      BY <3>1, <3>3 DEF BootProgress, RequestChecked
    <3>6. QED
      BY <3>4, <3>5
  <2>2. CASE ~ \A n \in DOMAIN file.places : file.places[n].strategy # "other"
    <3>1. stage = "places" /\ stage' = "exited" /\ UNCHANGED <<file, places, store, rows, req>>
      BY <1>3, <2>2 DEF BuildPlaces, Advance
    <3>2. TypeOK'
      BY <3>1 DEF TypeOK, Stages
    <3>3. BootProgress' /\ RequestChecked'
      BY <3>1 DEF BootProgress, RequestChecked
    <3>4. QED
      BY <3>2, <3>3
  <2>3. QED
    BY <2>1, <2>2
<1>4. CASE BuildStore
  <2>1. PICK opened \in BOOLEAN :
          /\ IF Stateful(file) THEN Advance("store", opened, "migrate")
                               ELSE Advance("store", TRUE, "auth")
          /\ store' = (Stateful(file) /\ opened)
          /\ UNCHANGED <<file, places, rows, req>>
    BY <1>4 DEF BuildStore
  <2>2. Built' = Built /\ Valid(file)' = Valid(file) /\ Stateful(file)' = Stateful(file)
        /\ Stateful(file) \in BOOLEAN
    BY <2>1 DEF Built, Build, Cap, Stateful
  <2>3. TypeOK'
    BY <2>1, <2>2 DEF Advance, TypeOK, Stages
  <2>4. BootProgress' /\ RequestChecked'
    BY <2>1, <2>2 DEF Advance, BootProgress, RequestChecked
  <2>5. QED
    BY <2>3, <2>4
<1>5. CASE Migrate
  <2>1. PICK ok \in BOOLEAN :
          /\ Advance("migrate", ok, "auth") /\ store' = OpenAfter(ok)
          /\ UNCHANGED <<file, places, rows, req>>
    BY <1>5 DEF Migrate
  <2>2. Built' = Built /\ store' = (store /\ ok)
    BY <2>1 DEF Built, Build, Cap, OpenAfter
  <2>3. TypeOK'
    BY <2>1, <2>2 DEF Advance, TypeOK, Stages
  <2>4. BootProgress' /\ RequestChecked'
    BY <2>1, <2>2 DEF Advance, BootProgress, RequestChecked
  <2>5. QED
    BY <2>3, <2>4
<1>6. CASE BuildAuth
  <2>1. PICK ok \in BOOLEAN :
          /\ ok => HasServiceKey(file)
          /\ Advance("auth", ok, "serving")
          /\ store' = OpenAfter(ok)
          /\ UNCHANGED <<file, places, rows, req>>
    BY <1>6 DEF BuildAuth
  <2>2. Built' = Built /\ store' = (store /\ ok)
    BY <2>1 DEF Built, Build, Cap, OpenAfter
  <2>3. TypeOK'
    BY <2>1, <2>2 DEF Advance, TypeOK, Stages
  <2>4. BootProgress' /\ RequestChecked'
    BY <2>1, <2>2 DEF Advance, BootProgress, RequestChecked
  <2>5. QED
    BY <2>3, <2>4
<1>7. CASE Shutdown
  <2>1. TypeOK'
    BY <1>7 DEF Shutdown, TypeOK, Stages
  <2>2. BootProgress' /\ RequestChecked'
    BY <1>7 DEF Shutdown, BootProgress, RequestChecked
  <2>3. QED
    BY <2>1, <2>2
<1>8. QED
  BY <1>1, <1>2, <1>3, <1>4, <1>5, <1>6, <1>7

\* A request that passes the checks.
LEMMA PassStep ==
  ASSUME AdmissionInv, NEW c \in Callers, NEW name, NEW n \in Declared, Pass(c, name, n)
  PROVE  AdmissionInv'
<1> USE DEF AdmissionInv
<1>1. /\ stage = "serving" /\ Resolve(name) \in DOMAIN places
      /\ Validates(places[Resolve(name)], c, n)
      /\ req' = [caller |-> c, place |-> Resolve(name), size |-> n]
      /\ UNCHANGED <<file, stage, places, store, rows>>
  BY DEF Pass
<1>2. TypeOK'
  BY <1>1, Numbers DEF TypeOK
<1>3. BootProgress'
  BY <1>1 DEF BootProgress, Built, Build, Cap
<1>4. RequestChecked'
  BY <1>1 DEF RequestChecked, Validates
<1>5. QED
  BY <1>2, <1>3, <1>4

\* What is done with a request that passed, and the deletion of an upload.
LEMMA RowStep ==
  ASSUME AdmissionInv, Record \/ \E i \in DOMAIN rows : Delete(i)
  PROVE  AdmissionInv'
<1> USE DEF AdmissionInv
<1>1. UNCHANGED <<file, stage, places, store>> /\ req' = None
  BY DEF Record, Delete
<1>2. rows' \in [1 .. MaxUploads -> [user : Users, size : MinInt .. MaxInt] \union {None}]
  <2>1. CASE Record
    <3>1. req \in [caller : Callers, place : Names, size : MinInt .. MaxInt]
      BY <2>1 DEF Record, TypeOK
    <3>2. CASE req.caller = "anonymous" \/ rows' = rows
      BY <2>1, <3>2 DEF Record, TypeOK
    <3>3. CASE req.caller # "anonymous" /\ rows' # rows
      <4>1. [user |-> req.caller, size |-> req.size] \in [user : Users, size : MinInt .. MaxInt]
        BY <3>1, <3>3 DEF Callers
      <4>2. \E i \in DOMAIN rows :
              rows' = [rows EXCEPT ![i] = [user |-> req.caller, size |-> req.size]]
        BY <2>1, <3>3 DEF Record
      <4>3. QED
        BY <4>1, <4>2 DEF TypeOK
    <3>4. QED
      BY <3>2, <3>3
  <2>2. CASE \E i \in DOMAIN rows : Delete(i)
    BY <2>2 DEF Delete, TypeOK
  <2>3. QED
    BY <2>1, <2>2
<1>3. TypeOK'
  BY <1>1, <1>2 DEF TypeOK
<1>4. BootProgress' /\ RequestChecked'
  BY <1>1 DEF BootProgress, RequestChecked, Built, Build, Cap
<1>5. QED
  BY <1>3, <1>4

LEMMA AdmissionNext == ASSUME AdmissionInv, [Next]_vars PROVE AdmissionInv'
<1>1. CASE Load \/ BuildDriver \/ BuildPlaces \/ BuildStore \/ Migrate \/ BuildAuth \/ Shutdown
  BY <1>1, BootStep
<1>2. CASE \E c \in Callers, name \in Names \union {None}, n \in Declared :
             Presign(c, name, n) \/ Upload(c, name, n)
  BY <1>2, PassStep DEF Presign, Upload
<1>3. CASE Record \/ \E i \in DOMAIN rows : Delete(i)
  BY <1>3, RowStep
<1>4. CASE UNCHANGED vars
  BY <1>4 DEF vars, AdmissionInv, TypeOK, BootProgress, RequestChecked, Built, Build, Cap
<1>5. QED
  BY <1>1, <1>2, <1>3, <1>4 DEF Next

\* Every step of run and every request keeps what the steps before established.
THEOREM AdmissionInvariant == Spec => []AdmissionInv
<1>1. Init => AdmissionInv
  BY AdmissionInit
<1>2. AdmissionInv /\ [Next]_vars => AdmissionInv'
  BY AdmissionNext
<1>3. QED
  BY <1>1, <1>2, PTL DEF Spec

\* Every size of a built place fits int64, and the registry, the rows and the
\* request have the shapes the code gives them.
THEOREM AdmissionTypes == Spec => []TypeOK
<1>1. AdmissionInv => TypeOK
  BY DEF AdmissionInv
<1>2. QED
  BY <1>1, AdmissionInvariant, PTL

\* A process that serves has every seam its file asks for, and one that has
\* left run holds no database open.
THEOREM ServesWhatIsConfigured == Spec => []ServesAsConfigured
<1>1. ASSUME AdmissionInv PROVE ServesAsConfigured
  <2>1. ASSUME stage = "serving"
        PROVE  /\ file.driver = "fs" /\ (store <=> Stateful(file)) /\ (file.service => file.secret)
               /\ Valid(file) /\ places = Built
    BY <1>1, <2>1 DEF AdmissionInv, BootProgress, HasServiceKey
  <2>2. ASSUME stage = "serving"
        PROVE  /\ DOMAIN places = DOMAIN file.places /\ places # <<>>
               /\ Resolve(None) # None => Resolve(None) \in DOMAIN places
    <3>1. DOMAIN places = DOMAIN file.places
      BY <2>1, <2>2 DEF Built
    <3>2. DOMAIN places # {} /\ (file.default # None => file.default \in DOMAIN places)
      BY <2>1, <2>2, <3>1 DEF Valid
    <3>3. places # <<>>
      BY <3>2
    <3>4. QED
      BY <3>1, <3>2, <3>3 DEF Resolve
  <2>3. stage = "exited" => ~store
    BY <1>1 DEF AdmissionInv, BootProgress
  <2>4. QED
    BY <2>1, <2>2, <2>3 DEF ServesAsConfigured
<1>2. QED
  BY <1>1, AdmissionInvariant, PTL

\* An admitted upload is no larger than the file allows its place, as the nearest
\* float64 has it and exactly up to 2^53 bytes, whatever the platform makes of a
\* size that int64 cannot hold.
THEOREM CapsHold == Spec => []CapsHoldAsStated
<1>1. ASSUME AdmissionInv PROVE CapsHoldAsStated
  <2> SUFFICES ASSUME req # None, StatedCap(req.place) > 0
               PROVE  /\ req.size <= Float[StatedCap(req.place)]
                      /\ StatedCap(req.place) <= Precise => req.size <= StatedCap(req.place)
    BY DEF CapsHoldAsStated
  <2> DEFINE d == file.places[req.place]
  <2>1. /\ stage = "serving" /\ req.place \in DOMAIN places
        /\ Validates(places[req.place], req.caller, req.size)
    BY <1>1 DEF AdmissionInv, RequestChecked
  <2>2. places = Built
    BY <1>1, <2>1 DEF AdmissionInv, BootProgress
  <2>3. req.place \in DOMAIN file.places /\ places[req.place].max = Cap(d)
    BY <2>1, <2>2 DEF Built, Build
  <2>4. d \in Definition /\ d.max \in Written /\ file.max \in Written
    BY <1>1, <2>3, FileFields DEF AdmissionInv, Definition, File
  <2>5. req.size \in MinInt .. MaxInt
    BY <1>1 DEF AdmissionInv, TypeOK
  <2>6. Cap(d) > 0 => req.size <= Cap(d)
    BY <2>1, <2>3 DEF Validates
  <2> DEFINE s == IF d.max # 0 THEN d.max ELSE file.max
  <2>7. s \in Written /\ StatedCap(req.place) = s /\ Cap(d) = Bytes(s)
    BY <2>4, BytesFit DEF StatedCap, Cap
  <2>8. s > 0 /\ Float[s] \in Nat /\ Float[s] > 0 /\ (s <= Precise => Float[s] = s)
    BY <2>7, BytesFit
  <2>9. req.size <= Float[s]
    <3>1. CASE Float[s] <= MaxInt
      BY <2>6, <2>7, <2>8, <3>1, BytesFit
    <3>2. CASE Float[s] > MaxInt
      BY <2>5, <2>8, <3>2, Numbers
    <3>3. QED
      BY <2>8, <3>1, <3>2, Numbers
  <2>10. QED
    BY <2>7, <2>8, <2>9
<1>2. QED
  BY <1>1, AdmissionInvariant, PTL

\* What passed Validate never meets the refusal of DeriveKey.
THEOREM DeriveAccepts == Spec => []DeriveNeverRefuses
<1>1. ASSUME AdmissionInv PROVE DeriveNeverRefuses
  <2> SUFFICES ASSUME req # None, req.caller = "anonymous", places[req.place].strategy = "account"
               PROVE  FALSE
    BY DEF DeriveNeverRefuses, DeriveRefuses
  <2>1. stage = "serving" /\ req.place \in DOMAIN places /\ ~places[req.place].identity
    BY <1>1 DEF AdmissionInv, RequestChecked, Validates
  <2>2. req.place \in DOMAIN file.places /\ places[req.place] = Build(file.places[req.place])
    BY <1>1, <2>1 DEF AdmissionInv, BootProgress, Built
  <2>3. places[req.place].identity
    BY <2>2, AccountNeedsIdentity
  <2>4. QED
    BY <2>1, <2>3
<1>2. QED
  BY <1>1, AdmissionInvariant, PTL
-----------------------------------------------------------------------------
\* Counting: the charged bytes of a user are finitely many.
LEMMA ChargedFinite ==
  ASSUME TypeOK, NEW u
  PROVE  /\ IsFiniteSet(ChargedBytes(u)) /\ Usage(u) \in Nat
         /\ ChargedBytes(u) \subseteq (1 .. MaxUploads) \X (1 .. MaxInt)
<1>1. IsFiniteSet(1 .. MaxUploads) /\ IsFiniteSet(1 .. MaxInt)
  BY AdmissionAssumption, FS_Interval
<1>2. IsFiniteSet((1 .. MaxUploads) \X (1 .. MaxInt))
  BY <1>1, FS_Product
<1>3. DOMAIN rows = 1 .. MaxUploads
  BY DEF TypeOK
<1>4. ChargedBytes(u) \subseteq (1 .. MaxUploads) \X (1 .. MaxInt)
  BY <1>3 DEF ChargedBytes
<1>5. QED
  BY <1>2, <1>4, FS_Subset, FS_CardinalityType DEF Usage

\* A new row raises the usage of its user by its size at most.
LEMMA UsageRaised ==
  ASSUME TypeOK, NEW u, NEW i, NEW n \in Nat, TypeOK',
         ChargedBytes(u)' \subseteq ChargedBytes(u) \union ({i} \X (1 .. n))
  PROVE  Usage(u)' <= Usage(u) + n /\ Usage(u)' \in Nat
<1> DEFINE C == ChargedBytes(u)  D == {i} \X (1 .. n)
<1>1. IsFiniteSet(C) /\ Cardinality(C) = Usage(u) /\ Usage(u) \in Nat
  BY ChargedFinite DEF Usage
<1>2. IsFiniteSet(D) /\ Cardinality(D) = n
  <2>1. IsFiniteSet({i}) /\ Cardinality({i}) = 1
    BY FS_Singleton
  <2>2. IsFiniteSet(1 .. n) /\ Cardinality(1 .. n) = n
    BY FS_Interval
  <2>3. IsFiniteSet(D) /\ Cardinality(D) = Cardinality({i}) * Cardinality(1 .. n)
    BY <2>1, <2>2, FS_Product
  <2>4. QED
    BY <2>1, <2>2, <2>3
<1>3. /\ IsFiniteSet(C \union D)
      /\ Cardinality(C \union D) = Cardinality(C) + Cardinality(D) - Cardinality(C \cap D)
  BY <1>1, <1>2, FS_Union
<1>4. Cardinality(C \cap D) \in Nat
  <2>1. IsFiniteSet(C \cap D)
    BY <1>1, FS_Subset
  <2>2. QED
    BY <2>1, FS_CardinalityType
<1>5. /\ Cardinality(ChargedBytes(u)') <= Cardinality(C \union D)
      /\ IsFiniteSet(ChargedBytes(u)')
  BY <1>3, FS_Subset
<1>6. Cardinality(ChargedBytes(u)') \in Nat
  BY <1>5, FS_CardinalityType
<1>7. QED
  BY <1>1, <1>2, <1>3, <1>4, <1>5, <1>6 DEF Usage

\* A user whose rows are a subset of what they were is charged no more.
LEMMA UsageKept ==
  ASSUME TypeOK, TypeOK', NEW u, ChargedBytes(u)' \subseteq ChargedBytes(u)
  PROVE  Usage(u)' <= Usage(u) /\ Usage(u)' \in Nat /\ Usage(u) \in Nat
<1>1. IsFiniteSet(ChargedBytes(u)) /\ Usage(u) \in Nat
  BY ChargedFinite
<1>2. Cardinality(ChargedBytes(u)') <= Cardinality(ChargedBytes(u)) /\ IsFiniteSet(ChargedBytes(u)')
  BY <1>1, FS_Subset
<1>3. QED
  BY <1>1, <1>2, FS_CardinalityType DEF Usage

\* No row, no charge.
LEMMA UsageEmpty ==
  ASSUME \A i \in DOMAIN rows : rows[i] = None, NEW u
  PROVE  Usage(u) = 0
<1>1. ChargedBytes(u) = {}
  BY DEF ChargedBytes
<1>2. QED
  BY <1>1, FS_EmptySet DEF Usage

\* What the file states for a user is a natural number, and so is its float.
LEMMA StatedNat ==
  ASSUME TypeOK, NEW u \in Users
  PROVE  /\ Stated(u) \in Written /\ Stated(u) \in Nat
         /\ Quota(u) \in Nat /\ (Stated(u) > 0 => Quota(u) > 0)
<1>1. file \in File
  BY FileFields
<1>2. file.quota \in Written /\ file.overrides[u] \in Written \union {None}
  BY <1>1 DEF File
<1>3. Stated(u) \in Written
  BY <1>2 DEF Stated
<1>4. QED
  BY <1>3, BytesFit DEF Quota

\* The quota check of Pass is exact where the sum cannot wrap.
LEMMA CheckIsExact ==
  ASSUME TypeOK, NEW u \in Users, QuotaFitsInt(u), Usage(u) <= Quota(u),
         NEW p \in DOMAIN places, NEW n \in MinInt .. MaxInt,
         Validates(places[p], u, n), Check(u, n)
  PROVE  Usage(u) + n <= Quota(u)
<1>1. /\ Usage(u) \in Nat /\ Stated(u) \in Written /\ Quota(u) \in Nat
      /\ n \in Int /\ MaxInt \in Nat
  BY ChargedFinite, StatedNat, Numbers
<1>2. places[p].max \in Int
  BY Numbers DEF TypeOK
<1>3. /\ Quota(u) > 0
      /\ n > 0 /\ n <= places[p].max /\ places[p].max + Quota(u) <= MaxInt
  BY StatedNat DEF QuotaFitsInt, Validates
<1>4. Usage(u) + n <= MaxInt /\ Quota(u) <= MaxInt
  BY <1>1, <1>2, <1>3
<1>5. Limit(u) = Quota(u)
  BY <1>1, <1>4, BytesFit DEF Limit, Quota
<1>6. Wrap(Usage(u) + n) = Usage(u) + n
  BY <1>1, <1>4 DEF Wrap
<1>7. QED
  BY <1>3, <1>5, <1>6 DEF Check

\* A step that leaves the rows and the places alone and sets up no request.
LEMMA QuotaUntouched ==
  ASSUME QuotaInv, UNCHANGED <<file, places, rows>>, req' = None,
         stage \in {"serving", "exited"} => stage' \in {"serving", "exited"}
  PROVE  QuotaIsExact' /\ RequestFits'
BY DEF QuotaInv, QuotaIsExact, RequestFits, QuotaFitsInt, Usage, ChargedBytes, Quota, Stated

LEMMA QuotaBoot ==
  ASSUME AdmissionInv, AdmissionInv', QuotaInv,
         Load \/ BuildDriver \/ BuildPlaces \/ BuildStore \/ Migrate \/ BuildAuth \/ Shutdown
  PROVE  QuotaInv'
<1>1. /\ req = None /\ req' = None /\ UNCHANGED <<file, rows>>
      /\ stage \in {"serving", "exited"} => stage' \in {"serving", "exited"}
  BY DEF AdmissionInv, RequestChecked, Load, BuildDriver, BuildPlaces, BuildStore, Migrate, BuildAuth,
         Shutdown, Advance
<1>2. NoRowsBeforeServing'
  BY <1>1 DEF QuotaInv, NoRowsBeforeServing
<1>3. CASE UNCHANGED places
  BY <1>1, <1>2, <1>3, QuotaUntouched DEF QuotaInv
<1>4. CASE BuildPlaces
  <2>1. \A i \in DOMAIN rows' : rows'[i] = None
    BY <1>1, <1>4 DEF QuotaInv, NoRowsBeforeServing, BuildPlaces, Advance
  <2>2. \A u \in Users : Usage(u)' = 0 /\ Quota(u)' \in Nat
    <3>1. ASSUME NEW u \in Users PROVE Usage(u)' = 0
      <4>1. ChargedBytes(u)' = {}
        BY <2>1 DEF ChargedBytes
      <4>2. QED
        BY <4>1, FS_EmptySet DEF Usage
    <3>2. ASSUME NEW u \in Users PROVE Quota(u)' = Quota(u) /\ Quota(u) \in Nat
      BY <1>1, StatedNat DEF AdmissionInv, Quota, Stated
    <3>3. QED
      BY <3>1, <3>2
  <2>3. QED
    BY <1>1, <1>2, <2>2 DEF QuotaInv, QuotaIsExact, RequestFits
<1>5. QED
  BY <1>3, <1>4 DEF Load, BuildDriver, BuildStore, Migrate, BuildAuth, Shutdown

LEMMA QuotaPass ==
  ASSUME AdmissionInv, QuotaInv, NEW c \in Callers, NEW name, NEW n \in Declared,
         Pass(c, name, n)
  PROVE  QuotaInv'
<1>1. /\ Resolve(name) \in DOMAIN places /\ Validates(places[Resolve(name)], c, n)
      /\ c # "anonymous" /\ store => Check(c, n)
      /\ req' = [caller |-> c, place |-> Resolve(name), size |-> n]
      /\ UNCHANGED <<file, stage, places, store, rows>>
  BY DEF Pass
<1>2. QuotaIsExact' /\ NoRowsBeforeServing'
  BY <1>1 DEF QuotaInv, QuotaIsExact, NoRowsBeforeServing, QuotaFitsInt, Usage, ChargedBytes,
              Quota, Stated
<1>3. ASSUME NEW u \in Users, QuotaFitsInt(u), store, c = u
      PROVE  Usage(u) + n <= Quota(u)
  <2>1. Check(u, n) /\ Usage(u) <= Quota(u)
    BY <1>1, <1>3, AdmissionAssumption DEF QuotaInv, QuotaIsExact
  <2>2. QED
    BY <1>1, <1>3, <2>1, CheckIsExact, Numbers DEF AdmissionInv
<1>4. \A u \in Users : /\ QuotaFitsInt(u)' = QuotaFitsInt(u)
                       /\ Usage(u)' = Usage(u) /\ Quota(u)' = Quota(u)
  BY <1>1 DEF QuotaFitsInt, Usage, ChargedBytes, Quota, Stated
<1>5. RequestFits'
  BY <1>1, <1>3, <1>4 DEF RequestFits
<1>6. QED
  BY <1>2, <1>5 DEF QuotaInv

LEMMA QuotaRow ==
  ASSUME AdmissionInv, AdmissionInv', QuotaInv, Record \/ \E i \in DOMAIN rows : Delete(i)
  PROVE  QuotaInv'
<1>1. UNCHANGED <<file, stage, places, store>> /\ req' = None /\ stage = "serving"
  BY DEF Record, Delete, AdmissionInv, RequestChecked
<1>2. NoRowsBeforeServing' /\ RequestFits'
  BY <1>1 DEF NoRowsBeforeServing, RequestFits
<1>3. ASSUME NEW u \in Users, QuotaFitsInt(u)'
      PROVE  Usage(u)' <= Quota(u)'
  <2>1. Quota(u)' = Quota(u) /\ QuotaFitsInt(u) /\ Quota(u) \in Nat
    BY <1>1, <1>3, StatedNat DEF AdmissionInv, Quota, Stated, QuotaFitsInt
  <2>2. Usage(u) <= Quota(u) /\ Usage(u) \in Nat
    BY <2>1, ChargedFinite DEF QuotaInv, QuotaIsExact, AdmissionInv
  <2>3. CASE ChargedBytes(u)' \subseteq ChargedBytes(u)
    BY <2>1, <2>2, <2>3, UsageKept DEF AdmissionInv
  <2>4. CASE /\ Record /\ store /\ req.caller = u
             /\ \E i \in DOMAIN rows :
                  rows' = [rows EXCEPT ![i] = [user |-> req.caller, size |-> req.size]]
    <3>1. PICK i \in DOMAIN rows :
                 rows' = [rows EXCEPT ![i] = [user |-> req.caller, size |-> req.size]]
      BY <2>4
    <3>2. req.size \in Nat
      BY <2>4, Numbers DEF Record, AdmissionInv, RequestChecked, TypeOK, Validates
    <3>3. ChargedBytes(u)' \subseteq ChargedBytes(u) \union ({i} \X (1 .. req.size))
      BY <3>1, <3>2 DEF ChargedBytes
    <3>4. Usage(u)' <= Usage(u) + req.size /\ Usage(u)' \in Nat
      BY <3>2, <3>3, UsageRaised DEF AdmissionInv
    <3>5. Usage(u) + req.size <= Quota(u)
      BY <2>1, <2>4 DEF QuotaInv, RequestFits, Record
    <3>6. QED
      BY <2>1, <2>2, <3>2, <3>4, <3>5
  <2>5. QED
    <3>1. CASE Record
      <4>1. CASE rows' = rows
        BY <2>3, <4>1 DEF ChargedBytes
      <4>2. CASE rows' # rows
        <5>1. /\ store
              /\ \E i \in DOMAIN rows :
                   /\ rows[i] = None
                   /\ rows' = [rows EXCEPT ![i] = [user |-> req.caller, size |-> req.size]]
          BY <3>1, <4>2 DEF Record
        <5>2. CASE req.caller = u
          BY <2>4, <3>1, <5>1, <5>2
        <5>3. CASE req.caller # u
          <6>1. ChargedBytes(u)' \subseteq ChargedBytes(u)
            BY <5>1, <5>3 DEF ChargedBytes
          <6>2. QED
            BY <2>3, <6>1
        <5>4. QED
          BY <5>2, <5>3
      <4>3. QED
        BY <4>1, <4>2
    <3>2. CASE \E i \in DOMAIN rows : Delete(i)
      <4>1. ChargedBytes(u)' \subseteq ChargedBytes(u)
        BY <3>2 DEF ChargedBytes, Delete
      <4>2. QED
        BY <2>3, <4>1
    <3>3. QED
      BY <3>1, <3>2
<1>4. QED
  BY <1>2, <1>3 DEF QuotaInv, QuotaIsExact

\* One request at a time the quota is exact, for any files, any width of int64
\* and any number of rows, where every place has a cap and cap and quota fit.
THEOREM QuotaExact == Spec => []QuotaIsExact
<1>1. ASSUME Init PROVE QuotaInv
  <2>1. \A i \in DOMAIN rows : rows[i] = None
    BY <1>1 DEF Init
  <2>2. \A u \in Users : Usage(u) = 0 /\ Quota(u) \in Nat
    BY <1>1, <2>1, UsageEmpty, AdmissionInit, StatedNat DEF AdmissionInv
  <2>3. req = None
    BY <1>1 DEF Init
  <2>4. QED
    BY <2>1, <2>2, <2>3 DEF QuotaInv, QuotaIsExact, NoRowsBeforeServing, RequestFits
<1>2. ASSUME AdmissionInv, AdmissionInv', QuotaInv, [Next]_vars PROVE QuotaInv'
  <2>1. CASE Load \/ BuildDriver \/ BuildPlaces \/ BuildStore \/ Migrate \/ BuildAuth \/ Shutdown
    BY <1>2, <2>1, QuotaBoot
  <2>2. CASE \E c \in Callers, name \in Names \union {None}, n \in Declared :
               Presign(c, name, n) \/ Upload(c, name, n)
    BY <1>2, <2>2, QuotaPass DEF Presign, Upload
  <2>3. CASE Record \/ \E i \in DOMAIN rows : Delete(i)
    BY <1>2, <2>3, QuotaRow
  <2>4. CASE UNCHANGED vars
    BY <1>2, <2>4 DEF vars, QuotaInv, QuotaIsExact, NoRowsBeforeServing, RequestFits,
                      QuotaFitsInt, Usage, ChargedBytes, Quota, Stated
  <2>5. QED
    BY <1>2, <2>1, <2>2, <2>3, <2>4 DEF Next
<1>3. QuotaInv => QuotaIsExact
  BY DEF QuotaInv
<1>4. QED
  BY <1>1, <1>2, <1>3, AdmissionInvariant, PTL DEF Spec
=============================================================================
