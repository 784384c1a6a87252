------------------------------ MODULE HeapProofs ------------------------------
(***************************************************************************)
(* Theorems about the heap, for any objects, workers and native threads.   *)
(* Those about collections are for one program (SingleProgram): a          *)
(* collection of one of two frees what only the other holds.               *)
(***************************************************************************)
EXTENDS HeapProperties, FiniteSetTheorems, TLAPS

SingleProgram == \A p, q \in Programs : p = q

AliveIn(w) == {o \in Objects : Alive(o) /\ object[o].arena = w}

\* A record that is free has nothing left of the object that was there.
BlankIsAbsent == \A o \in Objects : object[o].record = "none" => object[o] = Absent

TombstonesEmpty ==
  \A o \in Objects :
    object[o].record = "tombstone" =>
      object[o].lifetime # "Live" /\ object[o].fields = {}

\* A worker has dropped the last reference to o and has not freed it yet, or has
\* queued it for the owner.
Doomed(o) == \E w \in Workers : o \in dropped[w] \cup remote[w]

NothingDangles ==
  \A o \in Referenced : object[o].record # "none" /\ ~Doomed(o)

TeardownHeld ==
  \A p \in Programs : teardown[p].of # None => teardown[p].of \in held[p]

ObjectsOK ==
  /\ LiveCountsExact
  /\ BlankIsAbsent
  /\ TombstonesEmpty

HeapInv ==
  /\ TypeOK
  /\ ObjectsOK
  /\ NothingDangles
  /\ TeardownHeld
-----------------------------------------------------------------------------
(* References *)

LEMMA ReferencedIs ==
  /\ \A o : o \in Referenced <=>
       \/ \E p \in Programs : o \in held[p]
       \/ \E h \in Natives : o \in handles[h]
       \/ o \in Pinned
       \/ \E x \in Objects : o \in object[x].fields
  /\ \A o : o \in Referenced' <=>
       \/ \E p \in Programs : o \in held'[p]
       \/ \E h \in Natives : o \in handles'[h]
       \/ o \in Pinned'
       \/ \E x \in Objects : o \in object'[x].fields
<1> DEFINE H == UNION {held[p] : p \in Programs}
           N == UNION {handles[h] : h \in Natives}
           F == UNION {object[x].fields : x \in Objects}
<1>1. /\ \A o : o \in H <=> \E p \in Programs : o \in held[p]
      /\ \A o : o \in H' <=> \E p \in Programs : o \in held'[p]
  OBVIOUS
<1>2. /\ \A o : o \in N <=> \E h \in Natives : o \in handles[h]
      /\ \A o : o \in N' <=> \E h \in Natives : o \in handles'[h]
  OBVIOUS
<1>3. /\ \A o : o \in F <=> \E x \in Objects : o \in object[x].fields
      /\ \A o : o \in F' <=> \E x \in Objects : o \in object'[x].fields
  OBVIOUS
<1>4. Referenced = H \cup N \cup Pinned \cup F
  BY DEF Referenced
<1>5. Referenced' = H' \cup N' \cup Pinned' \cup F'
  BY DEF Referenced
<1> HIDE DEF H, N, F
<1> QED
  BY <1>1, <1>2, <1>3, <1>4, <1>5

LEMMA ReferencedObjects ==
  ASSUME TypeOK
  PROVE  Referenced \in SUBSET Objects
<1>1. Pinned \subseteq Objects
  BY DEF TypeOK, Pinned
<1>2. \A x \in Objects : object[x].fields \subseteq Objects
  BY DEF TypeOK, ObjectRecord
<1> QED
  BY <1>1, <1>2, ReferencedIs DEF TypeOK

\* What is referenced after a step comes from R.
LEMMA ReferencesFrom ==
  ASSUME NEW R,
         \A p \in Programs : held'[p] \subseteq R,
         \A h \in Natives : handles'[h] \subseteq R,
         Pinned' \subseteq R,
         \A x \in Objects : object'[x].fields \subseteq R
  PROVE  Referenced' \subseteq R
BY ReferencedIs

LEMMA DanglesKeeps ==
  ASSUME HeapInv, Referenced' \subseteq Referenced,
         \A o \in Objects : Doomed(o)' => Doomed(o) \/ o \notin Referenced',
         \A o \in Objects :
           object'[o].record = "none" => object[o].record = "none" \/ Doomed(o)
  PROVE  NothingDangles'
<1> SUFFICES ASSUME NEW o \in Referenced'
             PROVE  object'[o].record # "none" /\ ~Doomed(o)'
  BY DEF NothingDangles
<1>1. o \in Objects /\ o \in Referenced
  BY ReferencedObjects DEF HeapInv
<1>2. object[o].record # "none" /\ ~Doomed(o)
  BY <1>1 DEF HeapInv, NothingDangles
<1> QED
  BY <1>1, <1>2

LEMMA DropsDooms ==
  ASSUME TypeOK, NEW w \in Workers, NEW done, Drops(w, done),
         \A v \in Workers : \A o \in remote'[v] : Doomed(o)
  PROVE  /\ dropped' \in [Workers -> SUBSET Objects]
         /\ \A o \in Objects : Doomed(o)' => Doomed(o) \/ o \notin Referenced'
<1>1. Referenced \subseteq Objects
  BY ReferencedObjects
<1>2. \A v \in Workers :
        dropped'[v] = IF v = w THEN (dropped[v] \ done) \cup (Referenced \ Referenced')
                      ELSE dropped[v]
  BY DEF Drops, TypeOK
<1> QED
  BY <1>1, <1>2 DEF Drops, TypeOK, Doomed

LEMMA DoomedStay ==
  ASSUME UNCHANGED <<dropped, remote>>, NEW o
  PROVE  Doomed(o)' <=> Doomed(o)
BY DEF Doomed
-----------------------------------------------------------------------------
(* Objects *)

LEMMA AliveInFinite ==
  ASSUME NEW w
  PROVE  /\ IsFiniteSet(AliveIn(w)) /\ Cardinality(AliveIn(w)) \in Nat
         /\ Cardinality(AliveIn(w)) <= Cardinality(Objects)
         /\ Cardinality(Objects) \in Nat
<1>1. AliveIn(w) \in SUBSET Objects
  BY DEF AliveIn
<1> QED
  BY <1>1, FiniteHeap, FS_Subset, FS_CardinalityType

LEMMA ObjectsStay ==
  ASSUME ObjectsOK, UNCHANGED <<object, live>>
  PROVE  ObjectsOK'
BY DEF ObjectsOK, LiveCountsExact, BlankIsAbsent, TombstonesEmpty, Alive

\* The count stays exact when the objects of D die and no other does.
LEMMA LiveWithoutCounts ==
  ASSUME TypeOK, LiveCountsExact, NEW D \in SUBSET Objects, \A o \in D : Alive(o),
         live' = LiveWithout(D),
         \A o \in Objects : Alive(o)' <=> Alive(o) /\ o \notin D,
         \A o \in Objects : Alive(o)' => object'[o].arena = object[o].arena
  PROVE  LiveCountsExact' /\ live' \in [Workers -> 0..Cardinality(Objects)]
<1> DEFINE Dead(w) == {o \in D : object[o].arena = w}
<1>1. ASSUME NEW w \in Workers
      PROVE  /\ live'[w] = Cardinality(AliveIn(w) \ Dead(w))
             /\ live'[w] \in 0..Cardinality(Objects)
  <2>1. Dead(w) \in SUBSET AliveIn(w)
    BY DEF AliveIn
  <2> HIDE DEF Dead
  <2>2. /\ IsFiniteSet(AliveIn(w)) /\ Cardinality(AliveIn(w)) \in Nat
        /\ Cardinality(AliveIn(w)) <= Cardinality(Objects)
        /\ Cardinality(Objects) \in Nat
    BY AliveInFinite
  <2>3. /\ Cardinality(Dead(w)) \in Nat
        /\ Cardinality(Dead(w)) <= Cardinality(AliveIn(w))
    BY <2>1, <2>2, FS_Subset, FS_CardinalityType
  <2>4. AliveIn(w) \cap Dead(w) = Dead(w)
    BY <2>1
  <2>5. Cardinality(AliveIn(w) \ Dead(w))
          = Cardinality(AliveIn(w)) - Cardinality(Dead(w))
    BY <2>2, <2>4, FS_Difference
  <2>6. live[w] = Cardinality(AliveIn(w))
    BY DEF LiveCountsExact, AliveIn
  <2>7. live'[w] = IF live[w] >= Cardinality(Dead(w))
                   THEN live[w] - Cardinality(Dead(w)) ELSE 0
    BY DEF LiveWithout, Dead
  <2> QED
    BY <2>2, <2>3, <2>5, <2>6, <2>7
<1>2. ASSUME NEW w \in Workers
      PROVE  {o \in Objects : Alive(o) /\ object[o].arena = w}' = AliveIn(w) \ Dead(w)
  BY DEF AliveIn
<1>3. live' \in [Workers -> 0..Cardinality(Objects)]
  BY <1>1 DEF LiveWithout
<1> QED
  BY <1>1, <1>2, <1>3 DEF LiveCountsExact

LEMMA FieldsRecord ==
  ASSUME NEW r \in ObjectRecord, NEW F
  PROVE  LET d == [r EXCEPT !.fields = F]
         IN  /\ d.fields = F /\ d.record = r.record /\ d.kind = r.kind
             /\ d.arena = r.arena /\ d.generation = r.generation
             /\ d.lifetime = r.lifetime
BY DEF ObjectRecord

\* The fields of one live object change.
LEMMA FieldsChange ==
  ASSUME HeapInv, NEW o \in Objects, NEW F \in SUBSET Objects,
         object[o].record = "live", live' = live,
         object' = [object EXCEPT ![o].fields = F]
  PROVE  object' \in [Objects -> ObjectRecord] /\ ObjectsOK'
<1> USE DEF HeapInv, TypeOK, ObjectsOK
<1>1. \A x \in Objects :
        object'[x] = IF x = o THEN [object[x] EXCEPT !.fields = F] ELSE object[x]
  OBVIOUS
<1>2. \A x \in Objects : object'[x] \in ObjectRecord
  <2> SUFFICES ASSUME NEW x \in Objects
               PROVE  object'[x] \in ObjectRecord
    OBVIOUS
  <2>1. object[x] \in ObjectRecord
    OBVIOUS
  <2>2. [object[x] EXCEPT !.fields = F] \in ObjectRecord
    BY <2>1 DEF ObjectRecord
  <2> QED
    BY <1>1, <2>1, <2>2
<1>3. \A x \in Objects :
        /\ object'[x].record = object[x].record /\ object'[x].arena = object[x].arena
        /\ x # o => object'[x] = object[x]
  BY <1>1 DEF ObjectRecord
<1>4. LiveCountsExact'
  <2>1. \A w : {x \in Objects : Alive(x) /\ object[x].arena = w}'
                = {x \in Objects : Alive(x) /\ object[x].arena = w}
    BY <1>3 DEF Alive
  <2> QED
    BY <2>1 DEF LiveCountsExact
<1>5. BlankIsAbsent'
  BY <1>3 DEF BlankIsAbsent
<1>6. TombstonesEmpty'
  BY <1>3 DEF TombstonesEmpty
<1> QED
  BY <1>2, <1>4, <1>5, <1>6

\* The objects of S are freed, from objects that are as good as before.
LEMMA FreeFromKeeps ==
  ASSUME HeapInv, NEW S \in SUBSET Objects, \A o \in S : Doomed(o),
         NEW after \in [Objects -> ObjectRecord],
         \A o \in Objects :
           /\ after[o].record = object[o].record /\ after[o].arena = object[o].arena
           /\ after[o].fields \subseteq object[o].fields
           /\ after[o].record = "none" => after[o] = Absent
           /\ after[o].record = "tombstone" =>
                after[o].lifetime # "Live" /\ after[o].fields = {},
         FreeFrom(after, S)
  PROVE  /\ object' \in [Objects -> ObjectRecord]
         /\ live' \in [Workers -> 0..Cardinality(Objects)]
         /\ remembered' \in SUBSET (Objects \X Objects)
         /\ ObjectsOK'
         /\ \A o \in Objects :
              /\ object'[o].fields \subseteq object[o].fields
              /\ object'[o].record = "none" => object[o].record = "none" \/ Doomed(o)
<1> USE DEF HeapInv, TypeOK, ObjectsOK
<1>1. \A o \in Objects : object'[o] = IF o \in S THEN Absent ELSE after[o]
  BY DEF FreeFrom
<1>2. Absent \in ObjectRecord /\ Absent.record = "none" /\ Absent.fields = {}
  BY NativeIsWorker DEF Absent, ObjectRecord, Kinds
<1>3. object' \in [Objects -> ObjectRecord]
  BY <1>1, <1>2 DEF FreeFrom
<1>4. \A o \in Objects : Alive(o)' <=> Alive(o) /\ o \notin Counted(S)
  BY <1>1, <1>2 DEF Alive, Counted
<1>5. \A o \in Objects : Alive(o)' => object'[o].arena = object[o].arena
  BY <1>1, <1>2 DEF Alive
<1>6. Counted(S) \in SUBSET Objects /\ \A o \in Counted(S) : Alive(o)
  BY DEF Counted
<1>7. LiveCountsExact' /\ live' \in [Workers -> 0..Cardinality(Objects)]
  <2>1. live' = LiveWithout(Counted(S))
    BY DEF FreeFrom
  <2> QED
    BY <1>4, <1>5, <1>6, <2>1, LiveWithoutCounts
<1>8. BlankIsAbsent'
  BY <1>1, <1>2 DEF BlankIsAbsent
<1>9. TombstonesEmpty'
  BY <1>1, <1>2 DEF TombstonesEmpty
<1>10. remembered' \in SUBSET (Objects \X Objects)
  BY DEF FreeFrom, EdgesOutside
<1>11. \A o \in Objects :
         /\ object'[o].fields \subseteq object[o].fields
         /\ object'[o].record = "none" => object[o].record = "none" \/ Doomed(o)
  BY <1>1, <1>2
<1> QED
  BY <1>3, <1>7, <1>8, <1>9, <1>10, <1>11
-----------------------------------------------------------------------------
(* The steps *)

LEMMA InitHolds == Init => HeapInv
<1> SUFFICES ASSUME Init PROVE HeapInv
  OBVIOUS
<1> USE DEF Init
<1>1. Absent \in ObjectRecord /\ Absent.record = "none" /\ Absent.fields = {}
  BY NativeIsWorker DEF Absent, ObjectRecord, Kinds
<1>2. Cardinality(Objects) \in Nat
  BY AliveInFinite
<1>3. TypeOK
  BY <1>1, <1>2 DEF TypeOK, NoTeardown
<1>4. Referenced = {}
  BY <1>1, ReferencedIs DEF Pinned
<1>5. LiveCountsExact
  <2>1. \A w : {o \in Objects : Alive(o) /\ object[o].arena = w} = {}
    BY <1>1 DEF Alive
  <2> QED
    BY <2>1, FS_EmptySet DEF LiveCountsExact
<1>6. BlankIsAbsent /\ TombstonesEmpty
  BY <1>1 DEF BlankIsAbsent, TombstonesEmpty
<1>7. NothingDangles /\ TeardownHeld
  BY <1>4 DEF NothingDangles, TeardownHeld, NoTeardown
<1> QED
  BY <1>3, <1>5, <1>6, <1>7 DEF HeapInv, ObjectsOK

\* What is held is there.
LEMMA HeldIsThere ==
  ASSUME HeapInv, NEW p \in Programs, NEW o \in held[p]
  PROVE  /\ o \in Objects /\ o \in Referenced /\ object[o].record # "none"
         /\ ~Doomed(o)
         /\ object[o].lifetime = "Live" => object[o].record = "live"
<1>1. o \in Objects
  BY DEF HeapInv, TypeOK
<1>2. o \in Referenced
  BY ReferencedIs
<1>3. object[o].record \in {"none", "live", "tombstone"}
  BY <1>1 DEF HeapInv, TypeOK, ObjectRecord
<1> QED
  BY <1>1, <1>2, <1>3 DEF HeapInv, NothingDangles, ObjectsOK, TombstonesEmpty

LEMMA AllocateKeeps ==
  ASSUME HeapInv, NEW p \in Programs, NEW w \in Workers, NEW o \in Objects,
         NEW kind \in Kinds, NEW parts \in SUBSET held[p],
         Allocate(p, w, o, kind, parts)
  PROVE  HeapInv'
<1> USE DEF HeapInv
<1> DEFINE new == [record |-> "live", kind |-> kind,
                   generation |-> IF kind = "tuple" THEN "Shared" ELSE "Young",
                   arena |-> w, lifetime |-> "Live", fields |-> parts]
<1>1. /\ object[o] = Absent /\ \A v \in Workers : o \notin dropped[v] \cup remote[v]
      /\ object' = [object EXCEPT ![o] = new]
      /\ live' = [live EXCEPT ![w] = @ + 1]
      /\ held' = [held EXCEPT ![p] = @ \cup {o}]
      /\ UNCHANGED <<scope, remote, dropped, remembered, requested, handles, pins,
                     collecting, teardown>>
  BY DEF Allocate
<1>2. parts \in SUBSET Objects
  BY DEF TypeOK
<1>3. new \in ObjectRecord /\ new.fields = parts /\ new.record = "live" /\ new.arena = w
  BY <1>2 DEF ObjectRecord
<1> HIDE DEF new
<1>4. /\ \A x \in Objects : object'[x] = IF x = o THEN new ELSE object[x]
      /\ \A q \in Programs : held'[q] = IF q = p THEN held[q] \cup {o} ELSE held[q]
      /\ \A v \in Workers : live'[v] = IF v = w THEN live[v] + 1 ELSE live[v]
  BY <1>1 DEF TypeOK
<1>5. Absent.record = "none"
  BY DEF Absent
<1>6. LiveCountsExact' /\ live' \in [Workers -> 0..Cardinality(Objects)]
  <2>1. ASSUME NEW v \in Workers
        PROVE  /\ live'[v] = Cardinality({x \in Objects : Alive(x) /\ object[x].arena = v}')
               /\ live'[v] \in 0..Cardinality(Objects)
    <3> DEFINE A == {x \in Objects : Alive(x) /\ object[x].arena = v}'
    <3>1. o \notin AliveIn(v)
      BY <1>1, <1>5 DEF AliveIn, Alive
    <3>2. A = IF v = w THEN AliveIn(v) \cup {o} ELSE AliveIn(v)
      BY <1>1, <1>3, <1>4, <1>5 DEF AliveIn, Alive
    <3>3. live[v] = Cardinality(AliveIn(v))
      BY DEF ObjectsOK, LiveCountsExact, AliveIn
    <3>4. IsFiniteSet(AliveIn(v)) /\ Cardinality(AliveIn(v)) \in Nat
      BY AliveInFinite
    <3>5. Cardinality(AliveIn(v) \cup {o}) = Cardinality(AliveIn(v)) + 1
      BY <3>1, <3>4, FS_AddElement
    <3>6. Cardinality(A) <= Cardinality(Objects) /\ Cardinality(Objects) \in Nat
      <4>1. A \in SUBSET Objects
        OBVIOUS
      <4> QED
        BY <4>1, FiniteHeap, FS_Subset, FS_CardinalityType
    <3> HIDE DEF A
    <3>7. live'[v] = Cardinality(A) /\ live'[v] \in 0..Cardinality(Objects)
      BY <1>4, <3>2, <3>3, <3>4, <3>5, <3>6
    <3> QED
      BY <3>7 DEF A
  <2>2. live' \in [Workers -> 0..Cardinality(Objects)]
    BY <1>1, <2>1 DEF TypeOK
  <2> QED
    BY <2>1, <2>2 DEF LiveCountsExact
<1>7. TypeOK'
  BY <1>1, <1>3, <1>6 DEF TypeOK
<1>8. BlankIsAbsent' /\ TombstonesEmpty'
  BY <1>3, <1>4 DEF ObjectsOK, BlankIsAbsent, TombstonesEmpty
<1>9. Referenced' \subseteq Referenced \cup {o}
  <2>1. \A q \in Programs : held'[q] \subseteq Referenced \cup {o}
    BY <1>4, ReferencedIs
  <2>2. \A h \in Natives : handles'[h] \subseteq Referenced \cup {o}
    BY <1>1, ReferencedIs
  <2>3. Pinned' \subseteq Referenced \cup {o}
    BY <1>1, ReferencedIs DEF Pinned
  <2>4. \A x \in Objects : object'[x].fields \subseteq Referenced \cup {o}
    BY <1>3, <1>4, ReferencedIs
  <2> QED
    BY <2>1, <2>2, <2>3, <2>4, ReferencesFrom
<1>10. NothingDangles'
  <2> SUFFICES ASSUME NEW x \in Referenced'
               PROVE  object'[x].record # "none" /\ ~Doomed(x)'
    BY DEF NothingDangles
  <2>1. CASE x = o
    BY <1>1, <1>3, <1>4, <2>1 DEF Doomed
  <2>2. CASE x # o
    <3>1. x \in Referenced /\ x \in Objects
      BY <1>9, <2>2, ReferencedObjects
    <3> QED
      BY <1>1, <1>4, <2>2, <3>1 DEF NothingDangles, Doomed
  <2> QED
    BY <2>1, <2>2
<1>11. TeardownHeld'
  BY <1>1, <1>4 DEF TeardownHeld
<1> QED
  BY <1>6, <1>7, <1>8, <1>10, <1>11 DEF ObjectsOK

\* The objects and what is freed stay.
LEMMA HoldersMove ==
  ASSUME HeapInv, TypeOK', UNCHANGED <<object, live, remote>>,
         \/ dropped' = dropped
         \/ \E w \in Workers : Drops(w, {}),
         \A p \in Programs : held'[p] \subseteq Referenced,
         \A h \in Natives : handles'[h] \subseteq Referenced,
         Pinned' \subseteq Referenced, TeardownHeld'
  PROVE  HeapInv'
<1> USE DEF HeapInv
<1>1. Referenced' \subseteq Referenced
  <2>1. \A x \in Objects : object'[x].fields \subseteq Referenced
    BY ReferencedIs
  <2> QED
    BY <2>1, ReferencesFrom
<1>2. \A o \in Objects : Doomed(o)' => Doomed(o) \/ o \notin Referenced'
  <2>1. CASE dropped' = dropped
    BY <2>1, DoomedStay
  <2>2. CASE \E w \in Workers : Drops(w, {})
    <3>1. PICK w \in Workers : Drops(w, {})
      BY <2>2
    <3>2. \A v \in Workers : \A o \in remote'[v] : Doomed(o)
      BY DEF Doomed
    <3> QED
      BY <3>1, <3>2, DropsDooms
  <2> QED
    BY <2>1, <2>2
<1>3. NothingDangles'
  BY <1>1, <1>2, DanglesKeeps
<1>4. ObjectsOK'
  BY ObjectsStay
<1> QED
  BY <1>3, <1>4

LEMMA DropsTyped ==
  ASSUME TypeOK, NEW w \in Workers, NEW done, Drops(w, done)
  PROVE  dropped' \in [Workers -> SUBSET Objects]
BY ReferencedObjects DEF Drops, TypeOK

LEMMA LoadKeeps ==
  ASSUME HeapInv, NEW p \in Programs, NEW o \in Objects, NEW c \in Objects,
         Load(p, o, c)
  PROVE  HeapInv'
<1> USE DEF HeapInv, Load, heapVars
<1>1. \A q \in Programs : held'[q] = IF q = p THEN held[q] \cup {c} ELSE held[q]
  BY DEF TypeOK
<1>2. TypeOK'
  BY DEF TypeOK
<1>3. Pinned' \subseteq Referenced
  BY ReferencedIs DEF Pinned
<1>4. \A q \in Programs : held'[q] \subseteq Referenced
  BY <1>1, ReferencedIs
<1>5. \A h \in Natives : handles'[h] \subseteq Referenced
  BY ReferencedIs
<1>6. TeardownHeld'
  BY <1>1 DEF TeardownHeld
<1> QED
  BY <1>2, <1>3, <1>4, <1>5, <1>6, HoldersMove

LEMMA ForgetKeeps ==
  ASSUME HeapInv, NEW p \in Programs, NEW w \in Workers, NEW o \in Objects,
         Forget(p, w, o)
  PROVE  HeapInv'
<1> USE DEF HeapInv, Forget
<1>1. \A q \in Programs : held'[q] = IF q = p THEN held[q] \ {o} ELSE held[q]
  BY DEF TypeOK
<1>2. TypeOK'
  BY DropsTyped DEF TypeOK
<1>3. Pinned' \subseteq Referenced
  BY ReferencedIs DEF Pinned
<1>4. \A q \in Programs : held'[q] \subseteq Referenced
  BY <1>1, ReferencedIs
<1>5. \A h \in Natives : handles'[h] \subseteq Referenced
  BY ReferencedIs
<1>6. TeardownHeld'
  BY <1>1 DEF TeardownHeld
<1> QED
  BY <1>2, <1>3, <1>4, <1>5, <1>6, HoldersMove

LEMMA BeginTeardownKeeps ==
  ASSUME HeapInv, NEW p \in Programs, NEW o \in Objects, NEW frees \in BOOLEAN,
         BeginTeardown(p, o, frees)
  PROVE  HeapInv'
<1> USE DEF HeapInv, BeginTeardown, heapVars
<1>1. \A q \in Programs :
        teardown'[q] = IF q = p THEN [of |-> o, frees |-> frees] ELSE teardown[q]
  BY DEF TypeOK
<1>2. TypeOK'
  BY DEF TypeOK
<1>3. Pinned' \subseteq Referenced
  BY ReferencedIs DEF Pinned
<1>4. \A q \in Programs : held'[q] \subseteq Referenced
  BY ReferencedIs
<1>5. \A h \in Natives : handles'[h] \subseteq Referenced
  BY ReferencedIs
<1>6. TeardownHeld'
  BY <1>1 DEF TeardownHeld
<1> QED
  BY <1>2, <1>3, <1>4, <1>5, <1>6, HoldersMove

LEMMA NativeStepKeeps ==
  ASSUME HeapInv, NEW h \in Natives, NativeStep(h)
  PROVE  HeapInv'
<1> USE DEF HeapInv, heapVars, programVars
<1>0. PICK o \in Objects :
        \/ \E p \in Programs : Take(h, p, o) \/ Pass(h, p, o)
        \/ Let(h, o) \/ Pin(h, o) \/ Unpin(h, o)
  BY DEF NativeStep
<1>1. /\ \A q \in Programs : held[q] \subseteq Referenced
      /\ \A g \in Natives : handles[g] \subseteq Referenced
      /\ Pinned \subseteq Referenced
  BY ReferencedIs
<1>2. UNCHANGED <<held, teardown>> => TeardownHeld'
  BY DEF TeardownHeld
<1>3. UNCHANGED pins => Pinned' = Pinned
  BY DEF Pinned
<1>4. ASSUME NEW p \in Programs, Take(h, p, o)
      PROVE  HeapInv'
  <2>1. TypeOK'
    BY <1>4 DEF Take, TypeOK
  <2>2. \A g \in Natives : handles'[g] = IF g = h THEN handles[g] \cup {o} ELSE handles[g]
    BY <1>4 DEF Take, TypeOK
  <2> QED
    BY <1>1, <1>2, <1>3, <1>4, <2>1, <2>2, HoldersMove DEF Take
<1>5. ASSUME NEW p \in Programs, Pass(h, p, o)
      PROVE  HeapInv'
  <2>1. TypeOK'
    BY <1>5 DEF Pass, TypeOK
  <2>2. \A q \in Programs : held'[q] = IF q = p THEN held[q] \cup {o} ELSE held[q]
    BY <1>5 DEF Pass, TypeOK
  <2>3. TeardownHeld'
    BY <1>5, <2>2 DEF Pass, TeardownHeld
  <2> QED
    BY <1>1, <1>3, <1>5, <2>1, <2>2, <2>3, HoldersMove DEF Pass
<1>6. CASE Let(h, o)
  <2>1. TypeOK'
    BY <1>6, NativeIsWorker, DropsTyped DEF Let, TypeOK
  <2>2. \A g \in Natives : handles'[g] \subseteq handles[g]
    BY <1>6 DEF Let, TypeOK
  <2> QED
    BY <1>1, <1>2, <1>3, <1>6, <2>1, <2>2, NativeIsWorker, HoldersMove DEF Let
<1>7. CASE Pin(h, o)
  <2>1. TypeOK'
    BY <1>7 DEF Pin, TypeOK
  <2>2. Pinned' \subseteq Pinned \cup {o}
    BY <1>7 DEF Pin, Pinned
  <2>3. o \in Referenced
    BY <1>1, <1>7 DEF Pin
  <2> QED
    BY <1>1, <1>2, <1>7, <2>1, <2>2, <2>3, HoldersMove DEF Pin
<1>8. CASE Unpin(h, o)
  <2>1. TypeOK'
    BY <1>8, NativeIsWorker, DropsTyped DEF Unpin, TypeOK
  <2>2. Pinned' \subseteq Pinned
    BY <1>8 DEF Unpin, Pinned
  <2> QED
    BY <1>1, <1>2, <1>8, <2>1, <2>2, NativeIsWorker, HoldersMove DEF Unpin
<1> QED
  BY <1>0, <1>4, <1>5, <1>6, <1>7, <1>8

LEMMA RequestKeeps ==
  ASSUME HeapInv, NEW cycle \in Cycles, RequestCollection(cycle)
  PROVE  HeapInv'
<1> USE DEF HeapInv, RequestCollection, heapVars, programVars
<1>1. TypeOK'
  BY DEF TypeOK
<1>2. Pinned' = Pinned /\ TeardownHeld'
  BY DEF Pinned, TeardownHeld
<1> QED
  BY <1>1, <1>2, ReferencedIs, HoldersMove

\* A live object takes another value that is held, or loses one.
LEMMA FieldStepKeeps ==
  ASSUME HeapInv, NEW p \in Programs, NEW o \in held[p], NEW c \in Objects,
         NEW F \in SUBSET Objects, F \subseteq object[o].fields \cup {c},
         c \in Referenced, object[o].lifetime = "Live",
         object' = [object EXCEPT ![o].fields = F],
         \/ dropped' = dropped
         \/ \E w \in Workers : Drops(w, {}),
         remembered' \in SUBSET (Objects \X Objects),
         UNCHANGED <<scope, live, remote, requested, programVars, handles, pins>>
  PROVE  HeapInv'
<1> USE DEF HeapInv, programVars
<1>1. o \in Objects /\ object[o].record = "live"
  BY HeldIsThere
<1>2. object' \in [Objects -> ObjectRecord] /\ ObjectsOK'
  BY <1>1, FieldsChange
<1>3. \A x \in Objects :
        object'[x] = IF x = o THEN [object[x] EXCEPT !.fields = F] ELSE object[x]
  BY DEF TypeOK
<1>4. \A x \in Objects :
        /\ object'[x].record = object[x].record
        /\ object'[x].fields = IF x = o THEN F ELSE object[x].fields
  <2>1. \A x \in Objects : object[x] \in ObjectRecord
    BY DEF TypeOK
  <2> QED
    BY <1>3, <2>1 DEF ObjectRecord
<1>5. TypeOK'
  <2>1. dropped' \in [Workers -> SUBSET Objects]
    BY DropsTyped DEF TypeOK
  <2> QED
    BY <1>2, <2>1 DEF TypeOK
<1>6. Referenced' \subseteq Referenced
  <2>1. \A x \in Objects : object'[x].fields \subseteq Referenced
    BY <1>1, <1>4, ReferencedIs
  <2>2. Pinned' = Pinned
    BY DEF Pinned
  <2> QED
    BY <2>1, <2>2, ReferencedIs, ReferencesFrom
<1>7. \A x \in Objects : Doomed(x)' => Doomed(x) \/ x \notin Referenced'
  <2>1. CASE dropped' = dropped
    BY <2>1, DoomedStay
  <2>2. CASE \E w \in Workers : Drops(w, {})
    <3>1. PICK w \in Workers : Drops(w, {})
      BY <2>2
    <3>2. \A v \in Workers : \A x \in remote'[v] : Doomed(x)
      BY DEF Doomed
    <3> QED
      BY <3>1, <3>2, DropsDooms
  <2> QED
    BY <2>1, <2>2
<1>8. NothingDangles'
  BY <1>4, <1>6, <1>7, DanglesKeeps
<1>9. TeardownHeld'
  BY DEF TeardownHeld
<1> QED
  BY <1>2, <1>5, <1>8, <1>9

LEMMA StoreKeeps ==
  ASSUME HeapInv, NEW p \in Programs, NEW o \in Objects, NEW c \in Objects,
         StoreField(p, o, c) \/ StoreElement(p, o, c)
  PROVE  HeapInv'
<1>1. /\ o \in held[p] /\ c \in held[p] /\ object[o].lifetime = "Live"
      /\ object' = [object EXCEPT ![o].fields = object[o].fields \cup {c}]
      /\ UNCHANGED <<scope, live, remote, dropped, requested, programVars, handles, pins>>
  BY DEF StoreField, StoreElement, Points
<1>2. object[o].fields \cup {c} \in SUBSET Objects
  BY DEF HeapInv, TypeOK, ObjectRecord
<1>3. remembered' \in SUBSET (Objects \X Objects)
  BY DEF HeapInv, TypeOK, StoreField, StoreElement
<1>4. c \in Referenced
  BY <1>1, HeldIsThere
<1> QED
  BY <1>1, <1>2, <1>3, <1>4, FieldStepKeeps

LEMMA OverwriteKeeps ==
  ASSUME HeapInv, NEW p \in Programs, NEW w \in Workers, NEW o \in Objects,
         NEW c \in Objects, Overwrite(p, w, o, c)
  PROVE  HeapInv'
<1> DEFINE F == object[o].fields \ {c}
<1>1. /\ o \in held[p] /\ c \in object[o].fields /\ object[o].lifetime = "Live"
      /\ object' = [object EXCEPT ![o].fields = F]
      /\ UNCHANGED <<scope, live, remote, remembered, requested, programVars, handles, pins>>
      /\ Drops(w, {})
  BY DEF Overwrite
<1>2. F \in SUBSET Objects /\ F \subseteq object[o].fields \cup {c}
  BY DEF HeapInv, TypeOK, ObjectRecord
<1>3. c \in Referenced
  BY <1>1, ReferencedIs
<1>4. remembered' \in SUBSET (Objects \X Objects)
  BY <1>1 DEF HeapInv, TypeOK
<1> HIDE DEF F
<1> QED
  BY <1>1, <1>2, <1>3, <1>4, FieldStepKeeps

\* The objects lose fields, and those that disappear were doomed.
LEMMA FreeingKeeps ==
  ASSUME HeapInv, object' \in [Objects -> ObjectRecord],
         live' \in [Workers -> 0..Cardinality(Objects)],
         remembered' \in SUBSET (Objects \X Objects),
         remote' \in [Workers -> SUBSET Objects],
         requested' \in Cycles \cup {None},
         collecting' \in [Programs -> Cycles \cup {None}],
         teardown' \in [Programs -> [of : Objects \cup {None}, frees : BOOLEAN]],
         ObjectsOK', TeardownHeld',
         \A o \in Objects :
              /\ object'[o].fields \subseteq object[o].fields
              /\ object'[o].record = "none" => object[o].record = "none" \/ Doomed(o),
         NEW w \in Workers, NEW done, Drops(w, done),
         \A v \in Workers : \A o \in remote'[v] : Doomed(o),
         UNCHANGED <<scope, held, handles, pins>>
  PROVE  HeapInv'
<1> USE DEF HeapInv
<1>1. TypeOK'
  BY DropsTyped DEF TypeOK
<1>2. Referenced' \subseteq Referenced
  <2>1. \A x \in Objects : object'[x].fields \subseteq Referenced
    BY ReferencedIs
  <2>2. Pinned' = Pinned
    BY DEF Pinned
  <2> QED
    BY <2>1, <2>2, ReferencedIs, ReferencesFrom
<1>3. \A o \in Objects : Doomed(o)' => Doomed(o) \/ o \notin Referenced'
  BY DropsDooms
<1>4. NothingDangles'
  BY <1>2, <1>3, DanglesKeeps
<1> QED
  BY <1>1, <1>4

\* The objects before a step are as good as themselves.
LEMMA SameObjects ==
  ASSUME HeapInv
  PROVE  /\ object \in [Objects -> ObjectRecord]
         /\ \A o \in Objects :
              /\ object[o].record = "none" => object[o] = Absent
              /\ object[o].record = "tombstone" =>
                   object[o].lifetime # "Live" /\ object[o].fields = {}
BY DEF HeapInv, TypeOK, ObjectsOK, BlankIsAbsent, TombstonesEmpty

LEMMA FreeKeeps ==
  ASSUME HeapInv, NEW S \in SUBSET Objects, \A o \in S : Doomed(o), FreeFrom(object, S)
  PROVE  /\ object' \in [Objects -> ObjectRecord]
         /\ live' \in [Workers -> 0..Cardinality(Objects)]
         /\ remembered' \in SUBSET (Objects \X Objects)
         /\ ObjectsOK'
         /\ \A o \in Objects :
              /\ object'[o].fields \subseteq object[o].fields
              /\ object'[o].record = "none" => object[o].record = "none" \/ Doomed(o)
<1>1. /\ object \in [Objects -> ObjectRecord]
      /\ \A o \in Objects :
           /\ object[o].record = object[o].record /\ object[o].arena = object[o].arena
           /\ object[o].fields \subseteq object[o].fields
           /\ object[o].record = "none" => object[o] = Absent
           /\ object[o].record = "tombstone" =>
                object[o].lifetime # "Live" /\ object[o].fields = {}
  BY SameObjects
<1> QED
  BY <1>1, FreeFromKeeps

LEMMA ReleaseKeeps ==
  ASSUME HeapInv, NEW w \in Workers, NEW o \in Objects, Release(w, o)
  PROVE  HeapInv'
<1> USE DEF programVars
<1>1. /\ UNCHANGED <<scope, requested, programVars, handles, pins>>
      /\ Drops(w, {o}) /\ Doomed(o)
  BY DEF Release, Doomed
<1>2. TeardownHeld'
  BY <1>1 DEF HeapInv, TeardownHeld
<1>3. CASE object[o].arena = w
  <2>1. FreeFrom(object, {o}) /\ UNCHANGED remote
    BY <1>3 DEF Release
  <2>2. {o} \in SUBSET Objects /\ \A x \in {o} : Doomed(x)
    BY <1>1
  <2>3. /\ object' \in [Objects -> ObjectRecord]
        /\ live' \in [Workers -> 0..Cardinality(Objects)]
        /\ remembered' \in SUBSET (Objects \X Objects)
        /\ ObjectsOK'
        /\ \A x \in Objects :
             /\ object'[x].fields \subseteq object[x].fields
             /\ object'[x].record = "none" => object[x].record = "none" \/ Doomed(x)
    BY <2>1, <2>2, FreeKeeps
  <2>4. \A v \in Workers : \A x \in remote'[v] : Doomed(x)
    BY <2>1 DEF Doomed
  <2> QED
    BY <1>1, <1>2, <2>1, <2>3, <2>4, FreeingKeeps DEF HeapInv, TypeOK
<1>4. CASE object[o].arena # w
  <2>1. /\ remote' = [remote EXCEPT ![object[o].arena] = @ \cup {o}]
        /\ UNCHANGED <<object, live, remembered>>
    BY <1>4 DEF Release
  <2>2. \A v \in Workers : \A x \in remote'[v] : Doomed(x)
    BY <1>1, <2>1 DEF Doomed, HeapInv, TypeOK
  <2>3. remote' \in [Workers -> SUBSET Objects]
    BY <2>1 DEF HeapInv, TypeOK
  <2>4. ObjectsOK'
    BY <2>1, ObjectsStay DEF HeapInv
  <2>5. \A x \in Objects :
          /\ object'[x].fields \subseteq object[x].fields
          /\ object'[x].record = "none" => object[x].record = "none" \/ Doomed(x)
    BY <2>1
  <2>6. /\ object' \in [Objects -> ObjectRecord]
        /\ live' \in [Workers -> 0..Cardinality(Objects)]
        /\ remembered' \in SUBSET (Objects \X Objects)
        /\ requested' \in Cycles \cup {None}
        /\ collecting' \in [Programs -> Cycles \cup {None}]
        /\ teardown' \in [Programs -> [of : Objects \cup {None}, frees : BOOLEAN]]
    BY <1>1, <2>1 DEF HeapInv, TypeOK
  <2> QED
    BY <1>1, <1>2, <2>2, <2>3, <2>4, <2>5, <2>6, FreeingKeeps
<1> QED
  BY <1>3, <1>4

LEMMA DrainOfKeeps ==
  ASSUME HeapInv, NEW w \in Workers, DrainOf(w), Drops(w, {}),
         UNCHANGED <<scope, requested, held, teardown, handles, pins>>,
         collecting' \in [Programs -> Cycles \cup {None}]
  PROVE  HeapInv'
<1>1. /\ remote' = [remote EXCEPT ![w] = {}]
      /\ FreeFrom(object, remote[w])
  BY DEF DrainOf
<1>2. remote[w] \in SUBSET Objects /\ \A o \in remote[w] : Doomed(o)
  BY DEF HeapInv, TypeOK, Doomed
<1>3. /\ object' \in [Objects -> ObjectRecord]
      /\ live' \in [Workers -> 0..Cardinality(Objects)]
      /\ remembered' \in SUBSET (Objects \X Objects)
      /\ ObjectsOK'
      /\ \A x \in Objects :
           /\ object'[x].fields \subseteq object[x].fields
           /\ object'[x].record = "none" => object[x].record = "none" \/ Doomed(x)
  BY <1>1, <1>2, FreeKeeps
<1>4. /\ remote' \in [Workers -> SUBSET Objects]
      /\ \A v \in Workers : \A x \in remote'[v] : Doomed(x)
  BY <1>1 DEF HeapInv, TypeOK, Doomed
<1>5. TeardownHeld'
  BY DEF HeapInv, TeardownHeld
<1> QED
  BY <1>3, <1>4, <1>5, FreeingKeeps DEF HeapInv, TypeOK

LEMMA DrainKeeps ==
  ASSUME HeapInv, NEW p \in Programs, NEW w \in Workers,
         Drain(p, w) \/ Safepoint(p, w)
  PROVE  HeapInv'
<1>1. CASE Drain(p, w)
  BY <1>1, DrainOfKeeps DEF Drain, programVars, HeapInv, TypeOK
<1>2. CASE Safepoint(p, w)
  <2>1. collecting' \in [Programs -> Cycles \cup {None}]
    BY <1>2 DEF Safepoint, HeapInv, TypeOK
  <2> QED
    BY <1>2, <2>1, DrainOfKeeps DEF Safepoint
<1> QED
  BY <1>1, <1>2

\* The records that teardown and collections make of others.
LEMMA DestroyedRecord ==
  ASSUME NEW r \in ObjectRecord
  PROVE  LET d == [r EXCEPT !.lifetime = "Destroyed"]
         IN  /\ d \in ObjectRecord /\ d.lifetime = "Destroyed"
             /\ d.record = r.record /\ d.kind = r.kind /\ d.arena = r.arena
             /\ d.generation = r.generation /\ d.fields = r.fields
BY DEF ObjectRecord

LEMMA DeallocatedRecord ==
  ASSUME NEW r \in ObjectRecord
  PROVE  LET d == [r EXCEPT !.lifetime = "Deallocated", !.fields = {}]
         IN  /\ d \in ObjectRecord /\ d.lifetime = "Deallocated" /\ d.fields = {}
             /\ d.record = r.record /\ d.kind = r.kind /\ d.arena = r.arena
             /\ d.generation = r.generation
BY DEF ObjectRecord

LEMMA PromotedRecord ==
  ASSUME NEW r \in ObjectRecord
  PROVE  LET d == [r EXCEPT !.generation = "Mature"]
         IN  /\ d \in ObjectRecord /\ d.generation = "Mature"
             /\ d.record = r.record /\ d.kind = r.kind /\ d.arena = r.arena
             /\ d.lifetime = r.lifetime /\ d.fields = r.fields
BY DEF ObjectRecord

LEMMA TombstoneRecord ==
  ASSUME NEW o, object[o] \in ObjectRecord
  PROVE  /\ Tombstone(o) \in ObjectRecord /\ Tombstone(o).record = "tombstone"
         /\ Tombstone(o).lifetime = "Deallocated" /\ Tombstone(o).fields = {}
BY DEF ObjectRecord, Tombstone

\* The objects after a teardown, before those that were queued are freed.
Torn(p) ==
  LET o == teardown[p].of
  IN  IF teardown[p].frees
      THEN [object EXCEPT ![o].lifetime = "Deallocated", ![o].fields = {}]
      ELSE [object EXCEPT ![o].lifetime = "Destroyed"]

Drained(p, w) == IF teardown[p].frees THEN remote[w] ELSE {}

LEMMA EndTeardownIs ==
  ASSUME HeapInv, NEW p \in Programs, NEW w \in Workers, EndTeardown(p, w)
  PROVE  /\ FreeFrom(Torn(p), Drained(p, w))
         /\ remote' = [remote EXCEPT ![w] = @ \ Drained(p, w)]
         /\ teardown' = [teardown EXCEPT ![p] = NoTeardown]
         /\ UNCHANGED <<scope, requested, held, handles, pins, collecting>>
         /\ Drops(w, {})
         /\ Drained(p, w) \in SUBSET Objects
         /\ \A x \in Drained(p, w) : Doomed(x)
BY DEF EndTeardown, Torn, Drained, HeapInv, TypeOK, Doomed

LEMMA TornObjects ==
  ASSUME HeapInv, NEW p \in Programs
  PROVE  /\ Torn(p) \in [Objects -> ObjectRecord]
         /\ \A x \in Objects :
              /\ Torn(p)[x].record = object[x].record
              /\ Torn(p)[x].arena = object[x].arena
              /\ Torn(p)[x].kind = object[x].kind
              /\ Torn(p)[x].generation = object[x].generation
              /\ Torn(p)[x].fields \subseteq object[x].fields
              /\ Torn(p)[x].lifetime = "Live" => object[x].lifetime = "Live"
              /\ x # teardown[p].of => Torn(p)[x] = object[x]
<1>1. \A x \in Objects : object[x] \in ObjectRecord
  BY DEF HeapInv, TypeOK
<1> DEFINE o == teardown[p].of
<1>2. \A x \in Objects :
        Torn(p)[x] = IF x = o
                     THEN IF teardown[p].frees
                          THEN [object[x] EXCEPT !.lifetime = "Deallocated",
                                                 !.fields = {}]
                          ELSE [object[x] EXCEPT !.lifetime = "Destroyed"]
                     ELSE object[x]
  BY DEF Torn, HeapInv, TypeOK
<1>3. DOMAIN Torn(p) = Objects /\ Torn(p) = [x \in Objects |-> Torn(p)[x]]
  BY DEF Torn, HeapInv, TypeOK
<1> HIDE DEF o
<1>4. ASSUME NEW x \in Objects
      PROVE  /\ Torn(p)[x] \in ObjectRecord
             /\ Torn(p)[x].record = object[x].record
             /\ Torn(p)[x].arena = object[x].arena
             /\ Torn(p)[x].kind = object[x].kind
             /\ Torn(p)[x].generation = object[x].generation
             /\ Torn(p)[x].fields \subseteq object[x].fields
             /\ Torn(p)[x].lifetime = "Live" => object[x].lifetime = "Live"
  <2>1. CASE x = o /\ teardown[p].frees
    <3>1. Torn(p)[x] = [object[x] EXCEPT !.lifetime = "Deallocated", !.fields = {}]
      BY <1>2, <2>1
    <3> QED
      BY <1>1, <3>1, DeallocatedRecord
  <2>2. CASE x = o /\ ~teardown[p].frees
    <3>1. Torn(p)[x] = [object[x] EXCEPT !.lifetime = "Destroyed"]
      BY <1>2, <2>2
    <3> QED
      BY <1>1, <3>1, DestroyedRecord
  <2>3. CASE x # o
    BY <1>1, <1>2, <2>3
  <2> QED
    BY <2>1, <2>2, <2>3
<1>5. Torn(p) \in [Objects -> ObjectRecord]
  BY <1>3, <1>4
<1> QED
  BY <1>2, <1>4, <1>5 DEF o

LEMMA EndTeardownKeeps ==
  ASSUME HeapInv, NEW p \in Programs, NEW w \in Workers, EndTeardown(p, w)
  PROVE  HeapInv'
<1> DEFINE o == teardown[p].of
<1>0. /\ FreeFrom(Torn(p), Drained(p, w))
      /\ remote' = [remote EXCEPT ![w] = @ \ Drained(p, w)]
      /\ teardown' = [teardown EXCEPT ![p] = NoTeardown]
      /\ UNCHANGED <<scope, requested, held, handles, pins, collecting>>
      /\ Drops(w, {})
      /\ Drained(p, w) \in SUBSET Objects
      /\ \A x \in Drained(p, w) : Doomed(x)
  BY EndTeardownIs
<1>1. o \in Objects => object[o].record # "none"
  <2> SUFFICES ASSUME o \in Objects
               PROVE  object[o].record # "none"
    OBVIOUS
  <2>1. o \in held[p]
    BY NoneIsNothing DEF HeapInv, TeardownHeld
  <2> QED
    BY <2>1, HeldIsThere
<1>2. \A x \in Objects :
        /\ Torn(p)[x].record = "none" => Torn(p)[x] = Absent
        /\ Torn(p)[x].record = "tombstone" =>
             Torn(p)[x].lifetime # "Live" /\ Torn(p)[x].fields = {}
  BY <1>1, TornObjects, SameObjects
<1>3. /\ object' \in [Objects -> ObjectRecord]
      /\ live' \in [Workers -> 0..Cardinality(Objects)]
      /\ remembered' \in SUBSET (Objects \X Objects)
      /\ ObjectsOK'
      /\ \A x \in Objects :
           /\ object'[x].fields \subseteq object[x].fields
           /\ object'[x].record = "none" => object[x].record = "none" \/ Doomed(x)
  <2>1. \A x \in Objects :
          /\ Torn(p)[x].record = object[x].record /\ Torn(p)[x].arena = object[x].arena
          /\ Torn(p)[x].fields \subseteq object[x].fields
          /\ Torn(p)[x].record = "none" => Torn(p)[x] = Absent
          /\ Torn(p)[x].record = "tombstone" =>
               Torn(p)[x].lifetime # "Live" /\ Torn(p)[x].fields = {}
    BY <1>2, TornObjects
  <2>2. Torn(p) \in [Objects -> ObjectRecord]
    BY TornObjects
  <2> QED
    BY <1>0, <2>1, <2>2, FreeFromKeeps
<1>4. /\ remote' \in [Workers -> SUBSET Objects]
      /\ \A v \in Workers : \A x \in remote'[v] : Doomed(x)
  BY <1>0 DEF HeapInv, TypeOK, Doomed
<1>5. teardown' \in [Programs -> [of : Objects \cup {None}, frees : BOOLEAN]]
  BY <1>0 DEF HeapInv, TypeOK, NoTeardown
<1>6. TeardownHeld'
  BY <1>0 DEF HeapInv, TypeOK, TeardownHeld, NoTeardown
<1>7. /\ Drops(w, {})
      /\ UNCHANGED <<scope, requested, held, handles, pins, collecting>>
  BY <1>0
<1>8. requested' \in Cycles \cup {None} /\ collecting' \in [Programs -> Cycles \cup {None}]
  BY <1>7 DEF HeapInv, TypeOK
<1> QED
  BY <1>3, <1>4, <1>5, <1>6, <1>7, <1>8, FreeingKeeps
-----------------------------------------------------------------------------
(* Collections *)

\* What a collection reclaims, and what it promotes.
Reclaimed(p) ==
  {o \in Objects : /\ Alive(o) /\ Collects(collecting[p], o)
                   /\ o \notin Pinned /\ o \notin Marked(Roots(p, collecting[p]))}

Promoted(p) ==
  {o \in Marked(Roots(p, collecting[p])) :
     /\ collecting[p] # "Shared"
     /\ object[o].generation = "Young"
     /\ object[o].lifetime # "Deallocated"}

LEMMA CollectIs ==
  ASSUME HeapInv, NEW p \in Programs, NEW w \in Workers, Collect(p, w)
  PROVE  /\ collecting[p] \in Cycles /\ object' \in [Objects -> ObjectRecord]
         /\ live' = LiveWithout(Reclaimed(p))
         /\ remembered' = {e \in EdgesOutside(Reclaimed(p), remembered) :
              /\ object'[e[1]].record = "live" /\ object'[e[1]].generation = "Mature"
              /\ object'[e[2]].record = "live" /\ object'[e[2]].generation = "Young"}
         /\ requested' = None /\ collecting' = [collecting EXCEPT ![p] = None]
         /\ UNCHANGED <<scope, remote, held, teardown, handles, pins>>
         /\ Drops(w, {})
         /\ \A o \in Objects :
              object'[o] = IF o \in Reclaimed(p) THEN Tombstone(o)
                           ELSE IF o \in Promoted(p)
                           THEN [object[o] EXCEPT !.generation = "Mature"]
                           ELSE object[o]
<1> DEFINE after == [o \in Objects |->
                      IF o \in Reclaimed(p) THEN Tombstone(o)
                      ELSE IF o \in Promoted(p)
                      THEN [object[o] EXCEPT !.generation = "Mature"]
                      ELSE object[o]]
<1>1. /\ collecting[p] # None
      /\ object' = after
      /\ live' = LiveWithout(Reclaimed(p))
      /\ remembered' = StillNeeded(EdgesOutside(Reclaimed(p), remembered), after)
      /\ requested' = None
      /\ collecting' = [collecting EXCEPT ![p] = None]
      /\ UNCHANGED <<scope, remote, held, teardown, handles, pins>>
      /\ Drops(w, {})
  BY DEF Collect, Reclaimed, Promoted
<1>2. \A o \in Objects :
        /\ object[o] \in ObjectRecord /\ Tombstone(o) \in ObjectRecord
        /\ [object[o] EXCEPT !.generation = "Mature"] \in ObjectRecord
  <2>1. \A o \in Objects : object[o] \in ObjectRecord
    BY DEF HeapInv, TypeOK
  <2> QED
    BY <2>1, TombstoneRecord, PromotedRecord
<1>3. object' \in [Objects -> ObjectRecord]
  BY <1>1, <1>2
<1>4. collecting[p] \in Cycles
  BY <1>1 DEF HeapInv, TypeOK
<1>5. remembered' = StillNeeded(EdgesOutside(Reclaimed(p), remembered), object')
  BY <1>1
<1> QED
  BY <1>1, <1>3, <1>4, <1>5 DEF StillNeeded

\* The fields of the records that a collection leaves.
LEMMA CollectedObjects ==
  ASSUME HeapInv, NEW p \in Programs, NEW w \in Workers, Collect(p, w)
  PROVE  /\ Reclaimed(p) \in SUBSET Objects
         /\ \A o \in Reclaimed(p) : Alive(o)
         /\ \A o \in Objects :
              IF o \in Reclaimed(p)
              THEN /\ object'[o].record = "tombstone" /\ object'[o].fields = {}
                   /\ object'[o].lifetime = "Deallocated"
              ELSE /\ object'[o].record = object[o].record
                   /\ object'[o].fields = object[o].fields
                   /\ object'[o].lifetime = object[o].lifetime
                   /\ object'[o].kind = object[o].kind
                   /\ object'[o].arena = object[o].arena
                   /\ object'[o].generation =
                        IF o \in Promoted(p) THEN "Mature" ELSE object[o].generation
         /\ \A o \in Objects : ~Alive(o) => object'[o] = object[o]
<1>1. \A o \in Objects : object[o] \in ObjectRecord
  BY DEF HeapInv, TypeOK
<1>2. Promoted(p) \in SUBSET Objects /\ \A o \in Promoted(p) : Alive(o)
  BY DEF Promoted, Marked
<1>3. Reclaimed(p) \in SUBSET Objects /\ \A o \in Reclaimed(p) : Alive(o)
  BY DEF Reclaimed
<1>4. ASSUME NEW o \in Objects
      PROVE  IF o \in Reclaimed(p)
             THEN /\ object'[o].record = "tombstone" /\ object'[o].fields = {}
                  /\ object'[o].lifetime = "Deallocated"
             ELSE /\ object'[o].record = object[o].record
                  /\ object'[o].fields = object[o].fields
                  /\ object'[o].lifetime = object[o].lifetime
                  /\ object'[o].kind = object[o].kind
                  /\ object'[o].arena = object[o].arena
                  /\ object'[o].generation =
                       IF o \in Promoted(p) THEN "Mature" ELSE object[o].generation
  <2>1. CASE o \in Reclaimed(p)
    <3>1. object'[o] = Tombstone(o)
      BY <2>1, CollectIs
    <3> QED
      BY <1>1, <2>1, <3>1, TombstoneRecord
  <2>2. CASE o \notin Reclaimed(p) /\ o \in Promoted(p)
    <3>1. object'[o] = [object[o] EXCEPT !.generation = "Mature"]
      BY <2>2, CollectIs
    <3> QED
      BY <1>1, <2>2, <3>1, PromotedRecord
  <2>3. CASE o \notin Reclaimed(p) /\ o \notin Promoted(p)
    <3>1. object'[o] = object[o]
      BY <2>3, CollectIs
    <3> QED
      BY <2>3, <3>1
  <2> QED
    BY <2>1, <2>2, <2>3
<1>5. \A o \in Objects : ~Alive(o) => object'[o] = object[o]
  BY <1>2, <1>3, CollectIs
<1> QED
  BY <1>3, <1>4, <1>5

LEMMA CollectKeeps ==
  ASSUME HeapInv, NEW p \in Programs, NEW w \in Workers, Collect(p, w)
  PROVE  HeapInv'
<1> DEFINE R == Reclaimed(p)
<1>1. /\ R \in SUBSET Objects /\ \A o \in R : Alive(o)
      /\ live' = LiveWithout(R)
      /\ \A o \in Objects : Alive(o)' <=> Alive(o) /\ o \notin R
      /\ \A o \in Objects : Alive(o)' => object'[o].arena = object[o].arena
  BY CollectIs, CollectedObjects DEF Alive
<1> HIDE DEF R
<1>2. LiveCountsExact' /\ live' \in [Workers -> 0..Cardinality(Objects)]
  BY <1>1, LiveWithoutCounts DEF HeapInv, ObjectsOK
<1>3. BlankIsAbsent' /\ TombstonesEmpty'
  BY CollectedObjects, SameObjects DEF BlankIsAbsent, TombstonesEmpty, Alive
<1>4. remembered' \in SUBSET (Objects \X Objects)
  BY CollectIs DEF EdgesOutside, HeapInv, TypeOK
<1>5. \A o \in Objects :
        /\ object'[o].fields \subseteq object[o].fields
        /\ object'[o].record = "none" => object[o].record = "none" \/ Doomed(o)
  BY CollectedObjects
<1>6. /\ remote' \in [Workers -> SUBSET Objects]
      /\ \A v \in Workers : \A o \in remote'[v] : Doomed(o)
      /\ requested' \in Cycles \cup {None}
      /\ collecting' \in [Programs -> Cycles \cup {None}]
      /\ teardown' \in [Programs -> [of : Objects \cup {None}, frees : BOOLEAN]]
  BY CollectIs DEF HeapInv, TypeOK, Doomed
<1>7. TeardownHeld'
  BY CollectIs DEF HeapInv, TeardownHeld
<1>8. /\ object' \in [Objects -> ObjectRecord] /\ Drops(w, {})
      /\ UNCHANGED <<scope, held, handles, pins>>
  BY CollectIs
<1>9. ObjectsOK'
  BY <1>2, <1>3 DEF ObjectsOK
<1> QED
  BY <1>2, <1>4, <1>5, <1>6, <1>7, <1>8, <1>9, FreeingKeeps
-----------------------------------------------------------------------------
LEMMA RunsOnWorkers == RunsOn \subseteq Workers
BY NativeIsWorker DEF RunsOn

LEMMA NextHolds == HeapInv /\ [Next]_vars => HeapInv'
<1> SUFFICES ASSUME HeapInv, [Next]_vars PROVE HeapInv'
  OBVIOUS
<1>1. CASE UNCHANGED vars
  <2> USE <1>1 DEF vars, heapVars, programVars
  <2>1. TypeOK'
    BY DEF HeapInv, TypeOK
  <2>2. Pinned' = Pinned /\ TeardownHeld'
    BY DEF Pinned, HeapInv, TeardownHeld
  <2>3. /\ \A p \in Programs : held'[p] \subseteq Referenced
        /\ \A h \in Natives : handles'[h] \subseteq Referenced
        /\ Pinned' \subseteq Referenced
    BY <2>2, ReferencedIs
  <2> QED
    BY <2>1, <2>2, <2>3, HoldersMove
<1>2. ASSUME NEW p \in Programs, ProgramStep(p)
      PROVE  HeapInv'
  <2>1. ASSUME NEW o \in Objects, NEW c \in Objects,
               Load(p, o, c) \/ StoreField(p, o, c) \/ StoreElement(p, o, c)
        PROVE  HeapInv'
    BY <2>1, LoadKeeps, StoreKeeps
  <2>2. ASSUME NEW w \in Workers, NEW o \in Objects, NEW kind \in Kinds,
               NEW parts \in SUBSET held[p], Allocate(p, w, o, kind, parts)
        PROVE  HeapInv'
    BY <2>2, AllocateKeeps
  <2>3. ASSUME NEW w \in Workers, NEW o \in Objects, NEW c \in Objects,
               Forget(p, w, o) \/ Overwrite(p, w, o, c)
        PROVE  HeapInv'
    BY <2>3, ForgetKeeps, OverwriteKeeps
  <2>4. ASSUME NEW w \in Workers,
               \/ EndTeardown(p, w) \/ Drain(p, w) \/ Safepoint(p, w)
               \/ Collect(p, w)
        PROVE  HeapInv'
    BY <2>4, EndTeardownKeeps, DrainKeeps, CollectKeeps
  <2> QED
    BY <1>2, <2>1, <2>2, <2>3, <2>4, BeginTeardownKeeps, RunsOnWorkers
    DEF ProgramStep
<1>3. ASSUME NEW w \in Workers, NEW o \in Objects, Release(w, o)
      PROVE  HeapInv'
  BY <1>3, ReleaseKeeps
<1> QED
  BY <1>1, <1>2, <1>3, NativeStepKeeps, RequestKeeps DEF Next

LEMMA Invariance == Spec => []HeapInv
<1>1. Init => HeapInv
  BY InitHolds
<1>2. HeapInv /\ [Next]_vars => HeapInv'
  BY NextHolds
<1> QED
  BY <1>1, <1>2, PTL DEF Spec

\* The records, arenas, queues and pins keep their types.
THEOREM HeapKeepsTypes == Spec => []TypeOK
<1>1. HeapInv => TypeOK
  BY DEF HeapInv
<1> QED
  BY <1>1, Invariance, PTL

\* live_objects of every arena is exact, although an object that waits for its owner
\* may be collected first, and although decrement_live_locked stops at zero.
THEOREM CountsAreExact == Spec => []LiveCountsExact
<1>1. HeapInv => LiveCountsExact
  BY DEF HeapInv, ObjectsOK
<1> QED
  BY <1>1, Invariance, PTL
-----------------------------------------------------------------------------
(* What the collections of one program keep *)

\* What a program tears down was not deallocated before: lifetimes do not go back.
TeardownFresh ==
  \A p \in Programs :
    teardown[p].of # None => object[teardown[p].of].lifetime # "Deallocated"

EdgesInv == HeapInv /\ EdgesRemembered /\ TeardownFresh

\* Edges of live objects only disappear, and those that remain stay remembered.
EdgesOnlyGo ==
  /\ \A o \in Objects :
       Alive(o)' =>
         /\ Alive(o) /\ object'[o].kind = object[o].kind
         /\ object'[o].generation = object[o].generation
         /\ object'[o].fields \subseteq object[o].fields
         /\ object[o].lifetime = "Deallocated" => object'[o].lifetime = "Deallocated"
  /\ \A e \in remembered : Alive(e[1])' /\ Alive(e[2])' => e \in remembered'

NoTombstones == \A o \in Objects : Alive(o) => object'[o].record # "tombstone"

LEMMA EdgesGoing ==
  ASSUME TypeOK, EdgesRemembered, EdgesOnlyGo, object' \in [Objects -> ObjectRecord]
  PROVE  EdgesRemembered'
<1> SUFFICES ASSUME NEW o \in Objects, NEW c \in object'[o].fields,
                    object'[o].kind = "instance", Alive(o)',
                    object'[o].generation = "Mature",
                    Alive(c)', object'[c].generation = "Young",
                    object'[c].lifetime # "Deallocated"
             PROVE  <<o, c>> \in remembered'
  BY DEF EdgesRemembered
<1>1. c \in Objects
  BY DEF ObjectRecord
<1>2. <<o, c>> \in remembered
  BY <1>1 DEF EdgesOnlyGo, EdgesRemembered
<1> QED
  BY <1>2 DEF EdgesOnlyGo

LEMMA SameObjectsEdges ==
  ASSUME UNCHANGED <<object, remembered>>
  PROVE  EdgesOnlyGo /\ NoTombstones
BY DEF EdgesOnlyGo, NoTombstones, Alive

LEMMA FreeFromEdges ==
  ASSUME HeapInv, NEW S \in SUBSET Objects,
         NEW after \in [Objects -> ObjectRecord],
         \A o \in Objects :
           /\ after[o].record = object[o].record /\ after[o].kind = object[o].kind
           /\ after[o].generation = object[o].generation
           /\ after[o].fields \subseteq object[o].fields
           /\ object[o].lifetime = "Deallocated" => after[o].lifetime = "Deallocated",
         FreeFrom(after, S)
  PROVE  EdgesOnlyGo /\ NoTombstones
<1>1. \A o \in Objects : object'[o] = IF o \in S THEN Absent ELSE after[o]
  BY DEF FreeFrom
<1>2. Absent.record = "none"
  BY DEF Absent
<1>3. \A e \in remembered : e[1] \in Objects /\ e[2] \in Objects
  BY DEF HeapInv, TypeOK
<1>4. remembered' = {e \in remembered : e[1] \notin S /\ e[2] \notin S}
  BY DEF FreeFrom, EdgesOutside
<1> QED
  BY <1>1, <1>2, <1>3, <1>4 DEF EdgesOnlyGo, NoTombstones, Alive

\* Steps that neither allocate, store nor collect.
OnlyRemoves ==
  \/ \E p \in Programs, w \in Workers :
       \/ EndTeardown(p, w) \/ Drain(p, w) \/ Safepoint(p, w)
       \/ \E o, c \in Objects : Overwrite(p, w, o, c)
  \/ \E w \in Workers, o \in Objects : Release(w, o)

LEMMA QuietEdges ==
  ASSUME HeapInv, TeardownFresh, OnlyRemoves
  PROVE  EdgesOnlyGo /\ NoTombstones
<1>1. \A x \in Objects : object[x] \in ObjectRecord
  BY DEF HeapInv, TypeOK
<1>2. ASSUME NEW p \in Programs, NEW w \in Workers, NEW o \in Objects,
             NEW c \in Objects, Overwrite(p, w, o, c)
      PROVE  EdgesOnlyGo /\ NoTombstones
  <2>1. /\ object' = [object EXCEPT ![o].fields = @ \ {c}]
        /\ remembered' = remembered
    BY <1>2 DEF Overwrite
  <2>2. \A x \in Objects :
          /\ object'[x].record = object[x].record /\ object'[x].kind = object[x].kind
          /\ object'[x].generation = object[x].generation
          /\ object'[x].fields \subseteq object[x].fields
          /\ object'[x].lifetime = object[x].lifetime
    <3> SUFFICES ASSUME NEW x \in Objects
                 PROVE  /\ object'[x].record = object[x].record
                        /\ object'[x].kind = object[x].kind
                        /\ object'[x].generation = object[x].generation
                        /\ object'[x].fields \subseteq object[x].fields
                        /\ object'[x].lifetime = object[x].lifetime
      OBVIOUS
    <3>1. CASE x = o
      <4>1. object'[x] = [object[x] EXCEPT !.fields = object[x].fields \ {c}]
        BY <2>1, <3>1 DEF HeapInv, TypeOK
      <4> QED
        BY <1>1, <4>1, FieldsRecord
    <3>2. CASE x # o
      BY <2>1, <3>2 DEF HeapInv, TypeOK
    <3> QED
      BY <3>1, <3>2
  <2> QED
    BY <2>1, <2>2 DEF EdgesOnlyGo, NoTombstones, Alive
<1>3. ASSUME NEW p \in Programs, NEW w \in Workers, EndTeardown(p, w)
      PROVE  EdgesOnlyGo /\ NoTombstones
  <2>1. FreeFrom(Torn(p), Drained(p, w)) /\ Drained(p, w) \in SUBSET Objects
    BY <1>3, EndTeardownIs
  <2>2. \A x \in Objects :
          object[x].lifetime = "Deallocated" => Torn(p)[x].lifetime = "Deallocated"
    BY TornObjects, NoneIsNothing DEF TeardownFresh
  <2> QED
    BY <2>1, <2>2, TornObjects, FreeFromEdges
<1>4. ASSUME NEW p \in Programs, NEW w \in Workers, Drain(p, w) \/ Safepoint(p, w)
      PROVE  EdgesOnlyGo /\ NoTombstones
  <2>1. FreeFrom(object, remote[w]) /\ remote[w] \in SUBSET Objects
    BY <1>4 DEF Drain, Safepoint, DrainOf, HeapInv, TypeOK
  <2> QED
    BY <2>1, SameObjects, FreeFromEdges
<1>5. ASSUME NEW w \in Workers, NEW o \in Objects, Release(w, o)
      PROVE  EdgesOnlyGo /\ NoTombstones
  <2>1. CASE object[o].arena = w
    <3>1. FreeFrom(object, {o}) /\ {o} \in SUBSET Objects
      BY <1>5, <2>1 DEF Release
    <3> QED
      BY <3>1, SameObjects, FreeFromEdges
  <2>2. CASE object[o].arena # w
    BY <1>5, <2>2, SameObjectsEdges DEF Release
  <2> QED
    BY <2>1, <2>2
<1> QED
  BY <1>2, <1>3, <1>4, <1>5 DEF OnlyRemoves
-----------------------------------------------------------------------------
(* Marking *)

\* What the marking visits: the live roots, and what live objects refer to.
LEMMA MarkedCloses ==
  ASSUME NEW roots
  PROVE  /\ \A r \in roots \cap Objects : Alive(r) => r \in Marked(roots)
         /\ \A o \in Marked(roots) : \A c \in object[o].fields \cap Objects :
              Alive(c) => c \in Marked(roots)
<1>1. ASSUME NEW r \in roots \cap Objects, Alive(r)
      PROVE  r \in Marked(roots)
  BY <1>1 DEF Marked
<1>2. ASSUME NEW o \in Marked(roots), NEW c \in object[o].fields \cap Objects, Alive(c)
      PROVE  c \in Marked(roots)
  <2> SUFFICES ASSUME NEW S \in SUBSET Objects,
                      {r \in roots : Alive(r)} \subseteq S, ClosedUnderFields(S)
               PROVE  c \in S
    BY <1>2 DEF Marked
  <2>1. o \in S
    BY DEF Marked
  <2> QED
    BY <1>2, <2>1 DEF ClosedUnderFields
<1> QED
  BY <1>1, <1>2

LEMMA HeldAreMarked ==
  ASSUME HeapInv, NEW p \in Programs, NEW o \in held[p] \cup Pinned, Alive(o)
  PROVE  o \in Marked(Roots(p, collecting[p])) /\ o \notin Reclaimed(p)
<1>1. o \in Objects
  BY DEF HeapInv, TypeOK, Pinned
<1>2. o \in Roots(p, collecting[p])
  BY DEF Roots
<1>3. o \in Marked(Roots(p, collecting[p]))
  BY <1>1, <1>2, MarkedCloses
<1> QED
  BY <1>3 DEF Reclaimed

\* After a collection that promotes, the young objects that are left were deallocated.
LEMMA CollectEdges ==
  ASSUME EdgesInv, NEW p \in Programs, NEW w \in Workers, Collect(p, w)
  PROVE  EdgesRemembered'
<1> USE DEF EdgesInv
<1> SUFFICES ASSUME NEW o \in Objects, NEW c \in object'[o].fields,
                    object'[o].kind = "instance", Alive(o)',
                    object'[o].generation = "Mature",
                    Alive(c)', object'[c].generation = "Young",
                    object'[c].lifetime # "Deallocated"
             PROVE  <<o, c>> \in remembered'
  BY DEF EdgesRemembered
<1>1. c \in Objects
  BY CollectIs DEF ObjectRecord
<1>2. /\ o \notin Reclaimed(p) /\ c \notin Reclaimed(p) /\ c \notin Promoted(p)
      /\ Alive(o) /\ Alive(c) /\ c \in object[o].fields
      /\ object[o].kind = "instance" /\ object[c].generation = "Young"
      /\ object[c].lifetime # "Deallocated"
      /\ o \notin Promoted(p) => object[o].generation = "Mature"
  BY <1>1, CollectedObjects DEF Alive
<1>3. collecting[p] = "Shared"
  <2> SUFFICES ASSUME collecting[p] # "Shared" PROVE FALSE
    OBVIOUS
  <2>1. c \notin Marked(Roots(p, collecting[p]))
    BY <1>2 DEF Promoted
  <2>2. Collects(collecting[p], c)
    BY <1>2, CollectIs DEF Collects, Cycles
  <2>3. c \in Pinned
    BY <1>1, <1>2, <2>1, <2>2 DEF Reclaimed
  <2> QED
    BY <1>2, <2>1, <2>3, HeldAreMarked
<1>4. <<o, c>> \in remembered
  BY <1>1, <1>2, <1>3 DEF EdgesRemembered, Promoted
<1>5. <<o, c>> \in EdgesOutside(Reclaimed(p), remembered)
  BY <1>2, <1>4 DEF EdgesOutside
<1> QED
  BY <1>5, CollectIs DEF Alive
-----------------------------------------------------------------------------
LEMMA FreshStays ==
  ASSUME HeapInv, TeardownFresh, UNCHANGED teardown,
         \A o \in Objects :
           object'[o].lifetime = "Deallocated" =>
             \/ object[o].lifetime = "Deallocated"
             \/ \A p \in Programs : teardown[p].of # o
  PROVE  TeardownFresh'
BY DEF HeapInv, TypeOK, TeardownFresh

LEMMA StoreEdges ==
  ASSUME EdgesInv, NEW p \in Programs, NEW o \in Objects, NEW c \in Objects,
         StoreField(p, o, c) \/ StoreElement(p, o, c)
  PROVE  EdgesRemembered' /\ TeardownFresh' /\ NoTombstones
<1> USE DEF EdgesInv
<1>1. /\ object' = [object EXCEPT ![o].fields = @ \cup {c}] /\ UNCHANGED teardown
      /\ object[o].kind \in {"instance", "list"}
      /\ remembered \subseteq remembered'
      /\ object[o].kind = "instance" /\ Remembers(o, c) => <<o, c>> \in remembered'
  BY DEF StoreField, StoreElement, Points, programVars
<1>2. \A x \in Objects :
        /\ object'[x].record = object[x].record /\ object'[x].kind = object[x].kind
        /\ object'[x].generation = object[x].generation
        /\ object'[x].lifetime = object[x].lifetime
        /\ object'[x].fields = IF x = o THEN object[x].fields \cup {c}
                                        ELSE object[x].fields
  <2>1. \A x \in Objects : object[x] \in ObjectRecord
    BY DEF HeapInv, TypeOK
  <2>2. object'[o] = [object[o] EXCEPT !.fields = object[o].fields \cup {c}]
    BY <1>1 DEF HeapInv, TypeOK
  <2>3. \A x \in Objects : x # o => object'[x] = object[x]
    BY <1>1 DEF HeapInv, TypeOK
  <2>4. /\ object'[o].record = object[o].record /\ object'[o].kind = object[o].kind
        /\ object'[o].generation = object[o].generation
        /\ object'[o].lifetime = object[o].lifetime
        /\ object'[o].fields = object[o].fields \cup {c}
    BY <2>1, <2>2, FieldsRecord
  <2> QED
    BY <2>3, <2>4
<1>3. EdgesRemembered'
  <2> SUFFICES ASSUME NEW x \in Objects, NEW y \in object'[x].fields,
                      object'[x].kind = "instance", Alive(x)',
                      object'[x].generation = "Mature",
                      Alive(y)', object'[y].generation = "Young",
                      object'[y].lifetime # "Deallocated"
               PROVE  <<x, y>> \in remembered'
    BY DEF EdgesRemembered
  <2>1. CASE x = o /\ y = c
    BY <1>1, <1>2, <2>1 DEF Remembers
  <2>2. CASE y \in object[x].fields
    <3>1. y \in Objects
      BY <2>2 DEF HeapInv, TypeOK, ObjectRecord
    <3> QED
      BY <1>1, <1>2, <2>2, <3>1 DEF EdgesRemembered, Alive
  <2> QED
    BY <1>2, <2>1, <2>2
<1>4. TeardownFresh' /\ NoTombstones
  BY <1>1, <1>2, FreshStays DEF NoTombstones, Alive
<1> QED
  BY <1>3, <1>4

LEMMA AllocateEdges ==
  ASSUME EdgesInv, NEW p \in Programs, NEW w \in Workers, NEW o \in Objects,
         NEW kind \in Kinds, NEW parts \in SUBSET held[p],
         Allocate(p, w, o, kind, parts)
  PROVE  EdgesRemembered' /\ TeardownFresh' /\ NoTombstones
<1> USE DEF EdgesInv
<1> DEFINE new == [record |-> "live", kind |-> kind,
                   generation |-> IF kind = "tuple" THEN "Shared" ELSE "Young",
                   arena |-> w, lifetime |-> "Live", fields |-> parts]
<1>1. /\ object[o] = Absent /\ object' = [object EXCEPT ![o] = new]
      /\ UNCHANGED <<remembered, teardown>>
  BY DEF Allocate
<1>2. /\ new.generation # "Mature" /\ new.lifetime = "Live" /\ new.record = "live"
  OBVIOUS
<1> HIDE DEF new
<1>3. \A x \in Objects : object'[x] = IF x = o THEN new ELSE object[x]
  BY <1>1 DEF HeapInv, TypeOK
<1>4. Absent.record = "none"
  BY DEF Absent
<1>5. \A x \in Objects : o \notin object[x].fields
  <2>1. o \notin Referenced
    BY <1>1, <1>4 DEF HeapInv, NothingDangles
  <2> QED
    BY <2>1, ReferencedIs
<1>6. EdgesRemembered'
  <2> SUFFICES ASSUME NEW x \in Objects, NEW y \in object'[x].fields,
                      object'[x].kind = "instance", Alive(x)',
                      object'[x].generation = "Mature",
                      Alive(y)', object'[y].generation = "Young",
                      object'[y].lifetime # "Deallocated"
               PROVE  <<x, y>> \in remembered'
    BY DEF EdgesRemembered
  <2>1. x # o /\ object'[x] = object[x]
    BY <1>2, <1>3
  <2>2. y # o /\ y \in Objects
    BY <1>5, <2>1 DEF HeapInv, TypeOK, ObjectRecord
  <2>3. object'[y] = object[y]
    BY <1>3, <2>2
  <2> QED
    BY <1>1, <2>1, <2>3 DEF EdgesRemembered, Alive
<1>7. TeardownFresh'
  BY <1>1, <1>2, <1>3, FreshStays
<1>8. NoTombstones
  BY <1>2, <1>3 DEF NoTombstones, Alive
<1> QED
  BY <1>6, <1>7, <1>8

\* With one program, what is torn down is never collected.
LEMMA CollectIsFresh ==
  ASSUME SingleProgram, EdgesInv, NEW p \in Programs, NEW w \in Workers, Collect(p, w)
  PROVE  TeardownFresh'
<1> SUFFICES ASSUME NEW o \in Objects, NEW q \in Programs, teardown[q].of = o
             PROVE  object'[o].lifetime = "Deallocated" =>
                      object[o].lifetime = "Deallocated"
  BY CollectIs, FreshStays DEF EdgesInv
<1>1. o \in held[p]
  BY NoneIsNothing DEF EdgesInv, HeapInv, TeardownHeld, SingleProgram
<1>2. o \notin Reclaimed(p)
  BY <1>1, HeldAreMarked DEF EdgesInv, Reclaimed
<1> QED
  BY <1>2, CollectedObjects DEF EdgesInv

\* With one program, a collection keeps all that is needed.
LEMMA CollectKeepsNeeded ==
  ASSUME SingleProgram, HeapInv, NEW p \in Programs, NEW w \in Workers, Collect(p, w),
         NEW o \in Needed, Alive(o)
  PROVE  object'[o].record # "tombstone"
<1> DEFINE roots == Roots(p, collecting[p])
           S == {x \in Objects : Alive(x) => x \in Marked(roots)}
<1>1. held[p] \cup Pinned \subseteq S
  BY HeldAreMarked DEF HeapInv, TypeOK, Pinned
<1>2. (UNION {held[q] : q \in Programs}) \cup Pinned \subseteq S
  <2>1. \A q \in Programs : held[q] \subseteq S
    BY <1>1 DEF SingleProgram
  <2> HIDE DEF S
  <2> QED
    BY <1>1, <2>1
<1>3. \A s \in S : object[s].fields \subseteq S
  <2> SUFFICES ASSUME NEW s \in S, NEW c \in object[s].fields, Alive(c)
               PROVE  c \in Objects /\ c \in Marked(roots)
    BY DEF HeapInv, TypeOK, ObjectRecord
  <2>1. c \in Objects
    BY DEF HeapInv, TypeOK, ObjectRecord
  <2>2. CASE Alive(s)
    BY <2>1, <2>2, MarkedCloses
  <2>3. CASE ~Alive(s)
    <3>1. object[s].record \in {"none", "tombstone"}
      BY <2>3 DEF Alive, HeapInv, TypeOK, ObjectRecord
    <3>2. object[s].fields = {}
      BY <3>1, SameObjects DEF Absent
    <3> QED
      BY <3>2
  <2> QED
    BY <2>2, <2>3
<1>4. o \in S /\ o \in Objects
  <2>1. S \in SUBSET Objects
    OBVIOUS
  <2> HIDE DEF S
  <2> QED
    BY <1>2, <1>3, <2>1 DEF Needed
<1>5. o \notin Reclaimed(p)
  BY <1>4 DEF Reclaimed
<1> QED
  BY <1>4, <1>5, CollectedObjects DEF Alive
-----------------------------------------------------------------------------
\* A step that leaves the objects, the remembered set and teardowns alone.
LEMMA StillEdges ==
  ASSUME EdgesInv, UNCHANGED <<object, remembered, teardown>>
  PROVE  EdgesRemembered' /\ TeardownFresh' /\ NoTombstones
<1>1. EdgesRemembered'
  BY SameObjectsEdges, EdgesGoing DEF EdgesInv, HeapInv, TypeOK
<1>2. TeardownFresh'
  BY FreshStays DEF EdgesInv
<1> QED
  BY <1>1, <1>2, SameObjectsEdges

\* A step that only removes edges.
LEMMA GoingEdges ==
  ASSUME SingleProgram, EdgesInv, HeapInv', OnlyRemoves
  PROVE  EdgesRemembered' /\ TeardownFresh' /\ NoTombstones
<1>1. EdgesOnlyGo /\ NoTombstones
  BY QuietEdges DEF EdgesInv
<1>2. EdgesRemembered'
  BY <1>1, EdgesGoing DEF EdgesInv, HeapInv, TypeOK
<1>3. ASSUME NEW p \in Programs, NEW w \in Workers, EndTeardown(p, w)
      PROVE  TeardownFresh'
  <2>1. teardown' = [teardown EXCEPT ![p] = NoTeardown]
    BY <1>3 DEF EndTeardown
  <2>2. \A q \in Programs : teardown'[q].of = None
    BY <2>1 DEF SingleProgram, NoTeardown, EdgesInv, HeapInv, TypeOK
  <2> QED
    BY <2>2 DEF TeardownFresh
<1>4. ASSUME NEW p \in Programs, NEW w \in Workers, NEW o \in Objects,
             NEW c \in Objects, Overwrite(p, w, o, c)
      PROVE  TeardownFresh'
  <2>1. /\ object[o] \in ObjectRecord
        /\ object'[o] = [object[o] EXCEPT !.fields = object[o].fields \ {c}]
        /\ \A x \in Objects : x # o => object'[x] = object[x]
    BY <1>4 DEF Overwrite, EdgesInv, HeapInv, TypeOK
  <2>2. object'[o].lifetime = object[o].lifetime
    BY <2>1, FieldsRecord
  <2>3. \A x \in Objects : object'[x].lifetime = object[x].lifetime
    BY <2>1, <2>2
  <2> QED
    BY <1>4, <2>3, FreshStays DEF Overwrite, programVars, EdgesInv
<1>5. ASSUME NEW p \in Programs, NEW w \in Workers, Drain(p, w) \/ Safepoint(p, w)
      PROVE  TeardownFresh'
  <2>1. /\ \A x \in Objects : object'[x] \in {Absent, object[x]}
        /\ UNCHANGED teardown
    BY <1>5 DEF Drain, Safepoint, DrainOf, FreeFrom, programVars
  <2> QED
    BY <2>1, FreshStays DEF Absent, EdgesInv
<1>6. ASSUME NEW w \in Workers, NEW o \in Objects, Release(w, o)
      PROVE  TeardownFresh'
  <2>1. /\ \A x \in Objects : object'[x] \in {Absent, object[x]}
        /\ UNCHANGED teardown
    BY <1>6 DEF Release, FreeFrom, programVars
  <2> QED
    BY <2>1, FreshStays DEF Absent, EdgesInv
<1>7. TeardownFresh'
  BY <1>3, <1>4, <1>5, <1>6 DEF OnlyRemoves
<1> QED
  BY <1>1, <1>2, <1>7

LEMMA BeginTeardownEdges ==
  ASSUME EdgesInv, NEW p \in Programs, NEW o \in Objects, NEW frees \in BOOLEAN,
         BeginTeardown(p, o, frees)
  PROVE  EdgesRemembered' /\ TeardownFresh' /\ NoTombstones
<1>1. /\ UNCHANGED <<object, remembered>> /\ object[o].lifetime # "Deallocated"
      /\ teardown' = [teardown EXCEPT ![p] = [of |-> o, frees |-> frees]]
  BY DEF BeginTeardown, heapVars
<1>2. EdgesRemembered' /\ NoTombstones
  BY <1>1, SameObjectsEdges, EdgesGoing DEF EdgesInv, HeapInv, TypeOK
<1>3. TeardownFresh'
  BY <1>1 DEF TeardownFresh, EdgesInv, HeapInv, TypeOK
<1> QED
  BY <1>2, <1>3

\* Every step keeps the edges remembered, and makes no tombstone of what is needed.
LEMMA EdgesNext ==
  ASSUME SingleProgram, EdgesInv, [Next]_vars
  PROVE  /\ EdgesInv'
         /\ \A x \in Needed : Alive(x) => object'[x].record # "tombstone"
<1>1. HeapInv'
  BY NextHolds DEF EdgesInv
<1>2. Needed \subseteq Objects
  BY DEF Needed
<1> DEFINE Goal == /\ EdgesRemembered' /\ TeardownFresh'
                   /\ \A x \in Needed : Alive(x) => object'[x].record # "tombstone"
<1>3. EdgesRemembered' /\ TeardownFresh' /\ NoTombstones => Goal
  BY <1>2 DEF NoTombstones
<1> HIDE DEF Goal
<1>4. ASSUME UNCHANGED vars
      PROVE  Goal
  BY <1>3, <1>4, StillEdges DEF vars, heapVars, programVars
<1>5. ASSUME NEW p \in Programs, ProgramStep(p)
      PROVE  Goal
  <2>1. ASSUME NEW o \in Objects, NEW c \in Objects, Load(p, o, c)
        PROVE  Goal
    BY <1>3, <2>1, StillEdges DEF Load, heapVars
  <2>2. ASSUME NEW o \in Objects, NEW c \in Objects,
               StoreField(p, o, c) \/ StoreElement(p, o, c)
        PROVE  Goal
    BY <1>3, <2>2, StoreEdges
  <2>3. ASSUME NEW o \in Objects, NEW frees \in BOOLEAN, BeginTeardown(p, o, frees)
        PROVE  Goal
    BY <1>3, <2>3, BeginTeardownEdges
  <2>4. ASSUME NEW w \in Workers, NEW o \in Objects, NEW kind \in Kinds,
               NEW parts \in SUBSET held[p], Allocate(p, w, o, kind, parts)
        PROVE  Goal
    BY <1>3, <2>4, AllocateEdges
  <2>5. ASSUME NEW w \in Workers, NEW o \in Objects, Forget(p, w, o)
        PROVE  Goal
    BY <1>3, <2>5, StillEdges DEF Forget
  <2>6. ASSUME NEW w \in Workers, NEW o \in Objects, NEW c \in Objects,
               Overwrite(p, w, o, c)
        PROVE  Goal
    BY <1>1, <1>3, <2>6, GoingEdges DEF OnlyRemoves
  <2>7. ASSUME NEW w \in Workers,
               EndTeardown(p, w) \/ Drain(p, w) \/ Safepoint(p, w)
        PROVE  Goal
    BY <1>1, <1>3, <2>7, GoingEdges DEF OnlyRemoves
  <2>8. ASSUME NEW w \in Workers, Collect(p, w)
        PROVE  Goal
    BY <2>8, CollectEdges, CollectIsFresh, CollectKeepsNeeded DEF EdgesInv, Goal
  <2> QED
    BY <1>5, <2>1, <2>2, <2>3, <2>4, <2>5, <2>6, <2>7, <2>8, RunsOnWorkers
    DEF ProgramStep
<1>6. ASSUME NEW h \in Natives, NativeStep(h)
      PROVE  Goal
  <2>1. UNCHANGED <<object, remembered, teardown>>
    BY <1>6 DEF NativeStep, Take, Pass, Let, Pin, Unpin, heapVars, programVars
  <2> QED
    BY <1>3, <2>1, StillEdges
<1>7. ASSUME NEW w \in Workers, NEW o \in Objects, Release(w, o)
      PROVE  Goal
  BY <1>1, <1>3, <1>7, GoingEdges DEF OnlyRemoves
<1>8. ASSUME NEW cycle \in Cycles, RequestCollection(cycle)
      PROVE  Goal
  BY <1>3, <1>8, StillEdges DEF RequestCollection, heapVars, programVars
<1>9. Goal
  BY <1>4, <1>5, <1>6, <1>7, <1>8 DEF Next
<1> QED
  BY <1>1, <1>9 DEF Goal, EdgesInv
-----------------------------------------------------------------------------
LEMMA EdgesInvariance ==
  ASSUME SingleProgram
  PROVE  Spec => []EdgesInv
<1>1. Init => EdgesInv
  <2> SUFFICES ASSUME Init PROVE EdgesInv
    OBVIOUS
  <2>1. \A o \in Objects : object[o].record = "none"
    BY DEF Init, Absent
  <2>2. EdgesRemembered
    BY <2>1 DEF EdgesRemembered, Alive
  <2>3. TeardownFresh
    BY DEF Init, TeardownFresh, NoTeardown
  <2> QED
    BY <2>2, <2>3, InitHolds DEF EdgesInv
<1>2. EdgesInv /\ [Next]_vars => EdgesInv'
  BY EdgesNext
<1> QED
  BY <1>1, <1>2, PTL DEF Spec

\* The write barrier and the clean-up of remembered_set_ leave every edge in it that a
\* young collection of the only program needs.
THEOREM EdgesAreRemembered ==
  ASSUME SingleProgram
  PROVE  Spec => []EdgesRemembered
<1>1. EdgesInv => EdgesRemembered
  BY DEF EdgesInv
<1> QED
  BY <1>1, EdgesInvariance, PTL

\* No collection of the only program makes a tombstone of what it can still reach.
THEOREM CollectionsKeepNeeded ==
  ASSUME SingleProgram
  PROVE  Spec => NeededIsKept
<1>1. EdgesInv /\ [Next]_vars =>
        [\A o \in Needed : Alive(o) => object'[o].record # "tombstone"]_vars
  BY EdgesNext
<1> QED
  BY <1>1, EdgesInvariance, PTL DEF Spec, NeededIsKept
=============================================================================
