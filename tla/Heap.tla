-------------------------------- MODULE Heap --------------------------------
(***************************************************************************)
(* RuntimeHeap of src/runtime/heap.cpp, and what the programs of vm.cpp    *)
(* and the native threads around them do with it.                          *)
(*                                                                         *)
(* An object is counted by the references to it, and is freed by the       *)
(* worker whose arena it came from: another worker that drops the last     *)
(* reference queues it there.  Cycles are found by collections, which a    *)
(* program runs at a safepoint when somebody has asked for one: they start *)
(* from what the program holds and from what is pinned, and turn what they *)
(* do not reach into tombstones, which are freed like the others once the  *)
(* last reference goes.                                                    *)
(*                                                                         *)
(* Every action is one section under the mutex of the heap, with the       *)
(* program's own step around it.  The references of an object are a set:   *)
(* it is dropped when nothing holds it any more.  Module bindings, class   *)
(* variables and task-local values are roots of every collection, and are  *)
(* not told apart from what a program holds.                               *)
(***************************************************************************)
EXTENDS Integers, FiniteSets

CONSTANTS
  Programs,    \* the VMs that share the heap
  Natives,     \* threads that hold values outside of a program, and pin them
  Workers,     \* worker ids: each has an arena
  NativeId,    \* the worker id of a thread that is no worker
  Objects,     \* the objects that the heap has room for here
  None,        \* no cycle, no object
  Scopes       \* what may happen in a behaviour, and how many objects there are

FeatureNames == {"fields", "lists", "tuples", "migrates", "natives",
                 "teardown", "cycles"}

ASSUME NativeIsWorker == NativeId \in Workers
ASSUME FiniteHeap == IsFiniteSet(Objects) /\ IsFiniteSet(Workers)
ASSUME NoneIsNothing == None \notin Objects
ASSUME ScopesKnown == Scopes \subseteq [may : SUBSET FeatureNames, room : Nat]

VARIABLES
  scope,       \* the member of Scopes of this behaviour
  object,      \* the objects, each with its record in objects_
  live,        \* live_objects of each arena
  remote,      \* remote_frees of each arena
  dropped,     \* what each worker has dropped the last reference to
  remembered,  \* remembered_set_, as pairs
  requested,   \* pending_gc_cycle_
  held,        \* the values in the frames of each program
  handles,     \* the values of each native thread
  pins,        \* the active pins, by thread and object
  collecting,  \* the cycle that the safepoint of a program has been asked for
  teardown     \* the object whose destructors a program runs

heapVars == <<object, live, remote, dropped, remembered>>
programVars == <<held, collecting, teardown>>
vars == <<scope, heapVars, requested, programVars, handles, pins>>
-----------------------------------------------------------------------------
Cycles == {"Young", "Full", "Shared"}

\* Collections that are made frozen count as tuples.
Kinds == {"instance", "list", "tuple"}

\* logical_live tells a live record from a tombstone.
ObjectRecord ==
  [record : {"none", "live", "tombstone"}, kind : Kinds,
   generation : {"Young", "Mature", "Shared"}, arena : Workers,
   lifetime : {"Live", "Destroyed", "Deallocated"}, fields : SUBSET Objects]

Absent ==
  [record |-> "none", kind |-> "list", generation |-> "Young",
   arena |-> NativeId, lifetime |-> "Live", fields |-> {}]

NoTeardown == [of |-> None, frees |-> FALSE]

TypeOK ==
  /\ scope \in Scopes
  /\ object \in [Objects -> ObjectRecord]
  /\ live \in [Workers -> 0..Cardinality(Objects)]
  /\ remote \in [Workers -> SUBSET Objects]
  /\ dropped \in [Workers -> SUBSET Objects]
  /\ remembered \in SUBSET (Objects \X Objects)
  /\ requested \in Cycles \cup {None}
  /\ held \in [Programs -> SUBSET Objects]
  /\ handles \in [Natives -> SUBSET Objects]
  /\ pins \in SUBSET (Natives \X Objects)
  /\ collecting \in [Programs -> Cycles \cup {None}]
  /\ teardown \in [Programs -> [of : Objects \cup {None}, frees : BOOLEAN]]

Init ==
  /\ scope \in Scopes
  /\ object = [o \in Objects |-> Absent]
  /\ live = [w \in Workers |-> 0]
  /\ remote = [w \in Workers |-> {}]
  /\ dropped = [w \in Workers |-> {}]
  /\ remembered = {}
  /\ requested = None
  /\ held = [p \in Programs |-> {}]
  /\ handles = [h \in Natives |-> {}]
  /\ pins = {}
  /\ collecting = [p \in Programs |-> None]
  /\ teardown = [p \in Programs |-> NoTeardown]
-----------------------------------------------------------------------------
(* References *)

Pinned == {pin[2] : pin \in pins}

\* What has a reference from anywhere.
Referenced ==
  (UNION {held[p] : p \in Programs}) \cup (UNION {handles[h] : h \in Natives})
    \cup Pinned \cup (UNION {object[o].fields : o \in Objects})

\* The worker drops the last references to what nothing holds after the step; it is
\* done with the objects of done.
Drops(w, done) ==
  dropped' = [dropped EXCEPT ![w] = (@ \ done) \cup (Referenced \ Referenced')]

Alive(o) == object[o].record = "live"

EdgesOutside(S, edges) == {e \in edges : e[1] \notin S /\ e[2] \notin S}

\* The frees are not counted.
BugLiveWithout(S) == live

\* decrement_live_locked for those of S, which stops at zero.
LiveWithout(S) ==
  [w \in Workers |->
     LET n == Cardinality({o \in S : object[o].arena = w})
     IN  IF live[w] >= n THEN live[w] - n ELSE 0]

\* The tombstones are counted again.
BugCounted(S) == S

\* Those of S that decrement the count when they are freed: no tombstone.
Counted(S) == {o \in S : Alive(o)}

\* The objects of S are freed, from what the objects have become.
FreeFrom(after, S) ==
  /\ object' = [o \in Objects |-> IF o \in S THEN Absent ELSE after[o]]
  /\ live' = LiveWithout(Counted(S))
  /\ remembered' = EdgesOutside(S, remembered)

\* runtime_heap_release when the count is zero: the owner frees the object, which
\* drops what it refers to; the others queue it.
Release(w, o) ==
  /\ o \in dropped[w]
  /\ IF object[o].arena = w
     THEN FreeFrom(object, {o}) /\ UNCHANGED remote
     ELSE /\ remote' = [remote EXCEPT ![object[o].arena] = @ \cup {o}]
          /\ UNCHANGED <<object, live, remembered>>
  /\ UNCHANGED <<scope, requested, programVars, handles, pins>>
  /\ Drops(w, {o})
-----------------------------------------------------------------------------
(* Programs *)

\* allocate, up to record_allocation; what the object is made from is in the frame.
\* An instance and a mutable collection are made empty or filled, all the same.
Allocate(p, w, o, kind, parts) ==
  /\ object[o] = Absent
  /\ Cardinality({x \in Objects : object[x] # Absent}) < scope.room
  /\ \A v \in Workers : o \notin dropped[v] \cup remote[v]
  /\ kind = "instance" => parts = {} /\ "fields" \in scope.may
  /\ kind = "list" => "lists" \in scope.may
  /\ kind = "tuple" => "tuples" \in scope.may
  /\ parts \subseteq held[p]
  /\ object' = [object EXCEPT ![o] =
                  [record |-> "live", kind |-> kind,
                   generation |-> IF kind = "tuple" THEN "Shared" ELSE "Young",
                   arena |-> w, lifetime |-> "Live", fields |-> parts]]
  /\ live' = [live EXCEPT ![w] = @ + 1]
  /\ held' = [held EXCEPT ![p] = @ \cup {o}]
  /\ UNCHANGED <<scope, remote, dropped, remembered, requested, handles, pins,
                 collecting, teardown>>

\* The program reads a field or an element.
Load(p, o, c) ==
  /\ o \in held[p] /\ object[o].lifetime = "Live"
  /\ c \in object[o].fields \ held[p]
  /\ held' = [held EXCEPT ![p] = @ \cup {c}]
  /\ UNCHANGED <<scope, heapVars, requested, handles, pins, collecting,
                 teardown>>

\* The program overwrites a register.
Forget(p, w, o) ==
  /\ o \in held[p] /\ o # teardown[p].of
  /\ held' = [held EXCEPT ![p] = @ \ {o}]
  /\ UNCHANGED <<scope, object, live, remote, remembered, requested, handles,
                 pins, collecting, teardown>>
  /\ Drops(w, {})

\* Only edges between objects that share an arena are remembered.
BugRemembers(o, c) ==
  /\ object[o].generation = "Mature"
  /\ object[c].generation = "Young"
  /\ object[o].arena = object[c].arena

\* The write barrier remembers an edge from a mature object to a young one.
Remembers(o, c) ==
  object[o].generation = "Mature" /\ object[c].generation = "Young"

Points(o, c) == [object EXCEPT ![o].fields = @ \cup {c}]

\* A field of an instance is stored, through write_barrier, which rejects what is
\* destroyed or deallocated.
StoreField(p, o, c) ==
  /\ {o, c} \subseteq held[p] /\ c \notin object[o].fields
  /\ object[o].kind = "instance"
  /\ object[o].lifetime = "Live" /\ object[c].lifetime = "Live"
  /\ object' = Points(o, c)
  /\ remembered' = IF Remembers(o, c) THEN remembered \cup {<<o, c>>}
                                      ELSE remembered
  /\ UNCHANGED <<scope, live, remote, dropped, requested, programVars, handles,
                 pins>>

\* An element is stored in a list, a set or a map: there is no barrier.
StoreElement(p, o, c) ==
  /\ {o, c} \subseteq held[p] /\ c \notin object[o].fields
  /\ object[o].kind = "list"
  /\ object[o].lifetime = "Live"
  /\ object' = Points(o, c)
  /\ UNCHANGED <<scope, live, remote, dropped, remembered, requested,
                 programVars, handles, pins>>

\* A field or an element is overwritten.
Overwrite(p, w, o, c) ==
  /\ o \in held[p] /\ c \in object[o].fields
  /\ object[o].kind # "tuple" /\ object[o].lifetime = "Live"
  /\ object' = [object EXCEPT ![o].fields = @ \ {c}]
  /\ UNCHANGED <<scope, live, remote, remembered, requested, programVars,
                 handles, pins>>
  /\ Drops(w, {})
-----------------------------------------------------------------------------
(* destroy! and memory.dealloc *)

\* The object is confined and not pinned.  Its destructors are ordinary code of the
\* program; one teardown at a time.
BeginTeardown(p, o, frees) ==
  /\ "teardown" \in scope.may
  /\ teardown[p] = NoTeardown
  /\ o \in held[p]
  /\ object[o].kind # "tuple"
  /\ object[o].lifetime \in {"Live"} \cup (IF frees THEN {"Destroyed"} ELSE {})
  /\ o \notin Pinned
  /\ teardown' = [teardown EXCEPT ![p] = [of |-> o, frees |-> frees]]
  /\ UNCHANGED <<scope, heapVars, requested, held, handles, pins, collecting>>

\* The object is destroyed; if it is deallocated it loses its payload, and the worker
\* drains its remote frees.
EndTeardown(p, w) ==
  LET o == teardown[p].of
      frees == teardown[p].frees
      drained == IF frees THEN remote[w] ELSE {}
      torn == IF frees THEN [object EXCEPT ![o].lifetime = "Deallocated",
                                           ![o].fields = {}]
                       ELSE [object EXCEPT ![o].lifetime = "Destroyed"]
  IN  /\ teardown[p] # NoTeardown
      /\ FreeFrom(torn, drained)
      /\ remote' = [remote EXCEPT ![w] = @ \ drained]
      /\ teardown' = [teardown EXCEPT ![p] = NoTeardown]
      /\ UNCHANGED <<scope, requested, held, handles, pins, collecting>>
      /\ Drops(w, {})
-----------------------------------------------------------------------------
(* Safepoints and collections *)

\* drain_remote_frees of the worker that the program runs on.
DrainOf(w) ==
  /\ remote' = [remote EXCEPT ![w] = {}]
  /\ FreeFrom(object, remote[w])

\* At the end of an execution, or under the pressure of allocations.
Drain(p, w) ==
  /\ collecting[p] = None
  /\ remote[w] # {}
  /\ DrainOf(w)
  /\ UNCHANGED <<scope, requested, programVars, handles, pins>>
  /\ Drops(w, {})

\* run_safepoint drains, and sees whether a collection is pending; without one it is
\* a Drain.
Safepoint(p, w) ==
  /\ collecting[p] = None /\ requested # None
  /\ DrainOf(w)
  /\ collecting' = [collecting EXCEPT ![p] = requested]
  /\ UNCHANGED <<scope, requested, held, teardown, handles, pins>>
  /\ Drops(w, {})

\* Pins are no roots.
BugRoots(p, cycle) ==
  held[p] \cup (IF cycle = "Young" THEN {e[2] : e \in remembered} ELSE {})

\* What collect_garbage starts from.
Roots(p, cycle) ==
  held[p] \cup Pinned
    \cup (IF cycle = "Young" THEN {e[2] : e \in remembered} ELSE {})

\* S holds the live objects that its members refer to.
ClosedUnderFields(S) ==
  \A o \in S : \A c \in object[o].fields : Alive(c) => c \in S

\* The smallest closed set with the roots: visited at the end of the marking.
Marked(roots) ==
  {o \in Objects : Alive(o) /\
     \A S \in SUBSET Objects :
       {r \in roots : Alive(r)} \subseteq S /\ ClosedUnderFields(S) => o \in S}

\* cycle_collects_header.
Collects(cycle, o) ==
  CASE cycle = "Full"   -> TRUE
    [] cycle = "Young"  -> object[o].generation = "Young"
    [] cycle = "Shared" -> object[o].generation = "Shared"

Tombstone(o) ==
  [object[o] EXCEPT !.record = "tombstone", !.lifetime = "Deallocated",
                    !.fields = {}]

\* cleanup_remembered_set_locked, given the objects after the collection.
StillNeeded(edges, after) ==
  {e \in edges :
     /\ after[e[1]].record = "live" /\ after[e[1]].generation = "Mature"
     /\ after[e[2]].record = "live" /\ after[e[2]].generation = "Young"}

Collect(p, w) ==
  LET cycle == collecting[p]
      marked == Marked(Roots(p, cycle))
      reclaimed == {o \in Objects : /\ Alive(o) /\ Collects(cycle, o)
                                    /\ o \notin Pinned /\ o \notin marked}
      promoted == {o \in marked : /\ cycle # "Shared"
                                  /\ object[o].generation = "Young"
                                  /\ object[o].lifetime # "Deallocated"}
      after == [o \in Objects |->
                  IF o \in reclaimed THEN Tombstone(o)
                  ELSE IF o \in promoted
                  THEN [object[o] EXCEPT !.generation = "Mature"]
                  ELSE object[o]]
  IN  /\ cycle # None
      /\ object' = after
      /\ live' = LiveWithout(reclaimed)
      /\ remembered' = StillNeeded(EdgesOutside(reclaimed, remembered), after)
      /\ requested' = None
      /\ collecting' = [collecting EXCEPT ![p] = None]
      /\ UNCHANGED <<scope, remote, held, teardown, handles, pins>>
      /\ Drops(w, {})
-----------------------------------------------------------------------------
(* Native threads *)

RequestCollection(cycle) ==
  /\ cycle # "Full" => "cycles" \in scope.may
  /\ requested # cycle
  /\ requested' = cycle
  /\ UNCHANGED <<scope, heapVars, programVars, handles, pins>>

\* A value leaves a program, or is passed to one.
Take(h, p, o) ==
  /\ "natives" \in scope.may
  /\ o \in held[p] \ handles[h]
  /\ handles' = [handles EXCEPT ![h] = @ \cup {o}]
  /\ UNCHANGED <<scope, heapVars, requested, programVars, pins>>

Pass(h, p, o) ==
  /\ o \in handles[h] \ held[p]
  /\ held' = [held EXCEPT ![p] = @ \cup {o}]
  /\ UNCHANGED <<scope, heapVars, requested, collecting, teardown, handles,
                 pins>>

Let(h, o) ==
  /\ o \in handles[h]
  /\ handles' = [handles EXCEPT ![h] = @ \ {o}]
  /\ UNCHANGED <<scope, object, live, remote, remembered, requested,
                 programVars, pins>>
  /\ Drops(NativeId, {})

Pin(h, o) ==
  /\ o \in handles[h]
  /\ Alive(o) /\ object[o].lifetime = "Live"
  /\ <<h, o>> \notin pins
  /\ pins' = pins \cup {<<h, o>>}
  /\ UNCHANGED <<scope, heapVars, requested, programVars, handles>>

Unpin(h, o) ==
  /\ <<h, o>> \in pins
  /\ pins' = pins \ {<<h, o>>}
  /\ UNCHANGED <<scope, object, live, remote, remembered, requested,
                 programVars, handles>>
  /\ Drops(NativeId, {})
-----------------------------------------------------------------------------
\* A program that parks goes on where it is taken.
RunsOn == IF "migrates" \in scope.may THEN Workers ELSE {NativeId}

ProgramStep(p) ==
  \/ \E o, c \in Objects :
       Load(p, o, c) \/ StoreField(p, o, c) \/ StoreElement(p, o, c)
  \/ \E o \in Objects, frees \in BOOLEAN : BeginTeardown(p, o, frees)
  \/ \E w \in RunsOn :
       \/ \E o \in Objects, kind \in Kinds, parts \in SUBSET held[p] :
            Allocate(p, w, o, kind, parts)
       \/ \E o \in Objects : Forget(p, w, o)
       \/ \E o, c \in Objects : Overwrite(p, w, o, c)
       \/ EndTeardown(p, w) \/ Drain(p, w) \/ Safepoint(p, w)
       \/ Collect(p, w)

NativeStep(h) ==
  \E o \in Objects :
    \/ \E p \in Programs : Take(h, p, o) \/ Pass(h, p, o)
    \/ Let(h, o) \/ Pin(h, o) \/ Unpin(h, o)

Next ==
  \/ \E p \in Programs : ProgramStep(p)
  \/ \E h \in Natives : NativeStep(h)
  \/ \E w \in Workers, o \in Objects : Release(w, o)
  \/ \E cycle \in Cycles : RequestCollection(cycle)

Spec == Init /\ [][Next]_vars
=============================================================================
