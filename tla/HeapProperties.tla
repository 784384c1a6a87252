--------------------------- MODULE HeapProperties ---------------------------
(* What those who hold objects rely on. *)
EXTENDS Heap

\* Everything that a program or a native thread may still reach: a program from its
\* frames, a native thread from what it has pinned.
Needed ==
  {o \in Objects :
     \A S \in SUBSET Objects :
       (UNION {held[p] : p \in Programs}) \cup Pinned \subseteq S
         /\ (\A s \in S : object[s].fields \subseteq S) => o \in S}

(***************************************************************************)
(* No collection makes a tombstone of an object that a program can reach   *)
(* from its frames, or that is reached from a pin: the roots are all       *)
(* frames and the active pins (amber_runtime_project_design.md:3653-3661). *)
(***************************************************************************)
NeededIsKept ==
  [][\A o \in Needed : Alive(o) => object'[o].record # "tombstone"]_vars

(***************************************************************************)
(* The remembered set has every edge that a young collection needs: from a *)
(* mature instance to a young object, whoever stored it and whatever was   *)
(* collected, promoted, torn down or freed since.                          *)
(***************************************************************************)
EdgesRemembered ==
  \A o \in Objects : \A c \in object[o].fields :
    /\ object[o].kind = "instance" /\ Alive(o)
    /\ object[o].generation = "Mature"
    /\ Alive(c) /\ object[c].generation = "Young"
    /\ object[c].lifetime # "Deallocated"
    => <<o, c>> \in remembered

(***************************************************************************)
(* live_objects of an arena is the number of its objects that are neither  *)
(* freed nor tombstones: an object that is queued for its owner still      *)
(* counts, and one that a collection got to first counts down only once.   *)
(***************************************************************************)
LiveCountsExact ==
  \A w \in Workers :
    live[w] = Cardinality({o \in Objects : Alive(o) /\ object[o].arena = w})
=============================================================================
