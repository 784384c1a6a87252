------------------------------- MODULE MCHeap -------------------------------
(* Finite instances of Heap for TLC. *)
EXTENDS HeapProperties, TLC

CONSTANTS v1, v2, h1, w0, w1, o1, o2, o3

OneProgram == {v1}
TwoPrograms == {v1, v2}
OneNative == {h1}
NoNative == {}
TwoWorkers == {w0, w1}
OneWorker == {w0}
TwoObjects == {o1, o2}
ThreeObjects == {o1, o2, o3}

\* Three objects where chains matter, two where threads do.
HeapScopes ==
  [may : {{"fields", "cycles"}, {"lists", "tuples", "cycles"}}, room : {3}] \cup
  [may : {{"fields", "migrates", "natives"}, {"fields", "teardown", "natives"},
          {"fields", "tuples", "cycles", "migrates"},
          {"lists", "teardown", "migrates"}}, room : {2}]

OnlyLists == [may : {{"lists"}}, room : {2}]

ObjectSymmetry == Permutations(Objects)
=============================================================================
