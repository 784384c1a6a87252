---------------------------- MODULE MCUnwinding ----------------------------
(* Finite instances of Unwinding for TLC. *)
EXTENDS UnwindingProperties

CONSTANTS
  Deep,     \* how many constructs are nested
  Busy      \* how many of them do more than what their kind has

Act(do) == [do |-> do, tag |-> 0]
End == Act("end")
Plain(kind) ==
  [kind |-> kind, after |-> End, clause |-> End, finally |-> End, matches |-> TRUE]

\* A throw to a catch around it, or to none.
Throws(tags) == [do : {"throw"}, tag : {0} \cup tags]
Fails(tags) == {Act("raise")} \cup Throws(tags)

CatchesOf(kinds) == {l \in DOMAIN kinds : kinds[l] = "catch"}
Inner(tags) == {End, Act("return"), Act("sleep")} \cup Fails(tags)

\* A construct that does one thing more.
Variants(kind, tags) ==
  {[Plain(kind) EXCEPT !.after = a] : a \in {Act("return"), Act("sleep")} \cup Fails(tags)}
    \cup (IF kind \in Ensured
          THEN {[Plain(kind) EXCEPT !.finally = a] : a \in Fails(tags)} ELSE {})
    \cup (IF kind \in Rescued
          THEN {[Plain(kind) EXCEPT !.clause = a] : a \in Fails(tags)}
                 \cup {[Plain(kind) EXCEPT !.matches = FALSE]} ELSE {})

Nests(kinds, busy) ==
  {[l \in DOMAIN kinds |-> IF l \in DOMAIN v THEN v[l] ELSE Plain(kinds[l])] :
     v \in UNION {{f \in [S -> UNION {Variants(kinds[l], CatchesOf(kinds)) : l \in S}] :
                     \A l \in S : f[l] \in Variants(kinds[l], CatchesOf(kinds))} :
                    S \in {T \in SUBSET DOMAIN kinds : Cardinality(T) <= busy}}}

ProgramsOf(kinds, busy) ==
  [nest : Nests(kinds, busy), innermost : Inner(CatchesOf(kinds)),
   wide : IF CatchesOf(kinds) = {} THEN {FALSE} ELSE BOOLEAN]

\* Nests of Deep constructs without variants, and of one less with them.
ManyPrograms ==
  UNION {ProgramsOf(k, 0) : k \in [1 .. Deep -> Kinds]}
    \cup UNION {ProgramsOf(k, Busy) : k \in [1 .. (Deep - 1) -> Kinds]}

\* A throw to a catch, through one construct.
ThrowsThrough ==
  [nest : {<<Plain("catch"), Plain(k)>> : k \in Kinds},
   innermost : {[do |-> "throw", tag |-> 1]}, wide : {FALSE}]
=============================================================================
