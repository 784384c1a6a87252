---------------------------- MODULE UnwindingProofs ----------------------------
(***************************************************************************)
(* Theorems about Unwinding, for any set of programs.                      *)
(*                                                                         *)
(* The invariant says how frames lie on each other in a VM, how the VMs of *)
(* blocks lie on their parents, and that the scopes of the task-local      *)
(* context are those of the frames.  Its parts are predicates of frames,   *)
(* of sequences of frames and of sequences of VMs, so that a step is shown *)
(* to keep them by what it makes of the frames of one VM.                  *)
(***************************************************************************)
EXTENDS UnwindingProperties, SequenceTheorems, WellFoundedInduction, TLAPS
-----------------------------------------------------------------------------
(* The inductive invariant. *)

\* How code may be left: an exception or a tag goes with it.
Reasons ==
  {Normally, Way("fault", <<>>)} \cup {Way("raise", e) : e \in Exceptions}
    \cup {Way("throw", <<tag>>) : tag \in Nat}

FrameRecord ==
  [code : Codes, of : 0 .. Depth, step : {"down", "after", "ensure", "return"},
   level : 1 .. (Depth + 1), exception : Exceptions \cup {<<>>}, pending : Reasons,
   lost : SUBSET Catches(Levels), kept : SUBSET Catches(Levels), scope : 0 .. Depth]

VmRecord ==
  [frames : Seq(FrameRecord), way : Reasons, escaped : BOOLEAN, left : BOOLEAN]

\* A frame of a body is past its procedure, and at no construct when it is at the end; a
\* clause stays at its construct.
FrameGood(f) ==
  /\ f.code = "body" => f.of < f.level /\ (f.step = "down" \/ f.level <= Depth)
  /\ f.code # "body" => f.of \in Levels /\ f.level = f.of
  /\ f.code = "rescue" => f.exception \in Exceptions
  /\ f.pending.how \in {"end"} \cup
       (IF f.code = "ensure" THEN {"raise", "throw"} ELSE {})
  /\ f.scope # 0 => f.code = "body" /\ Kind(f.of) = "with" /\ f.scope = f.of

\* What may lie on a frame: the body that it calls, or a clause of a construct that it
\* has left.
Carries(under, over) ==
  IF over.code = "body"
  THEN under.code = "body" /\ under.step = "down" /\ under.level = over.of
  ELSE under.code # "ensure" /\ under.step # "down"

FramesGood(fs) ==
  /\ \A j \in DOMAIN fs : FrameGood(fs[j])
  /\ fs # <<>> => fs[1].code = "body"
  /\ \A j \in 1 .. (Len(fs) - 1) : Carries(fs[j], fs[j + 1])
  /\ \A j, k \in DOMAIN fs :
       j < k /\ fs[k].code = "body" => fs[j].code = "body" /\ fs[j].of < fs[k].of

VmGood(v) ==
  /\ FramesGood(v.frames)
  /\ v.left => v.escaped
  /\ v.escaped => v.way # Normally

\* A parent waits in the call of its block, or unwinds with what has escaped of it.
ParentGood(v, child) ==
  /\ v.frames # <<>> /\ ~v.left
  /\ child.left \/
       /\ v.way = Normally
       /\ Last(v.frames).code = "body" /\ Last(v.frames).step = "down"
       /\ Kind(Last(v.frames).level) = "block" /\ Last(v.frames).level <= Depth

\* The procedures whose bodies are executed.
Bodies(fs) == {fs[j].of : j \in {k \in DOMAIN fs : fs[k].code = "body"}}

\* Blocks are inside of what called them.
Inside(v, inner) ==
  inner.frames # <<>> =>
    /\ inner.frames[1].of \in Levels /\ Kind(inner.frames[1].of) = "block"
    /\ \A n \in Bodies(v.frames) : n < inner.frames[1].of

VmsGood(vs) ==
  /\ vs \in Seq(VmRecord) /\ vs # <<>> /\ ~vs[1].left
  /\ \A i \in DOMAIN vs : VmGood(vs[i])
  /\ \A i \in 1 .. (Len(vs) - 1) : ParentGood(vs[i], vs[i + 1])
  /\ \A h, i \in DOMAIN vs : h < i => Inside(vs[h], vs[i])

\* A program that is parked stands at an act; one that has ended has nothing left.
TaskGood ==
  /\ task \in {"running", "parked", "done"}
  /\ task # "running" => Len(vms) = 1
  /\ task = "parked" =>
       /\ vms[1].way = Normally /\ vms[1].frames # <<>>
       /\ Last(vms[1].frames).code = "body"
  /\ task = "done" =>
       vms[1].frames = <<>> /\ (vms[1].way = Normally \/ vms[1].escaped)
  /\ task # "done" =>
       \A i \in DOMAIN vms :
         vms[i].frames = <<>> => vms[i].way = Normally

\* The scopes of context are those of S, and each has what was bound before it.
ScopesAre(c, S) ==
  /\ c.scopes \in Seq([token : Levels, previous : 0 .. Depth])
  /\ {c.scopes[i].token : i \in DOMAIN c.scopes} = S
  /\ \A i, j \in DOMAIN c.scopes : i < j => c.scopes[i].token < c.scopes[j].token
  /\ \A i \in DOMAIN c.scopes :
       c.scopes[i].previous = IF i = 1 THEN 0 ELSE c.scopes[i - 1].token
  /\ c.bound = IF c.scopes = <<>> THEN 0 ELSE Last(c.scopes).token

Inv ==
  /\ program \in Programs
  /\ VmsGood(vms)
  /\ TaskGood
  /\ suppressed \in Seq(Exceptions \X Exceptions)
  /\ outcome \in Reasons
-----------------------------------------------------------------------------
(* Numbers and sequences *)

LEMMA LastIs ==
  ASSUME NEW D, NEW s \in Seq(D), s # <<>>
  PROVE  /\ Front(s) \in Seq(D) /\ Len(Front(s)) = Len(s) - 1
         /\ \A i \in 1 .. (Len(s) - 1) : Front(s)[i] = s[i]
         /\ Len(s) \in Nat \ {0} /\ Last(s) = s[Len(s)] /\ Last(s) \in D
<1>1. Len(s) \in Nat \ {0}
  BY EmptySeq, LenProperties
<1> DEFINE n == Len(s) - 1
<1>2. n \in Nat /\ (\A i \in 1 .. n : s[i] \in D) /\ s[Len(s)] \in D
  BY <1>1, ElementOfSeq
<1> HIDE DEF n
<1>3. /\ SubSeq(s, 1, n) \in Seq(D)
      /\ Len(SubSeq(s, 1, n)) = n
      /\ \A i \in 1 .. n : SubSeq(s, 1, n)[i] = s[i]
  BY <1>2, SubSeqProperties
<1> QED
  BY <1>1, <1>2, <1>3 DEF Front, Last, n

LEMMA AppendIs ==
  ASSUME NEW D, NEW s \in Seq(D), NEW x \in D
  PROVE  /\ Append(s, x) \in Seq(D) /\ Len(s) \in Nat /\ Len(Append(s, x)) = Len(s) + 1
         /\ Append(s, x) # <<>>
         /\ \A i \in 1 .. Len(s) : Append(s, x)[i] = s[i]
         /\ Append(s, x)[Len(s) + 1] = x /\ Last(Append(s, x)) = x
<1>1. /\ Append(s, x) \in Seq(D) /\ Len(s) \in Nat /\ Len(Append(s, x)) = Len(s) + 1
      /\ Append(s, x) # <<>>
      /\ \A i \in 1 .. Len(s) : Append(s, x)[i] = s[i]
      /\ Append(s, x)[Len(s) + 1] = x
  BY AppendProperties, EmptySeq, LenProperties
<1> QED
  BY <1>1 DEF Last

\* The last element is another one.
LEMMA ReplacedIs ==
  ASSUME NEW D, NEW s \in Seq(D), s # <<>>, NEW x \in D
  PROVE  /\ Append(Front(s), x) \in Seq(D) /\ Len(Append(Front(s), x)) = Len(s)
         /\ Append(Front(s), x) # <<>>
         /\ \A i \in 1 .. (Len(s) - 1) : Append(Front(s), x)[i] = s[i]
         /\ Append(Front(s), x)[Len(s)] = x /\ Last(Append(Front(s), x)) = x
<1> DEFINE r == Front(s)
<1>1. /\ r \in Seq(D) /\ Len(r) = Len(s) - 1 /\ Len(s) \in Nat \ {0}
      /\ \A i \in 1 .. (Len(s) - 1) : r[i] = s[i]
  BY LastIs
<1> HIDE DEF r
<1>2. /\ Append(r, x) \in Seq(D) /\ Len(Append(r, x)) = Len(r) + 1
      /\ Append(r, x) # <<>>
      /\ \A i \in 1 .. Len(r) : Append(r, x)[i] = r[i]
      /\ Append(r, x)[Len(r) + 1] = x /\ Last(Append(r, x)) = x
  BY <1>1, AppendIs
<1>3. /\ Append(r, x) \in Seq(D) /\ Len(Append(r, x)) = Len(s)
      /\ Append(r, x) # <<>>
      /\ \A i \in 1 .. (Len(s) - 1) : Append(r, x)[i] = s[i]
      /\ Append(r, x)[Len(s)] = x /\ Last(Append(r, x)) = x
  BY <1>1, <1>2
<1> QED
  BY <1>3 DEF r

LEMMA SeqDomain ==
  ASSUME NEW D, NEW s \in Seq(D)
  PROVE  /\ DOMAIN s = 1 .. Len(s) /\ Len(s) \in Nat
         /\ \A i \in DOMAIN s : s[i] \in D
         /\ s = <<>> <=> Len(s) = 0
BY EmptySeq, LenProperties, ElementOfSeq

\* A set of naturals that holds something has a least element.
LEMMA LeastOfNaturals ==
  ASSUME NEW S, S \subseteq Nat, S # {}
  PROVE  \E m \in S : \A i \in S : m <= i
<1>1. IsWellFoundedOn(OpToRel(<, Nat), Nat)
  BY NatLessThanWellFounded
<1>2. PICK m \in S : \A i \in S : ~(<<i, m>> \in OpToRel(<, Nat))
  BY <1>1, WFMin, Zenon
<1>3. OpToRel(<, Nat) = {ss \in Nat \X Nat : ss[1] < ss[2]}
  BY Zenon DEF OpToRel
<1>4. \A i \in S : i < m => <<i, m>> \in {ss \in Nat \X Nat : ss[1] < ss[2]}
  OBVIOUS
<1>5. \A i \in S : ~(i < m)
  BY <1>2, <1>3, <1>4, Zenon
<1> QED
  BY <1>5

\* A bounded one has a greatest one.
LEMMA GreatestNatural ==
  ASSUME NEW n \in Nat, NEW S, S \subseteq 0 .. n, S # {}
  PROVE  Max(S) \in S /\ \A i \in S : i <= Max(S)
<1> DEFINE T == {k \in 0 .. n : n - k \in S}
<1>1. T \subseteq Nat /\ T # {}
  <2>1. PICK i \in S : TRUE
    OBVIOUS
  <2>2. n - i \in T
    BY <2>1
  <2>3. T \subseteq Nat
    OBVIOUS
  <2> HIDE DEF T
  <2> QED
    BY <2>2, <2>3
<1>2. PICK m \in T : \A k \in T : m <= k
  <2> HIDE DEF T
  <2> QED
    BY <1>1, LeastOfNaturals
<1>3. n - m \in S
  OBVIOUS
<1>4. \A i \in S : n - m >= i
  <2> SUFFICES ASSUME NEW i \in S PROVE n - m >= i
    OBVIOUS
  <2>1. n - i \in T /\ i \in 0 .. n /\ m \in 0 .. n
    OBVIOUS
  <2>2. m <= n - i
    BY <1>2, <2>1
  <2> QED
    BY <2>1, <2>2
<1>5. \E x \in S : \A y \in S : x >= y
  BY <1>3, <1>4
<1>6. Max(S) \in S /\ \A y \in S : Max(S) >= y
  BY <1>5 DEF Max
<1> QED
  BY <1>6

\* What holds of 0 and carries over from each number to the next holds up to m.
LEMMA CountingUp ==
  ASSUME NEW S, NEW m \in Nat, 0 \in S,
         \A n \in 0 .. (m - 1) : n \in S => n + 1 \in S
  PROVE  \A n \in 0 .. m : n \in S
<1> DEFINE Missing == {n \in 0 .. m : n \notin S}
<1> SUFFICES ASSUME Missing # {} PROVE FALSE
  OBVIOUS
<1>1. PICK n \in Missing : \A i \in Missing : n <= i
  <2>1. Missing \subseteq Nat
    OBVIOUS
  <2> QED
    BY <2>1, LeastOfNaturals
<1> QED
  BY <1>1
-----------------------------------------------------------------------------
(* Frames *)

LEMMA ProgramFacts ==
  ASSUME program \in Programs
  PROVE  /\ Depth \in Nat /\ program.innermost \in Acts
         /\ \A l \in Levels : /\ At(l).after \in Acts /\ At(l).clause \in Acts
                              /\ At(l).finally \in Acts
<1>1. program.nest \in Seq(Constructs) /\ program.innermost \in Acts
  BY ProgramsKnown
<1>2. Depth \in Nat /\ \A l \in Levels : At(l) \in Constructs
  BY <1>1, SeqDomain DEF Depth, At, Levels
<1> QED
  BY <1>1, <1>2 DEF Constructs

LEMMA ReasonsAre ==
  /\ Normally \in Reasons /\ Normally.how = "end" /\ Normally.what = <<>>
  /\ \A w \in Reasons :
       /\ w.how \in {"end", "fault", "raise", "throw"}
       /\ w.how = "end" <=> w = Normally
       /\ w.how = "raise" => w.what \in Exceptions
  /\ \A e \in Exceptions :
       Way("raise", e) \in Reasons /\ Way("raise", e) # Normally
         /\ Way("raise", e).how = "raise"
  /\ \A tag \in Nat :
       Way("throw", <<tag>>) \in Reasons /\ Way("throw", <<tag>>) # Normally
         /\ Way("throw", <<tag>>).how = "throw"
  /\ Way("fault", <<>>) \in Reasons /\ Way("fault", <<>>) # Normally
       /\ Way("fault", <<>>).how = "fault"
<1>1. Normally.how = "end" /\ Normally.what = <<>> /\ Normally \in Reasons
  BY DEF Normally, Way, Reasons
<1>2. \A how, what : Way(how, what).how = how /\ Way(how, what).what = what
  BY DEF Way
<1>3. /\ \A e \in Exceptions : Way("raise", e) \in Reasons
      /\ \A tag \in Nat : Way("throw", <<tag>>) \in Reasons
      /\ Way("fault", <<>>) \in Reasons
  BY DEF Reasons
<1>4. \A how, what : how # "end" => Way(how, what) # Normally
  BY <1>1, <1>2
<1>5. \A e \in Exceptions : Way("raise", e) # Normally /\ Way("raise", e).how = "raise"
  BY <1>2, <1>4
<1>6. \A tag \in Nat :
        Way("throw", <<tag>>) # Normally /\ Way("throw", <<tag>>).how = "throw"
  BY <1>2, <1>4
<1>7. Way("fault", <<>>) # Normally /\ Way("fault", <<>>).how = "fault"
  BY <1>2, <1>4
<1>8. ASSUME NEW w \in Reasons
      PROVE  /\ w.how \in {"end", "fault", "raise", "throw"}
             /\ w.how = "end" <=> w = Normally
             /\ w.how = "raise" => w.what \in Exceptions
  <2>1. \/ w = Normally \/ w = Way("fault", <<>>)
        \/ \E e \in Exceptions : w = Way("raise", e)
        \/ \E tag \in Nat : w = Way("throw", <<tag>>)
    BY DEF Reasons
  <2>2. CASE w = Normally
    BY <1>1, <2>2
  <2>3. CASE w = Way("fault", <<>>)
    BY <1>7, <2>3
  <2>4. CASE \E e \in Exceptions : w = Way("raise", e)
    BY <1>2, <1>5, <2>4
  <2>5. CASE \E tag \in Nat : w = Way("throw", <<tag>>)
    BY <1>6, <2>5
  <2> QED
    BY <2>1, <2>2, <2>3, <2>4, <2>5
<1> QED
  BY <1>1, <1>3, <1>5, <1>6, <1>7, <1>8

LEMMA FrontFrames ==
  ASSUME NEW fs \in Seq(FrameRecord), FramesGood(fs), fs # <<>>
  PROVE  Front(fs) \in Seq(FrameRecord) /\ FramesGood(Front(fs))
<1> DEFINE t == Front(fs)
<1>1. /\ t \in Seq(FrameRecord) /\ Len(t) = Len(fs) - 1
      /\ \A i \in 1 .. (Len(fs) - 1) : t[i] = fs[i]
      /\ Len(fs) \in Nat \ {0}
  BY LastIs
<1> HIDE DEF t
<1>2. DOMAIN t = 1 .. (Len(fs) - 1) /\ DOMAIN fs = 1 .. Len(fs)
      /\ (t # <<>> => 1 \in DOMAIN t)
  BY <1>1, SeqDomain
<1>3. \A i \in DOMAIN t : i \in DOMAIN fs /\ t[i] = fs[i]
  BY <1>1, <1>2
<1>4. /\ \A j \in DOMAIN t : FrameGood(t[j])
      /\ t # <<>> => t[1].code = "body"
      /\ \A j, k \in DOMAIN t :
           j < k /\ t[k].code = "body" => t[j].code = "body" /\ t[j].of < t[k].of
  BY <1>1, <1>2, <1>3 DEF FramesGood
<1>5. ASSUME NEW j \in 1 .. (Len(t) - 1)
      PROVE  Carries(t[j], t[j + 1])
  <2>1. j \in DOMAIN t /\ j + 1 \in DOMAIN t /\ j \in 1 .. (Len(fs) - 1)
    BY <1>1, <1>2
  <2> QED
    BY <1>3, <2>1 DEF FramesGood
<1>6. FramesGood(t)
  BY <1>4, <1>5 DEF FramesGood
<1> QED
  BY <1>1, <1>6 DEF t

\* Another frame of the same body or construct takes the place of the last one.
LEMMA ReplaceFrames ==
  ASSUME NEW fs \in Seq(FrameRecord), FramesGood(fs), fs # <<>>,
         NEW f \in FrameRecord, FrameGood(f), f.code = Last(fs).code, f.of = Last(fs).of
  PROVE  Append(Front(fs), f) \in Seq(FrameRecord) /\ FramesGood(Append(Front(fs), f))
<1> DEFINE t == Append(Front(fs), f)
<1>1. /\ t \in Seq(FrameRecord) /\ Len(t) = Len(fs) /\ t # <<>>
      /\ \A i \in 1 .. (Len(fs) - 1) : t[i] = fs[i]
      /\ t[Len(fs)] = f
  BY ReplacedIs
<1>2. Len(fs) \in Nat \ {0} /\ Last(fs) = fs[Len(fs)]
  BY LastIs
<1> HIDE DEF t
<1>3. DOMAIN t = 1 .. Len(fs) /\ DOMAIN fs = 1 .. Len(fs)
  BY <1>1, SeqDomain
<1>4. \A j \in DOMAIN t : t[j].code = fs[j].code /\ t[j].of = fs[j].of /\ FrameGood(t[j])
  BY <1>1, <1>2, <1>3 DEF FramesGood
<1>5. ASSUME NEW j \in 1 .. (Len(t) - 1)
      PROVE  Carries(t[j], t[j + 1])
  <2>1. t[j] = fs[j] /\ Carries(fs[j], fs[j + 1]) /\ j + 1 \in DOMAIN t
    BY <1>1, <1>2, <1>3 DEF FramesGood
  <2> QED
    BY <1>4, <2>1 DEF Carries
<1>6. t[1].code = "body"
  BY <1>2, <1>3, <1>4 DEF FramesGood
<1>7. \A j, k \in DOMAIN t :
        j < k /\ t[k].code = "body" => t[j].code = "body" /\ t[j].of < t[k].of
  BY <1>3, <1>4 DEF FramesGood
<1>8. FramesGood(t)
  BY <1>4, <1>5, <1>6, <1>7 DEF FramesGood
<1> QED
  BY <1>1, <1>8 DEF t

\* A frame is pushed.
LEMMA PushFrames ==
  ASSUME NEW fs \in Seq(FrameRecord), FramesGood(fs), fs # <<>>,
         NEW f \in FrameRecord, FrameGood(f), Carries(Last(fs), f)
  PROVE  Append(fs, f) \in Seq(FrameRecord) /\ FramesGood(Append(fs, f))
<1> DEFINE t == Append(fs, f)
           n == Len(fs)
<1>1. /\ t \in Seq(FrameRecord) /\ Len(t) = n + 1 /\ t # <<>>
      /\ \A i \in 1 .. n : t[i] = fs[i]
      /\ t[n + 1] = f
  BY AppendIs
<1>2. n \in Nat \ {0} /\ Last(fs) = fs[n] /\ fs[n] \in FrameRecord
  BY LastIs
<1>3. DOMAIN t = 1 .. (n + 1) /\ DOMAIN fs = 1 .. n
  BY <1>1, SeqDomain
<1> HIDE DEF t, n
<1>4. \A j \in DOMAIN t : FrameGood(t[j])
  BY <1>1, <1>2, <1>3 DEF FramesGood
<1>5. \A j \in 1 .. (Len(t) - 1) : Carries(t[j], t[j + 1])
  <2> SUFFICES ASSUME NEW j \in 1 .. n PROVE Carries(t[j], t[j + 1])
    BY <1>1, <1>2
  <2>1. CASE j = n
    BY <1>1, <1>2, <2>1
  <2>2. CASE j # n
    <3>1. j \in 1 .. (n - 1) /\ j + 1 \in 1 .. n
      BY <1>2, <2>2
    <3> QED
      BY <1>1, <3>1 DEF FramesGood, n
  <2> QED
    BY <2>1, <2>2
<1>6. t[1].code = "body"
  BY <1>1, <1>2 DEF FramesGood
<1>7. ASSUME NEW j \in DOMAIN t, NEW k \in DOMAIN t, j < k, t[k].code = "body"
      PROVE  t[j].code = "body" /\ t[j].of < t[k].of
  <2>1. CASE k # n + 1
    BY <1>1, <1>2, <1>3, <1>7, <2>1 DEF FramesGood
  <2>2. CASE k = n + 1
    <3>1. j \in 1 .. n /\ t[j] = fs[j] /\ t[k] = f
      BY <1>1, <1>2, <1>3, <1>7, <2>2
    <3>2. fs[n].code = "body" /\ fs[n].level = f.of
      BY <1>2, <1>7, <3>1 DEF Carries
    <3>3. fs[n].of < fs[n].level /\ fs[n].of \in Int /\ fs[n].level \in Int
      <4>1. FrameGood(fs[n])
        BY <1>2, <1>3 DEF FramesGood
      <4> QED
        BY <1>2, <3>2, <4>1 DEF FrameGood, FrameRecord
    <3>4. j = n \/ (fs[j].code = "body" /\ fs[j].of < fs[n].of /\ fs[j].of \in Int)
      <4>1. fs[j] \in FrameRecord
        BY <3>1, <1>3, SeqDomain
      <4>2. fs[j].of \in Int
        BY <4>1 DEF FrameRecord
      <4> QED
        BY <1>2, <1>3, <3>1, <3>2, <4>2 DEF FramesGood
    <3> QED
      BY <3>1, <3>2, <3>3, <3>4
  <2> QED
    BY <2>1, <2>2
<1>8. FramesGood(t)
  BY <1>4, <1>5, <1>6, <1>7 DEF FramesGood
<1> QED
  BY <1>1, <1>8 DEF t

\* Merged registers make it no other frame.
LEMMA MergedGood ==
  ASSUME NEW f \in FrameRecord, FrameGood(f), NEW clause \in FrameRecord
  PROVE  /\ Merged(f, clause) \in FrameRecord /\ FrameGood(Merged(f, clause))
         /\ \E lost : Merged(f, clause) = [f EXCEPT !.lost = lost]
<1> DEFINE lost == (clause.lost \ clause.kept) \cup (f.lost \cap clause.kept)
<1>1. lost \in SUBSET Catches(Levels)
  BY DEF FrameRecord
<1>2. Merged(f, clause) = [f EXCEPT !.lost = lost]
  BY DEF Merged
<1> HIDE DEF lost
<1>3. Merged(f, clause) \in FrameRecord
  BY <1>1, <1>2 DEF FrameRecord
<1>4. FrameGood(Merged(f, clause))
  BY <1>2 DEF FrameGood, FrameRecord
<1> QED
  BY <1>2, <1>3, <1>4

\* The scopes that frames have opened.
Scopes(fs) == {f.scope : f \in Range(fs)} \ {0}

\* The scopes that the frames of VMs have opened.
ScopesOf(vs) == UNION {Scopes(vs[i].frames) : i \in DOMAIN vs}

LEMMA SameScopes ==
  ASSUME NEW vs, NEW ws, DOMAIN ws = DOMAIN vs,
         \A i \in DOMAIN vs : Scopes(ws[i].frames) = Scopes(vs[i].frames)
  PROVE  ScopesOf(ws) = ScopesOf(vs)
BY DEF ScopesOf

\* With one VM more.
LEMMA MoreScopes ==
  ASSUME NEW n \in Nat, NEW vs, NEW ws, DOMAIN vs = 1 .. n, DOMAIN ws = 1 .. (n + 1),
         \A i \in 1 .. n : Scopes(ws[i].frames) = Scopes(vs[i].frames)
  PROVE  ScopesOf(ws) = ScopesOf(vs) \cup Scopes(ws[n + 1].frames)
<1>1. \A i : i \in 1 .. (n + 1) <=> i \in 1 .. n \/ i = n + 1
  OBVIOUS
<1> QED
  BY <1>1 DEF ScopesOf

\* New frames of a VM have the first of the old ones, if any.
Based(old, new) == new # <<>> => old # <<>> /\ new[1].of = old[1].of

\* The frames without the last one: it takes its scope with it.
LEMMA BelowFrames ==
  ASSUME NEW fs \in Seq(FrameRecord), FramesGood(fs), fs # <<>>
  PROVE  /\ Below(fs) \in Seq(FrameRecord) /\ FramesGood(Below(fs))
         /\ Len(Below(fs)) = Len(fs) - 1
         /\ \A j \in 1 .. (Len(fs) - 1) :
              \E lost : Below(fs)[j] = [fs[j] EXCEPT !.lost = lost]
<1> DEFINE rest == Front(fs)
           n == Len(fs)
<1>1. /\ rest \in Seq(FrameRecord) /\ Len(rest) = n - 1
      /\ \A i \in 1 .. (n - 1) : rest[i] = fs[i]
      /\ n \in Nat \ {0} /\ Last(fs) = fs[n] /\ fs[n] \in FrameRecord
  BY LastIs
<1>2. FramesGood(rest)
  BY FrontFrames
<1>3. \A j \in 1 .. (n - 1) : fs[j] \in FrameRecord
  BY <1>1, SeqDomain
<1>4. \A j \in 1 .. (n - 1) : fs[j] = [fs[j] EXCEPT !.lost = fs[j].lost]
  BY <1>3 DEF FrameRecord
<1>5. CASE Last(fs).code = "body" \/ rest = <<>>
  <2>1. Below(fs) = rest
    BY <1>5 DEF Below
  <2> HIDE DEF rest, n
  <2>2. \A j \in 1 .. (n - 1) : \E lost : rest[j] = [fs[j] EXCEPT !.lost = lost]
    BY <1>1, <1>4
  <2> QED
    BY <1>1, <1>2, <2>1, <2>2 DEF n
<1>6. CASE ~(Last(fs).code = "body" \/ rest = <<>>)
  <2> DEFINE g == Merged(Last(rest), Last(fs))
  <2>1. Below(fs) = Append(Front(rest), g) /\ rest # <<>>
    BY <1>6 DEF Below
  <2> HIDE DEF rest, n
  <2>2. /\ Last(rest) = rest[n - 1] /\ Last(rest) \in FrameRecord /\ n - 1 \in 1 .. (n - 1)
        /\ n - 1 \in DOMAIN rest
    BY <1>1, <2>1, LastIs, SeqDomain
  <2>3. FrameGood(Last(rest))
    BY <1>2, <2>2 DEF FramesGood
  <2>4. PICK lost : /\ g = [Last(rest) EXCEPT !.lost = lost]
                    /\ g \in FrameRecord /\ FrameGood(g)
    BY <1>1, <2>2, <2>3, MergedGood
  <2>5. g.code = Last(rest).code /\ g.of = Last(rest).of
    BY <2>2, <2>4 DEF FrameRecord
  <2> HIDE DEF g
  <2>6. Append(Front(rest), g) \in Seq(FrameRecord) /\ FramesGood(Append(Front(rest), g))
    BY <1>1, <1>2, <2>1, <2>4, <2>5, ReplaceFrames
  <2>7. /\ Len(Append(Front(rest), g)) = n - 1
        /\ \A i \in 1 .. (n - 2) : Append(Front(rest), g)[i] = rest[i]
        /\ Append(Front(rest), g)[n - 1] = g
    <3>1. /\ Len(Append(Front(rest), g)) = Len(rest)
          /\ \A i \in 1 .. (Len(rest) - 1) : Append(Front(rest), g)[i] = rest[i]
          /\ Append(Front(rest), g)[Len(rest)] = g
      BY <1>1, <2>1, <2>4, ReplacedIs
    <3> QED
      BY <1>1, <3>1
  <2>8. ASSUME NEW j \in 1 .. (n - 1)
        PROVE  \E l : Below(fs)[j] = [fs[j] EXCEPT !.lost = l]
    <3>1. CASE j = n - 1
      <4>1. Below(fs)[j] = [fs[j] EXCEPT !.lost = lost]
        <5>1. Below(fs)[j] = g /\ Last(rest) = rest[j] /\ rest[j] = fs[j]
          BY <1>1, <2>1, <2>2, <2>7, <3>1
        <5> QED
          BY <2>4, <5>1
      <4> QED
        BY <4>1
    <3>2. CASE j # n - 1
      <4>1. j \in 1 .. (n - 2)
        BY <1>1, <3>2
      <4>2. Below(fs)[j] = fs[j]
        BY <1>1, <2>1, <2>7, <4>1
      <4> QED
        BY <1>4, <4>2
    <3> QED
      BY <3>1, <3>2
  <2> QED
    BY <2>1, <2>6, <2>7, <2>8 DEF n
<1> QED
  BY <1>5, <1>6

\* The frames that are replaced one by one leave bodies and scopes.
LEMMA SameFrames ==
  ASSUME NEW fs \in Seq(FrameRecord), NEW gs \in Seq(FrameRecord), Len(gs) <= Len(fs),
         \A j \in 1 .. Len(gs) :
           gs[j].code = fs[j].code /\ gs[j].of = fs[j].of /\ gs[j].scope = fs[j].scope
  PROVE  /\ Based(fs, gs) /\ Bodies(gs) \subseteq Bodies(fs)
         /\ Scopes(gs) = {fs[j].scope : j \in 1 .. Len(gs)} \ {0}
<1>1. /\ DOMAIN fs = 1 .. Len(fs) /\ DOMAIN gs = 1 .. Len(gs)
      /\ Len(fs) \in Nat /\ Len(gs) \in Nat
      /\ (gs # <<>> => fs # <<>> /\ 1 \in 1 .. Len(gs))
  BY SeqDomain
<1>2. Based(fs, gs)
  BY <1>1 DEF Based
<1>3. Bodies(gs) \subseteq Bodies(fs)
  BY <1>1 DEF Bodies
<1>4. Scopes(gs) = {gs[j].scope : j \in 1 .. Len(gs)} \ {0}
  BY <1>1 DEF Scopes, Range
<1>5. {gs[j].scope : j \in 1 .. Len(gs)} = {fs[j].scope : j \in 1 .. Len(gs)}
  OBVIOUS
<1> QED
  BY <1>2, <1>3, <1>4, <1>5
-----------------------------------------------------------------------------
(* VMs *)

LEMMA VmsAre ==
  ASSUME NEW vs, VmsGood(vs)
  PROVE  /\ Len(vs) \in Nat \ {0} /\ DOMAIN vs = 1 .. Len(vs)
         /\ \A i \in DOMAIN vs : vs[i] \in VmRecord /\ VmGood(vs[i])
         /\ Last(vs) = vs[Len(vs)]
<1>1. vs \in Seq(VmRecord) /\ vs # <<>>
  BY DEF VmsGood
<1>2. Len(vs) \in Nat \ {0} /\ Last(vs) = vs[Len(vs)]
  BY <1>1, LastIs
<1>3. DOMAIN vs = 1 .. Len(vs) /\ \A i \in DOMAIN vs : vs[i] \in VmRecord
  BY <1>1, SeqDomain
<1> QED
  BY <1>2, <1>3 DEF VmsGood

\* One VM has changed, and nothing in it that the ones beside it rely on.
LEMMA VmPlaced ==
  ASSUME NEW vs, VmsGood(vs), NEW a \in DOMAIN vs, NEW v \in VmRecord, VmGood(v),
         v.left = vs[a].left, Based(vs[a].frames, v.frames),
         a < Len(vs) => /\ a = Len(vs) - 1 /\ vs[a + 1].left /\ v.frames # <<>>
                        /\ Bodies(v.frames) \subseteq Bodies(vs[a].frames),
         NEW ws \in Seq(VmRecord), Len(ws) = Len(vs), ws[a] = v,
         \A i \in DOMAIN vs : i # a => ws[i] = vs[i]
  PROVE  VmsGood(ws)
<1>1. /\ Len(vs) \in Nat \ {0} /\ DOMAIN vs = 1 .. Len(vs) /\ DOMAIN ws = DOMAIN vs
      /\ \A i \in DOMAIN vs : VmGood(vs[i])
  BY VmsAre, SeqDomain
<1>2. ws # <<>> /\ ~ws[1].left
  BY <1>1 DEF VmsGood
<1>3. \A i \in DOMAIN ws : VmGood(ws[i])
  BY <1>1
<1>4. ASSUME NEW i \in 1 .. (Len(ws) - 1)
      PROVE  ParentGood(ws[i], ws[i + 1])
  <2>1. i \in DOMAIN vs /\ i + 1 \in DOMAIN vs /\ ParentGood(vs[i], vs[i + 1])
    BY <1>1 DEF VmsGood
  <2>2. ws[i + 1].left = vs[i + 1].left
    BY <2>1
  <2>3. CASE i # a
    BY <2>1, <2>2, <2>3 DEF ParentGood
  <2>4. CASE i = a
    <3>1. ws[i] = v /\ ws[i + 1].left /\ v.frames # <<>> /\ ~v.left
      BY <1>1, <2>1, <2>2, <2>4 DEF ParentGood
    <3> QED
      BY <3>1 DEF ParentGood
  <2> QED
    BY <2>3, <2>4
<1>5. ASSUME NEW h \in DOMAIN ws, NEW i \in DOMAIN ws, h < i
      PROVE  Inside(ws[h], ws[i])
  <2>1. h \in DOMAIN vs /\ i \in DOMAIN vs /\ Inside(vs[h], vs[i])
    BY <1>1, <1>5 DEF VmsGood
  <2>2. Bodies(ws[h].frames) \subseteq Bodies(vs[h].frames)
    <3>1. CASE h = a
      <4>1. a < Len(vs)
        BY <1>1, <1>5, <2>1, <3>1
      <4> QED
        BY <3>1, <4>1
    <3>2. CASE h # a
      BY <2>1, <3>2
    <3> QED
      BY <3>1, <3>2
  <2>3. Based(vs[i].frames, ws[i].frames)
    BY <2>1 DEF Based
  <2> QED
    BY <2>1, <2>2, <2>3 DEF Inside, Based
<1> QED
  BY <1>2, <1>3, <1>4, <1>5 DEF VmsGood

LEMMA FrontVms ==
  ASSUME NEW vs, VmsGood(vs), Len(vs) > 1
  PROVE  /\ VmsGood(Front(vs)) /\ Len(Front(vs)) = Len(vs) - 1
         /\ \A i \in 1 .. (Len(vs) - 1) : Front(vs)[i] = vs[i]
<1> DEFINE ws == Front(vs)
<1>1. vs \in Seq(VmRecord) /\ vs # <<>>
  BY DEF VmsGood
<1>2. /\ ws \in Seq(VmRecord) /\ Len(ws) = Len(vs) - 1
      /\ \A i \in 1 .. (Len(vs) - 1) : ws[i] = vs[i]
      /\ Len(vs) \in Nat \ {0} /\ DOMAIN vs = 1 .. Len(vs)
  BY <1>1, LastIs, SeqDomain
<1> HIDE DEF ws
<1>3. DOMAIN ws = 1 .. (Len(vs) - 1) /\ ws # <<>>
  BY <1>2, SeqDomain
<1>4. \A i \in 1 .. (Len(vs) - 1) : i \in DOMAIN vs /\ ws[i] = vs[i]
  BY <1>2
<1>5. ~ws[1].left /\ \A i \in DOMAIN ws : VmGood(ws[i])
  BY <1>2, <1>3, <1>4 DEF VmsGood
<1>6. \A i \in 1 .. (Len(ws) - 1) : ParentGood(ws[i], ws[i + 1])
  <2> SUFFICES ASSUME NEW i \in 1 .. (Len(ws) - 1) PROVE ParentGood(ws[i], ws[i + 1])
    OBVIOUS
  <2>1. i \in 1 .. (Len(vs) - 1) /\ i + 1 \in 1 .. (Len(vs) - 1)
    BY <1>2
  <2> QED
    BY <1>4, <2>1 DEF VmsGood
<1>7. \A h, i \in DOMAIN ws : h < i => Inside(ws[h], ws[i])
  BY <1>3, <1>4 DEF VmsGood
<1>8. VmsGood(ws)
  BY <1>2, <1>3, <1>5, <1>6, <1>7 DEF VmsGood
<1> QED
  BY <1>2, <1>8 DEF ws

LEMMA PushVm ==
  ASSUME NEW vs, VmsGood(vs), NEW v \in VmRecord, VmGood(v), ~v.left,
         ParentGood(vs[Len(vs)], v), \A h \in DOMAIN vs : Inside(vs[h], v)
  PROVE  VmsGood(Append(vs, v))
<1> DEFINE ws == Append(vs, v)
           n == Len(vs)
<1>1. /\ n \in Nat \ {0} /\ DOMAIN vs = 1 .. n
      /\ \A i \in DOMAIN vs : VmGood(vs[i])
  BY VmsAre
<1>2. vs \in Seq(VmRecord)
  BY DEF VmsGood
<1>3. /\ ws \in Seq(VmRecord) /\ Len(ws) = n + 1 /\ ws # <<>>
      /\ \A i \in 1 .. n : ws[i] = vs[i]
      /\ ws[n + 1] = v
  BY <1>2, AppendIs
<1>4. DOMAIN ws = 1 .. (n + 1)
  BY <1>3, SeqDomain
<1>5. /\ \A i \in 1 .. (n - 1) : ParentGood(vs[i], vs[i + 1])
      /\ \A h, i \in DOMAIN vs : h < i => Inside(vs[h], vs[i])
      /\ ~vs[1].left
  BY DEF VmsGood
<1>6. ParentGood(vs[n], v)
  OBVIOUS
<1> HIDE DEF ws, n
<1>7. \A i \in DOMAIN ws : VmGood(ws[i])
  BY <1>1, <1>3, <1>4
<1>8. ASSUME NEW i \in 1 .. n
      PROVE  ParentGood(ws[i], ws[i + 1])
  <2>1. CASE i = n
    BY <1>1, <1>3, <1>6, <2>1
  <2>2. CASE i # n
    <3>1. i \in 1 .. (n - 1) /\ i + 1 \in 1 .. n
      BY <1>1, <2>2
    <3> QED
      BY <1>3, <1>5, <3>1
  <2> QED
    BY <2>1, <2>2
<1>9. ASSUME NEW h \in DOMAIN ws, NEW i \in DOMAIN ws, h < i
      PROVE  Inside(ws[h], ws[i])
  <2>1. h \in 1 .. n /\ ws[h] = vs[h]
    BY <1>1, <1>3, <1>4, <1>9
  <2>2. CASE i = n + 1
    BY <1>1, <1>3, <2>1, <2>2
  <2>3. CASE i # n + 1
    <3>1. i \in 1 .. n /\ ws[i] = vs[i]
      BY <1>1, <1>3, <1>4, <2>3
    <3> QED
      BY <1>1, <1>5, <1>9, <2>1, <3>1
  <2> QED
    BY <2>2, <2>3
<1>10. VmsGood(ws)
  BY <1>1, <1>3, <1>5, <1>7, <1>8, <1>9 DEF VmsGood
<1> QED
  BY <1>10 DEF ws

LEMMA ActiveIs ==
  ASSUME VmsGood(vms)
  PROVE  /\ Active \in DOMAIN vms /\ vms[Active] \in VmRecord /\ VmGood(vms[Active])
         /\ Frames \in Seq(FrameRecord) /\ FramesGood(Frames)
         /\ Active = Len(vms) \/ (Active = Len(vms) - 1 /\ Last(vms).left)
         /\ Active < Len(vms) => Active = Len(vms) - 1 /\ vms[Active + 1].left
         /\ Active < Len(vms) => Frames # <<>>
         /\ vms[Len(vms)].left <=> Active < Len(vms)
         /\ ~vms[Active].left
<1>1. /\ Len(vms) \in Nat \ {0} /\ DOMAIN vms = 1 .. Len(vms)
      /\ \A i \in DOMAIN vms : vms[i] \in VmRecord /\ VmGood(vms[i])
      /\ Last(vms) = vms[Len(vms)] /\ ~vms[1].left
  BY VmsAre DEF VmsGood
<1>2. /\ Active \in DOMAIN vms
      /\ Active = Len(vms) \/ (Active = Len(vms) - 1 /\ Last(vms).left)
      /\ vms[Len(vms)].left <=> Active < Len(vms)
  <2>1. CASE Last(vms).left
    <3>1. Active = Len(vms) - 1 /\ Len(vms) # 1
      BY <1>1, <2>1 DEF Active
    <3> QED
      BY <1>1, <2>1, <3>1
  <2>2. CASE ~Last(vms).left
    <3>1. Active = Len(vms) /\ ~vms[Len(vms)].left
      BY <1>1, <2>2 DEF Active
    <3> QED
      BY <1>1, <3>1
  <2> QED
    BY <2>1, <2>2
<1>3. Active < Len(vms) => Active = Len(vms) - 1 /\ vms[Active + 1].left
  BY <1>1, <1>2
<1>4. Frames \in Seq(FrameRecord) /\ FramesGood(Frames)
  BY <1>1, <1>2 DEF Frames, VmRecord, VmGood
<1>5. Active < Len(vms) => Frames # <<>> /\ ~vms[Active].left
  <2>1. Active < Len(vms) => ParentGood(vms[Active], vms[Active + 1])
    BY <1>1, <1>2 DEF VmsGood
  <2> QED
    BY <2>1 DEF ParentGood, Frames
<1>6. ~vms[Active].left
  BY <1>1, <1>2, <1>5
<1> QED
  BY <1>1, <1>2, <1>3, <1>4, <1>5, <1>6
-----------------------------------------------------------------------------
(* Steps *)

LEMMA SameProgram ==
  ASSUME program' = program
  PROVE  /\ (VmsGood(vms))' <=> VmsGood(vms')
         /\ Reasons' = Reasons /\ Exceptions' = Exceptions
<1>1. Depth' = Depth /\ Levels' = Levels /\ \A l : Kind(l)' = Kind(l)
  BY DEF Depth, Levels, Kind, At
<1>2. Exceptions' = Exceptions
  BY <1>1 DEF Exceptions
<1>3. Reasons' = Reasons
  BY <1>2 DEF Reasons
<1>4. Catches(Levels)' = Catches(Levels)
  BY <1>1 DEF Catches
<1>5. FrameRecord' = FrameRecord
  BY <1>1, <1>2, <1>3, <1>4 DEF FrameRecord
<1>6. VmRecord' = VmRecord
  BY <1>3, <1>5 DEF VmRecord
<1>7. \A f : FrameGood(f)' <=> FrameGood(f)
  BY <1>1, <1>2 DEF FrameGood
<1>8. \A fs : FramesGood(fs)' <=> FramesGood(fs)
  BY <1>7 DEF FramesGood
<1>9. \A v : VmGood(v)' <=> VmGood(v)
  BY <1>8 DEF VmGood
<1>10. /\ \A v, w : ParentGood(v, w)' <=> ParentGood(v, w)
       /\ \A v, w : Inside(v, w)' <=> Inside(v, w)
  BY <1>1 DEF ParentGood, Inside
<1>11. (VmsGood(vms))' <=> VmsGood(vms')
  BY <1>6, <1>9, <1>10, Zenon DEF VmsGood
<1> QED
  BY <1>2, <1>3, <1>11

\* What may become of the VM in control.
Follows(v) ==
  /\ v \in VmRecord /\ VmGood(v) /\ ~v.left
  /\ Based(Frames, v.frames)
  /\ v.frames = <<>> => v.way = Normally
  /\ Active < Len(vms) => v.frames # <<>> /\ Bodies(v.frames) \subseteq Bodies(Frames)

LEMMA SetVmPlaces ==
  ASSUME VmsGood(vms), NEW v, Follows(v), SetVm(v)
  PROVE  /\ VmsGood(vms') /\ Len(vms') = Len(vms)
         /\ vms'[Active] = v
         /\ \A i \in DOMAIN vms : i # Active => vms'[i] = vms[i]
<1>1. /\ Active \in DOMAIN vms /\ DOMAIN vms = 1 .. Len(vms) /\ Len(vms) \in Nat
      /\ vms \in Seq(VmRecord)
  BY ActiveIs, VmsAre DEF VmsGood
<1>2. vms' = [vms EXCEPT ![Active] = v]
  BY DEF SetVm
<1>3. v \in VmRecord /\ vms \in [1 .. Len(vms) -> VmRecord]
  BY <1>1, SeqDomain, LenProperties DEF Follows
<1>4. vms' \in [1 .. Len(vms) -> VmRecord]
  BY <1>1, <1>2, <1>3
<1>5. vms' \in Seq(VmRecord) /\ Len(vms') = Len(vms)
  BY <1>1, <1>4, LenProperties
<1>6. /\ vms'[Active] = v
      /\ \A i \in DOMAIN vms : i # Active => vms'[i] = vms[i]
  BY <1>1, <1>2
<1>7. v.left = vms[Active].left
  BY ActiveIs DEF Follows, VmRecord
<1>8. VmsGood(vms')
  <2>1. Based(vms[Active].frames, v.frames) /\ VmGood(v)
    BY DEF Follows, Frames
  <2>2. Active < Len(vms) =>
          /\ Active = Len(vms) - 1 /\ vms[Active + 1].left /\ v.frames # <<>>
          /\ Bodies(v.frames) \subseteq Bodies(vms[Active].frames)
    BY ActiveIs DEF Follows, Frames
  <2> QED
    BY <1>1, <1>3, <1>5, <1>6, <1>7, <2>1, <2>2, VmPlaced
<1> QED
  BY <1>5, <1>6, <1>8

LEMMA SetVmKeeps ==
  ASSUME Inv, NEW v, Follows(v), SetVm(v), task # "done", task' = "running",
         program' = program, suppressed' \in Seq(Exceptions \X Exceptions),
         outcome' = outcome
  PROVE  Inv'
<1>1. /\ VmsGood(vms') /\ Len(vms') = Len(vms)
      /\ vms'[Active] = v
      /\ \A i \in DOMAIN vms : i # Active => vms'[i] = vms[i]
  BY SetVmPlaces DEF Inv
<1>2. VmsGood(vms)'
  BY <1>1, SameProgram
<1>3. DOMAIN vms' = DOMAIN vms
  BY <1>1, VmsAre DEF Inv
<1>4. \A i \in DOMAIN vms' : vms'[i].frames = <<>> => vms'[i].way = Normally
  BY <1>1, <1>3 DEF Follows, Inv, TaskGood
<1>5. TaskGood'
  <2>1. Normally' = Normally
    BY DEF Normally
  <2> QED
    BY <1>4, <2>1 DEF TaskGood
<1>6. (suppressed \in Seq(Exceptions \X Exceptions))' /\ (outcome \in Reasons)'
  BY SameProgram DEF Inv
<1>7. (program \in Programs)'
  BY DEF Inv
<1> QED
  BY <1>2, <1>5, <1>6, <1>7 DEF Inv
-----------------------------------------------------------------------------
(* What steps make of the frames of the VM in control *)

FramesFollow(gs) ==
  /\ gs \in Seq(FrameRecord) /\ FramesGood(gs)
  /\ Based(Frames, gs)
  /\ Active < Len(vms) => gs # <<>> /\ Bodies(gs) \subseteq Bodies(Frames)

LEMMA TopIs ==
  ASSUME VmsGood(vms), Frames # <<>>
  PROVE  /\ Top \in FrameRecord /\ FrameGood(Top) /\ Top = Frames[Len(Frames)]
         /\ Len(Frames) \in Nat \ {0} /\ DOMAIN Frames = 1 .. Len(Frames)
         /\ Frames \in Seq(FrameRecord) /\ FramesGood(Frames)
<1>1. Frames \in Seq(FrameRecord) /\ FramesGood(Frames)
  BY ActiveIs
<1>2. /\ Len(Frames) \in Nat \ {0} /\ Top = Frames[Len(Frames)] /\ Top \in FrameRecord
      /\ DOMAIN Frames = 1 .. Len(Frames)
  BY <1>1, LastIs, SeqDomain DEF Top
<1> QED
  BY <1>1, <1>2 DEF FramesGood

LEMMA ExecutesIs ==
  ASSUME Inv, Executes \/ task = "parked"
  PROVE  /\ task # "done" /\ Frames # <<>> /\ vms[Active].way = Normally
         /\ ~vms[Active].escaped /\ ~vms[Active].left /\ Active = Len(vms)
<1>1. CASE Executes
  <2>1. Frames # <<>> /\ vms[Active].way = Normally /\ Active = Len(vms) /\ task # "done"
    BY <1>1 DEF Executes, Active
  <2> QED
    BY <2>1, ActiveIs DEF Inv, VmGood
<1>2. CASE task = "parked"
  <2>1. Len(vms) = 1 /\ vms[1].frames # <<>> /\ vms[1].way = Normally
    BY <1>2 DEF Inv, TaskGood
  <2>2. Active = 1
    BY <2>1, ActiveIs, VmsAre DEF Inv
  <2> QED
    BY <1>2, <2>1, <2>2, ActiveIs DEF Inv, VmGood, Frames
<1> QED
  BY <1>1, <1>2

LEMMA UnwindsIs ==
  ASSUME Inv, Unwinds
  PROVE  /\ task = "running" /\ Frames # <<>> /\ Going \in Reasons
         /\ Going.how \in {"raise", "throw"} /\ Going # Normally
         /\ ~vms[Active].escaped /\ ~vms[Active].left
<1>1. /\ Going \in Reasons /\ Going.how \in {"raise", "throw"} /\ ~vms[Active].escaped
      /\ ~vms[Active].left /\ Active \in DOMAIN vms
  BY ActiveIs DEF Inv, Unwinds, Going, VmRecord
<1>2. Going # Normally
  BY <1>1, ReasonsAre
<1>3. task \in {"running", "parked", "done"} /\ Len(vms) \in Nat \ {0}
      /\ DOMAIN vms = 1 .. Len(vms)
  BY VmsAre DEF Inv, TaskGood
<1>4. task = "running"
  <2> SUFFICES ASSUME task \in {"parked", "done"} PROVE FALSE
    BY <1>3
  <2>1. Active = 1
    BY <1>1, <1>3 DEF Inv, TaskGood
  <2> QED
    BY <1>1, <1>2, <2>1 DEF Inv, TaskGood, Going
<1>5. Frames # <<>>
  BY <1>1, <1>2, <1>4 DEF Inv, TaskGood, Going, Frames
<1> QED
  BY <1>1, <1>2, <1>4, <1>5

LEMMA StaysFollow ==
  ASSUME VmsGood(vms), Frames # <<>>
  PROVE  FramesFollow(Frames)
BY ActiveIs DEF FramesFollow, Based

\* The last frame goes on in another place.
LEMMA ReplacedFollow ==
  ASSUME VmsGood(vms), Frames # <<>>, NEW f \in FrameRecord, FrameGood(f),
         f.code = Top.code, f.of = Top.of, f.scope = Top.scope
  PROVE  /\ FramesFollow(Replaced(f)) /\ Replaced(f) # <<>> /\ Last(Replaced(f)) = f
         /\ Scopes(Replaced(f)) = Scopes(Frames)
<1> DEFINE n == Len(Frames)
           gs == Replaced(f)
<1>1. /\ Frames \in Seq(FrameRecord) /\ FramesGood(Frames) /\ n \in Nat \ {0}
      /\ Top = Frames[n] /\ Top = Last(Frames) /\ DOMAIN Frames = 1 .. n
  BY TopIs DEF Top
<1>2. gs \in Seq(FrameRecord) /\ FramesGood(gs)
  BY <1>1, ReplaceFrames DEF Replaced
<1>3. /\ Len(gs) = n /\ gs # <<>>
      /\ \A i \in 1 .. (n - 1) : gs[i] = Frames[i]
      /\ gs[n] = f /\ Last(gs) = f
  <2>1. Frames \in Seq(FrameRecord) /\ Frames # <<>> /\ f \in FrameRecord
    BY <1>1
  <2>2. Replaced(f) = Append(Front(Frames), f)
    BY DEF Replaced
  <2> QED
    BY <2>1, <2>2, ReplacedIs
<1> HIDE DEF gs, n
<1>4. \A j \in 1 .. Len(gs) : /\ gs[j].code = Frames[j].code /\ gs[j].of = Frames[j].of
                              /\ gs[j].scope = Frames[j].scope
  <2> SUFFICES ASSUME NEW j \in 1 .. n
               PROVE  /\ gs[j].code = Frames[j].code /\ gs[j].of = Frames[j].of
                      /\ gs[j].scope = Frames[j].scope
    BY <1>3
  <2>1. j \in 1 .. (n - 1) \/ j = n
    BY <1>1
  <2> QED
    BY <1>1, <1>3, <2>1
<1>5. Len(gs) <= Len(Frames)
  BY <1>1, <1>3 DEF n
<1>6. /\ Based(Frames, gs) /\ Bodies(gs) \subseteq Bodies(Frames)
      /\ Scopes(gs) = {Frames[j].scope : j \in 1 .. Len(gs)} \ {0}
  BY <1>1, <1>2, <1>4, <1>5, SameFrames
<1>7. Scopes(Frames) = {Frames[j].scope : j \in 1 .. n} \ {0}
  BY <1>1 DEF Scopes, Range
<1> QED
  BY <1>2, <1>3, <1>6, <1>7 DEF FramesFollow, gs

LEMMA GotoFollows ==
  ASSUME VmsGood(vms), Frames # <<>>, NEW step \in {"down", "after", "ensure", "return"},
         NEW level \in 1 .. (Depth + 1),
         IF Top.code = "body" THEN Top.of < level /\ (step = "down" \/ level <= Depth)
         ELSE level = Top.of
  PROVE  /\ FramesFollow(Replaced(Goto(Top, step, level)))
         /\ Replaced(Goto(Top, step, level)) # <<>>
         /\ Last(Replaced(Goto(Top, step, level))) = Goto(Top, step, level)
         /\ Scopes(Replaced(Goto(Top, step, level))) = Scopes(Frames)
<1> DEFINE f == Goto(Top, step, level)
<1>1. Top \in FrameRecord /\ FrameGood(Top)
  BY TopIs
<1>2. /\ f \in FrameRecord /\ f.code = Top.code /\ f.of = Top.of /\ f.scope = Top.scope
      /\ f.step = step /\ f.level = level /\ f.exception = Top.exception
      /\ f.pending = Top.pending
  BY <1>1 DEF Goto, FrameRecord
<1>3. FrameGood(f)
  BY <1>1, <1>2 DEF FrameGood
<1> HIDE DEF f
<1> QED
  BY <1>2, <1>3, ReplacedFollow DEF f

\* A clause is pushed on the frame that has left its construct.
LEMMA ClauseFollows ==
  ASSUME VmsGood(vms), NEW gs, FramesFollow(gs), gs # <<>>, Scopes(gs) = Scopes(Frames),
         NEW f \in FrameRecord, FrameGood(f), f.code # "body", Carries(Last(gs), f)
  PROVE  /\ FramesFollow(Append(gs, f)) /\ Append(gs, f) # <<>>
         /\ Scopes(Append(gs, f)) = Scopes(Frames)
<1> DEFINE hs == Append(gs, f)
           n == Len(gs)
<1>1. hs \in Seq(FrameRecord) /\ FramesGood(hs)
  BY PushFrames DEF FramesFollow
<1>2. /\ n \in Nat /\ Len(hs) = n + 1 /\ hs # <<>>
      /\ \A i \in 1 .. n : hs[i] = gs[i]
      /\ hs[n + 1] = f
  BY AppendIs DEF FramesFollow
<1>3. DOMAIN gs = 1 .. n /\ n # 0
  BY SeqDomain DEF FramesFollow
<1> HIDE DEF hs, n
<1>4. DOMAIN hs = 1 .. (n + 1)
  BY <1>1, <1>2, SeqDomain
<1>5. Based(Frames, hs)
  <2>1. hs[1] = gs[1]
    BY <1>2, <1>3
  <2> QED
    BY <2>1 DEF FramesFollow, Based
<1>6. Bodies(hs) \subseteq Bodies(gs)
  <2> SUFFICES ASSUME NEW j \in DOMAIN hs, hs[j].code = "body"
               PROVE  hs[j].of \in Bodies(gs)
    BY DEF Bodies
  <2>1. j \in 1 .. n
    BY <1>2, <1>4
  <2> QED
    BY <1>2, <1>3, <2>1 DEF Bodies
<1>7. Scopes(hs) = Scopes(gs)
  <2>1. f.scope = 0
    BY DEF FrameGood
  <2>2. Scopes(hs) = {hs[j].scope : j \in 1 .. (n + 1)} \ {0}
    BY <1>4 DEF Scopes, Range
  <2>3. Scopes(gs) = {gs[j].scope : j \in 1 .. n} \ {0}
    BY <1>3 DEF Scopes, Range
  <2>4. \A j \in 1 .. (n + 1) : j \in 1 .. n \/ j = n + 1
    BY <1>2
  <2> QED
    BY <1>2, <2>1, <2>2, <2>3, <2>4
<1>8. FramesFollow(hs)
  BY <1>1, <1>2, <1>5, <1>6 DEF FramesFollow
<1> QED
  BY <1>2, <1>7, <1>8 DEF hs

\* The scope of the last frame is that of no other.
LEMMA LastScope ==
  ASSUME NEW fs \in Seq(FrameRecord), FramesGood(fs), fs # <<>>
  PROVE  /\ {fs[j].scope : j \in 1 .. (Len(fs) - 1)} \ {0} = Scopes(fs) \ {Last(fs).scope}
         /\ Last(fs).scope # 0 =>
              /\ \A j \in 1 .. (Len(fs) - 1) : fs[j].scope < Last(fs).scope
              /\ Last(fs).scope \in Scopes(fs)
<1> DEFINE n == Len(fs)
           s == Last(fs).scope
<1>1. /\ n \in Nat \ {0} /\ Last(fs) = fs[n] /\ DOMAIN fs = 1 .. n
      /\ \A j \in 1 .. n : fs[j] \in FrameRecord /\ FrameGood(fs[j])
  BY LastIs, SeqDomain DEF FramesGood
<1> HIDE DEF n
<1>2. ASSUME s # 0, NEW j \in 1 .. (n - 1)
      PROVE  fs[j].scope < s
  <2>1. s = fs[n].of /\ fs[n].code = "body" /\ s \in 0 .. Depth
    <3>1. fs[n] \in FrameRecord /\ FrameGood(fs[n]) /\ fs[n].scope # 0 /\ s = fs[n].scope
      BY <1>1, <1>2
    <3> HIDE DEF s
    <3>2. fs[n].code = "body" /\ fs[n].scope = fs[n].of
      BY <3>1 DEF FrameGood
    <3>3. fs[n].of \in 0 .. Depth
      BY <3>1 DEF FrameRecord
    <3> QED
      BY <3>1, <3>2, <3>3
  <2>2. fs[j].code = "body" /\ fs[j].of < fs[n].of /\ j \in 1 .. n
    <3>1. j \in 1 .. n /\ n \in 1 .. n /\ j < n
      BY <1>1
    <3>2. \A i, k \in DOMAIN fs :
            i < k /\ fs[k].code = "body" => fs[i].code = "body" /\ fs[i].of < fs[k].of
      BY DEF FramesGood
    <3> HIDE DEF s
    <3> QED
      BY <1>1, <2>1, <3>1, <3>2
  <2>3. fs[j].scope = 0 \/ fs[j].scope = fs[j].of
    BY <1>1, <2>2 DEF FrameGood
  <2>4. fs[j].of \in Nat
    BY <1>1, <2>2 DEF FrameRecord
  <2>5. s \in Nat
    BY <2>1
  <2> QED
    BY <1>2, <2>1, <2>2, <2>3, <2>4, <2>5
<1>3. Scopes(fs) = {fs[j].scope : j \in 1 .. n} \ {0}
  BY <1>1 DEF Scopes, Range
<1>4. \A j \in 1 .. n : j \in 1 .. (n - 1) \/ j = n
  BY <1>1
<1>5. s # 0 => s \in Scopes(fs)
  BY <1>1, <1>3
<1>6. \A j \in 1 .. (n - 1) : fs[j].scope # s \/ s = 0
  <2>1. \A j \in 1 .. (n - 1) : fs[j].scope \in Int
    BY <1>1 DEF FrameRecord
  <2>2. s \in Int
    BY <1>1 DEF FrameRecord
  <2> QED
    BY <1>2, <2>1, <2>2
<1>7. {fs[j].scope : j \in 1 .. (n - 1)} \ {0} = Scopes(fs) \ {s}
  <2> HIDE DEF s
  <2>1. ASSUME NEW x \in {fs[j].scope : j \in 1 .. (n - 1)} \ {0}
        PROVE  x \in Scopes(fs) \ {s}
    BY <1>1, <1>3, <1>6
  <2>2. ASSUME NEW x \in Scopes(fs) \ {s}
        PROVE  x \in {fs[j].scope : j \in 1 .. (n - 1)} \ {0}
    BY <1>1, <1>3, <1>4 DEF s
  <2> QED
    BY <2>1, <2>2
<1> QED
  BY <1>2, <1>5, <1>7 DEF n

\* The last frame is popped.
LEMMA BelowFollows ==
  ASSUME VmsGood(vms), Frames # <<>>, Active < Len(vms) => Len(Frames) > 1
  PROVE  /\ FramesFollow(Below(Frames)) /\ Len(Below(Frames)) = Len(Frames) - 1
         /\ Scopes(Below(Frames)) = Scopes(Frames) \ {Top.scope}
<1> DEFINE n == Len(Frames)
           gs == Below(Frames)
<1>1. /\ Frames \in Seq(FrameRecord) /\ FramesGood(Frames) /\ n \in Nat \ {0}
      /\ Top = Last(Frames) /\ DOMAIN Frames = 1 .. n
  BY TopIs DEF Top
<1>2. /\ gs \in Seq(FrameRecord) /\ FramesGood(gs) /\ Len(gs) = n - 1
      /\ \A j \in 1 .. (n - 1) : \E lost : gs[j] = [Frames[j] EXCEPT !.lost = lost]
  BY <1>1, BelowFrames
<1> HIDE DEF gs, n
<1>3. \A j \in 1 .. Len(gs) : /\ gs[j].code = Frames[j].code /\ gs[j].of = Frames[j].of
                              /\ gs[j].scope = Frames[j].scope
  <2> SUFFICES ASSUME NEW j \in 1 .. (n - 1)
               PROVE  /\ gs[j].code = Frames[j].code /\ gs[j].of = Frames[j].of
                      /\ gs[j].scope = Frames[j].scope
    BY <1>2
  <2>1. Frames[j] \in FrameRecord
    BY <1>1, SeqDomain
  <2> QED
    BY <1>2, <2>1 DEF FrameRecord
<1>4. Len(gs) <= Len(Frames)
  BY <1>1, <1>2 DEF n
<1>5. /\ Based(Frames, gs) /\ Bodies(gs) \subseteq Bodies(Frames)
      /\ Scopes(gs) = {Frames[j].scope : j \in 1 .. (n - 1)} \ {0}
  <2>1. /\ Based(Frames, gs) /\ Bodies(gs) \subseteq Bodies(Frames)
        /\ Scopes(gs) = {Frames[j].scope : j \in 1 .. Len(gs)} \ {0}
    BY <1>1, <1>2, <1>3, <1>4, SameFrames
  <2> QED
    BY <1>2, <2>1
<1>6. Scopes(gs) = Scopes(Frames) \ {Top.scope}
  BY <1>1, <1>5, LastScope DEF n
<1>7. Active < Len(vms) => gs # <<>>
  BY <1>1, <1>2, SeqDomain DEF n
<1> QED
  BY <1>2, <1>5, <1>6, <1>7 DEF FramesFollow, gs, n

LEMMA BodyIs ==
  ASSUME program \in Programs, NEW of \in 0 .. Depth
  PROVE  /\ Body(of) \in FrameRecord /\ FrameGood(Body(of))
         /\ Body(of).code = "body" /\ Body(of).of = of /\ Body(of).scope = 0
<1>1. Depth \in Nat
  BY ProgramFacts
<1>2. /\ Body(of).code = "body" /\ Body(of).of = of /\ Body(of).scope = 0
      /\ Body(of).step = "down" /\ Body(of).level = of + 1 /\ Body(of).pending = Normally
  BY DEF Body, Frame
<1>3. Body(of) \in FrameRecord
  BY <1>1, ReasonsAre DEF FrameRecord, Body, Frame, Codes
<1>4. FrameGood(Body(of))
  BY <1>1, <1>2, ReasonsAre DEF FrameGood
<1> QED
  BY <1>2, <1>3, <1>4

\* A body is pushed on the frame that calls it.
LEMMA CallFollows ==
  ASSUME VmsGood(vms), Frames # <<>>, Active = Len(vms), Top.code = "body",
         Top.step = "down", NEW f \in FrameRecord, FrameGood(f), f.code = "body",
         f.of = Top.level
  PROVE  /\ FramesFollow(Append(Frames, f)) /\ Append(Frames, f) # <<>>
         /\ Scopes(Append(Frames, f)) = Scopes(Frames) \cup ({f.scope} \ {0})
<1> DEFINE n == Len(Frames)
           gs == Append(Frames, f)
<1>1. /\ Frames \in Seq(FrameRecord) /\ FramesGood(Frames) /\ n \in Nat \ {0}
      /\ Top = Last(Frames) /\ DOMAIN Frames = 1 .. n
  BY TopIs DEF Top
<1>2. gs \in Seq(FrameRecord) /\ FramesGood(gs)
  <2>1. Carries(Last(Frames), f)
    BY <1>1 DEF Carries
  <2> QED
    BY <1>1, <2>1, PushFrames
<1>3. /\ Len(gs) = n + 1 /\ gs # <<>>
      /\ \A i \in 1 .. n : gs[i] = Frames[i]
      /\ gs[n + 1] = f
  BY <1>1, AppendIs
<1> HIDE DEF gs, n
<1>4. DOMAIN gs = 1 .. (n + 1) /\ Len(vms) \in Nat
  BY <1>2, <1>3, SeqDomain, VmsAre
<1>5. Based(Frames, gs)
  BY <1>1, <1>3 DEF Based
<1>6. Scopes(gs) = Scopes(Frames) \cup ({f.scope} \ {0})
  <2>1. Scopes(gs) = {gs[j].scope : j \in 1 .. (n + 1)} \ {0}
    BY <1>4 DEF Scopes, Range
  <2>2. Scopes(Frames) = {Frames[j].scope : j \in 1 .. n} \ {0}
    BY <1>1 DEF Scopes, Range
  <2>3. \A j \in 1 .. (n + 1) : j \in 1 .. n \/ j = n + 1
    BY <1>1
  <2>4. \A j \in 1 .. n : j \in 1 .. (n + 1)
    BY <1>1
  <2>5. n + 1 \in 1 .. (n + 1)
    BY <1>1
  <2> QED
    BY <1>3, <2>1, <2>2, <2>3, <2>4, <2>5
<1> QED
  BY <1>2, <1>3, <1>4, <1>5, <1>6 DEF FramesFollow, gs
-----------------------------------------------------------------------------
(* Steps of the VM in control *)

ScopesStay(gs) == Scopes(gs) = Scopes(Frames) /\ context' = context

ScopesPop(gs) ==
  /\ Frames # <<>> /\ Scopes(gs) = Scopes(Frames) \ {Top.scope}
  /\ context' = Popped(context, Top.scope)

\* What most steps do.
Moves ==
  /\ task # "done" /\ task' = "running"
  /\ program' = program /\ outcome' = outcome
  /\ suppressed' \in Seq(Exceptions \X Exceptions)
  /\ \E v : Follows(v) /\ SetVm(v) /\ (ScopesStay(v.frames) \/ ScopesPop(v.frames))

\* The part of a step that is not about a VM.
Around ==
  /\ task' = "running" /\ program' = program /\ outcome' = outcome
  /\ suppressed' \in Seq(Exceptions \X Exceptions)

LEMMA VmFollows ==
  ASSUME Inv, NEW gs, FramesFollow(gs), NEW way \in Reasons, NEW e \in BOOLEAN,
         gs = <<>> => way = Normally, e => way # Normally,
         NEW v \in VmRecord, v.frames = gs, v.way = way, v.escaped = e, ~v.left
  PROVE  Follows(v)
BY DEF Follows, FramesFollow, VmGood

LEMMA FramesMove ==
  ASSUME Inv, NEW gs, FramesFollow(gs), gs = <<>> => vms[Active].way = Normally
  PROVE  /\ Follows([vms[Active] EXCEPT !.frames = gs])
         /\ [vms[Active] EXCEPT !.frames = gs].frames = gs
<1> DEFINE v == [vms[Active] EXCEPT !.frames = gs]
<1>1. /\ vms[Active] \in VmRecord /\ VmGood(vms[Active]) /\ ~vms[Active].left
      /\ gs \in Seq(FrameRecord)
  BY ActiveIs DEF Inv, FramesFollow
<1>2. /\ v \in VmRecord /\ v.frames = gs /\ v.way = vms[Active].way
      /\ v.escaped = vms[Active].escaped /\ ~v.left
  BY <1>1 DEF VmRecord
<1>3. vms[Active].way \in Reasons /\ vms[Active].escaped \in BOOLEAN
      /\ (vms[Active].escaped => vms[Active].way # Normally)
  BY <1>1 DEF VmRecord, VmGood
<1> HIDE DEF v
<1>4. Follows(v)
  BY <1>2, <1>3, VmFollows
<1> QED
  BY <1>2, <1>4 DEF v

LEMMA WayMoves ==
  ASSUME Inv, Frames # <<>>, NEW way \in Reasons, ~vms[Active].escaped
  PROVE  /\ Follows([vms[Active] EXCEPT !.way = way])
         /\ [vms[Active] EXCEPT !.way = way].frames = Frames
<1> DEFINE v == [vms[Active] EXCEPT !.way = way]
<1>1. /\ vms[Active] \in VmRecord /\ ~vms[Active].left
  BY ActiveIs DEF Inv
<1>2. /\ v \in VmRecord /\ v.frames = Frames /\ v.way = way
      /\ v.escaped = FALSE /\ ~v.left
  BY <1>1 DEF VmRecord, Frames
<1>3. FramesFollow(Frames)
  BY StaysFollow DEF Inv
<1> HIDE DEF v
<1>4. Follows(v)
  BY <1>2, <1>3, VmFollows
<1> QED
  BY <1>2, <1>4 DEF v

LEMMA MoveToMoves ==
  ASSUME Inv, Executes \/ task = "parked", Around, UNCHANGED context,
         NEW step \in {"down", "after", "ensure", "return"},
         NEW level \in 1 .. (Depth + 1),
         IF Top.code = "body" THEN Top.of < level /\ (step = "down" \/ level <= Depth)
         ELSE level = Top.of,
         MoveTo(step, level)
  PROVE  Moves
<1> DEFINE gs == Replaced(Goto(Top, step, level))
<1>1. Frames # <<>> /\ task # "done" /\ VmsGood(vms)
  BY ExecutesIs DEF Inv
<1>2. FramesFollow(gs) /\ gs # <<>> /\ Scopes(gs) = Scopes(Frames)
  BY <1>1, GotoFollows
<1>3. SetVm([vms[Active] EXCEPT !.frames = gs])
  BY DEF MoveTo, SetFrames
<1> HIDE DEF gs
<1>4. /\ Follows([vms[Active] EXCEPT !.frames = gs])
      /\ [vms[Active] EXCEPT !.frames = gs].frames = gs
  BY <1>2, FramesMove
<1> QED
  BY <1>1, <1>2, <1>3, <1>4 DEF Moves, Around, ScopesStay

LEMMA FinishReturnMoves ==
  ASSUME Inv, Executes \/ task = "parked", Around, FinishReturn
  PROVE  Moves
<1> DEFINE rest == Below(Frames)
           f == Resumed(Last(rest), Top)
           gs == IF rest = <<>> THEN rest ELSE Append(Front(rest), f)
           v == [vms[Active] EXCEPT !.way = Top.pending, !.frames = gs]
           n == Len(Frames)
<1>1. /\ Frames # <<>> /\ task # "done" /\ Active = Len(vms) /\ ~vms[Active].escaped
      /\ VmsGood(vms)
  BY ExecutesIs DEF Inv
<1>2. /\ FramesFollow(rest) /\ Len(rest) = n - 1
      /\ Scopes(rest) = Scopes(Frames) \ {Top.scope}
      /\ Len(vms) \in Nat
  BY <1>1, BelowFollows, VmsAre
<1>3. /\ Top \in FrameRecord /\ FrameGood(Top) /\ Top = Frames[n]
      /\ n \in Nat \ {0} /\ DOMAIN Frames = 1 .. n
      /\ Frames \in Seq(FrameRecord) /\ FramesGood(Frames)
  BY <1>1, TopIs
<1>4. /\ vms[Active] \in VmRecord /\ ~vms[Active].left /\ Top.pending \in Reasons
  BY <1>1, <1>3, ActiveIs DEF FrameRecord
<1>5. /\ FramesFollow(gs) /\ Scopes(gs) = Scopes(Frames) \ {Top.scope}
      /\ gs = <<>> => rest = <<>>
  <2>1. CASE rest = <<>>
    BY <1>2, <2>1
  <2>2. CASE rest # <<>>
    <3> DEFINE g == Last(rest)
               m == n - 1
    <3>1. /\ rest \in Seq(FrameRecord) /\ FramesGood(rest) /\ m \in 1 .. n /\ m \in Nat
          /\ g = rest[m] /\ g \in FrameRecord /\ m + 1 = n /\ m \in 1 .. (n - 1)
          /\ m \in DOMAIN rest
      <4>1. rest \in Seq(FrameRecord) /\ FramesGood(rest)
        BY <1>2 DEF FramesFollow
      <4>2. Len(rest) \in Nat \ {0} /\ g = rest[Len(rest)] /\ g \in FrameRecord
            /\ DOMAIN rest = 1 .. Len(rest)
        BY <4>1, <2>2, LastIs, SeqDomain
      <4> QED
        BY <1>2, <1>3, <4>1, <4>2
    <3>2. FrameGood(g)
      BY <3>1 DEF FramesGood
    <3>3. PICK lost : g = [Frames[m] EXCEPT !.lost = lost]
      <4>1. \A j \in 1 .. (n - 1) : \E lost : rest[j] = [Frames[j] EXCEPT !.lost = lost]
        BY <1>1, <1>3, BelowFrames
      <4> HIDE DEF g, m, rest, n
      <4> QED
        BY <3>1, <4>1
    <3>4. Frames[m] \in FrameRecord /\ Carries(Frames[m], Top)
      BY <1>3, <3>1, SeqDomain DEF FramesGood
    <3>5. Top.code = "body" => g.code = "body" /\ g.level = Top.of /\ Top.of \in 0 .. Depth
      BY <1>3, <3>3, <3>4 DEF Carries, FrameRecord
    <3> HIDE DEF g
    <3>6. /\ f \in FrameRecord /\ FrameGood(f) /\ f.code = g.code /\ f.of = g.of
          /\ f.scope = g.scope
      <4>1. CASE Top.code # "body"
        <5>1. f = g
          BY <4>1 DEF Resumed, g
        <5> QED
          BY <3>1, <3>2, <5>1
      <4>2. CASE Top.code = "body"
        <5>1. f = Goto(g, "after", g.level)
          BY <4>2 DEF Resumed, g
        <5> HIDE DEF f
        <5>2. /\ f \in FrameRecord /\ f.code = g.code /\ f.of = g.of /\ f.scope = g.scope
              /\ f.level = g.level /\ f.pending = g.pending /\ f.exception = g.exception
          BY <3>1, <5>1 DEF Goto, FrameRecord
        <5>3. FrameGood(f)
          <6>1. g.level <= Depth
            BY <3>5, <4>2
          <6> QED
            BY <3>2, <3>5, <4>2, <5>2, <6>1 DEF FrameGood
        <5> QED
          BY <5>2, <5>3
      <4> QED
        BY <4>1, <4>2
    <3> HIDE DEF f
    <3> DEFINE hs == Append(Front(rest), f)
    <3>7. hs \in Seq(FrameRecord) /\ FramesGood(hs)
      <4>1. f.code = Last(rest).code /\ f.of = Last(rest).of
        BY <3>6 DEF g
      <4> HIDE DEF rest
      <4> QED
        BY <2>2, <3>1, <3>6, <4>1, ReplaceFrames
    <3>8. /\ Len(hs) = m /\ hs # <<>>
          /\ \A i \in 1 .. (m - 1) : hs[i] = rest[i]
          /\ hs[m] = f
      <4>1. Len(rest) = m
        BY <1>2
      <4> HIDE DEF rest, m
      <4> QED
        BY <2>2, <3>1, <3>6, <4>1, ReplacedIs
    <3>9. gs = hs
      BY <2>2
    <3> HIDE DEF hs, rest, m, gs
    <3>10. \A j \in 1 .. Len(hs) : /\ hs[j].code = rest[j].code /\ hs[j].of = rest[j].of
                                   /\ hs[j].scope = rest[j].scope
      <4> SUFFICES ASSUME NEW j \in 1 .. m
                   PROVE  /\ hs[j].code = rest[j].code /\ hs[j].of = rest[j].of
                          /\ hs[j].scope = rest[j].scope
        BY <3>8
      <4>1. j \in 1 .. (m - 1) \/ j = m
        BY <3>1
      <4> QED
        BY <3>1, <3>6, <3>8, <4>1
    <3>11. Len(rest) = m
      BY <1>2 DEF m
    <3>12. /\ Based(rest, hs) /\ Bodies(hs) \subseteq Bodies(rest)
           /\ Scopes(hs) = {rest[j].scope : j \in 1 .. m} \ {0}
      <4>1. Len(hs) <= Len(rest)
        BY <3>1, <3>8, <3>11
      <4>2. /\ Based(rest, hs) /\ Bodies(hs) \subseteq Bodies(rest)
            /\ Scopes(hs) = {rest[j].scope : j \in 1 .. Len(hs)} \ {0}
        BY <3>1, <3>7, <3>10, <4>1, SameFrames
      <4> QED
        BY <3>8, <4>2
    <3>13. Scopes(hs) = Scopes(rest)
      <4>1. DOMAIN rest = 1 .. m
        BY <3>1, <3>11, SeqDomain
      <4>2. Scopes(rest) = {rest[j].scope : j \in 1 .. m} \ {0}
        BY <4>1 DEF Scopes, Range
      <4> QED
        BY <3>12, <4>2
    <3>14. Based(Frames, hs)
      BY <1>2, <3>8, <3>12 DEF FramesFollow, Based
    <3>15. ~(Active < Len(vms))
      BY <1>1, <1>2
    <3>16. FramesFollow(hs)
      BY <3>7, <3>14, <3>15 DEF FramesFollow
    <3> QED
      BY <1>2, <3>8, <3>9, <3>13, <3>16
  <2> QED
    BY <2>1, <2>2
<1>6. gs = <<>> => Top.pending = Normally
  <2> SUFFICES ASSUME gs = <<>> PROVE Top.pending = Normally
    OBVIOUS
  <2>1. rest = <<>>
    BY <1>5
  <2>2. n = 1
    BY <1>2, <1>3, <2>1
  <2>3. Top.code = "body"
    BY <1>1, <1>3, <2>2 DEF FramesGood
  <2> QED
    BY <1>3, <1>4, <2>3, ReasonsAre DEF FrameGood
<1>7. /\ v \in VmRecord /\ v.frames = gs /\ v.way = Top.pending /\ v.escaped = FALSE
      /\ ~v.left
  <2>1. gs \in Seq(FrameRecord)
    BY <1>5 DEF FramesFollow
  <2> HIDE DEF gs
  <2> QED
    BY <1>1, <1>4, <2>1 DEF VmRecord
<1>8. SetVm(v) /\ context' = Popped(context, Top.scope)
  BY DEF FinishReturn
<1> HIDE DEF v, gs
<1>9. Follows(v)
  BY <1>4, <1>5, <1>6, <1>7, VmFollows
<1> QED
  BY <1>1, <1>5, <1>7, <1>8, <1>9 DEF Moves, Around, ScopesPop

LEMMA CompleteBodyMoves ==
  ASSUME Inv, Executes \/ task = "parked", Top.code = "body", Around, CompleteBody
  PROVE  Moves
<1>1. CASE Top.level - 1 = Top.of /\ FinishReturn
  BY <1>1, FinishReturnMoves
<1>2. CASE /\ Top.level - 1 # Top.of
           /\ MoveTo(IF Kind(Top.level - 1) \in Ensured THEN "ensure" ELSE "after",
                     Top.level - 1)
           /\ UNCHANGED context
  <2>1. Top \in FrameRecord /\ FrameGood(Top) /\ Depth \in Nat
    BY ExecutesIs, TopIs, ProgramFacts DEF Inv
  <2>2. /\ Top.of \in 0 .. Depth /\ Top.level \in 1 .. (Depth + 1) /\ Top.of < Top.level
    BY <2>1 DEF FrameRecord, FrameGood
  <2> DEFINE level == Top.level - 1
             step == IF Kind(Top.level - 1) \in Ensured THEN "ensure" ELSE "after"
  <2>3. /\ level \in 1 .. (Depth + 1) /\ Top.of < level /\ level <= Depth
        /\ step \in {"down", "after", "ensure", "return"}
    BY <1>2, <2>1, <2>2
  <2>4. MoveTo(step, level) /\ UNCHANGED context
    BY <1>2
  <2> HIDE DEF level, step
  <2> QED
    BY <2>3, <2>4, MoveToMoves
<1> QED
  BY <1>1, <1>2 DEF CompleteBody

LEMMA EnclosingIs ==
  ASSUME program \in Programs, NEW f \in FrameRecord, FrameGood(f)
  PROVE  /\ Enclosing(f) \subseteq Levels /\ Enclosing(f) \subseteq 0 .. Depth
         /\ f.code = "body" => \A l \in Enclosing(f) : f.of < l /\ l < f.level
         /\ f.code # "body" => Enclosing(f) \subseteq {f.of} /\ f.of \in Levels
         /\ f.code = "ensure" => Enclosing(f) = {}
<1>1. Depth \in Nat
  BY ProgramFacts
<1>2. f.of \in 0 .. Depth /\ f.level \in 1 .. (Depth + 1) /\ f.code \in Codes
  BY DEF FrameRecord
<1>3. CASE f.code = "body"
  BY <1>1, <1>2, <1>3 DEF Enclosing, Levels
<1>4. CASE f.code # "body"
  <2>1. f.of \in Levels
    BY <1>4 DEF FrameGood
  <2>2. Enclosing(f) \subseteq {f.of}
    BY <1>4 DEF Enclosing
  <2>3. f.code = "ensure" => Enclosing(f) = {}
    BY <1>4 DEF Enclosing
  <2> QED
    BY <1>1, <1>4, <2>1, <2>2, <2>3 DEF Levels
<1> QED
  BY <1>3, <1>4

LEMMA ReturnMoves ==
  ASSUME Inv, Executes, Around, Return
  PROVE  Moves
<1>1. CASE EnsuresOnReturn = {} /\ FinishReturn
  BY <1>1, FinishReturnMoves
<1>2. CASE /\ EnsuresOnReturn # {}
           /\ MoveTo("return", Max(EnsuresOnReturn))
           /\ UNCHANGED context
  <2>1. Top \in FrameRecord /\ FrameGood(Top) /\ Depth \in Nat /\ program \in Programs
    BY ExecutesIs, TopIs, ProgramFacts DEF Inv
  <2> DEFINE l == Max(EnsuresOnReturn)
  <2>2. l \in EnsuresOnReturn
    <3>1. EnsuresOnReturn \subseteq 0 .. Depth
      BY <2>1, EnclosingIs DEF EnsuresOnReturn
    <3> QED
      BY <1>2, <2>1, <3>1, GreatestNatural
  <2>3. l \in Enclosing(Top) /\ l \in Levels
    BY <2>1, <2>2, EnclosingIs DEF EnsuresOnReturn
  <2>4. MoveTo("return", l)
    BY <1>2
  <2> HIDE DEF l
  <2>5. l \in 1 .. (Depth + 1) /\ l <= Depth
    BY <2>1, <2>3 DEF Levels
  <2>6. IF Top.code = "body" THEN Top.of < l ELSE l = Top.of
    BY <2>1, <2>3, EnclosingIs
  <2> QED
    BY <1>2, <2>4, <2>5, <2>6, MoveToMoves
<1> QED
  BY <1>1, <1>2 DEF Return

\* An exception is raised.
LEMMA RaiseMoves ==
  ASSUME Inv, Executes, task' = "running", program' = program, outcome' = outcome,
         UNCHANGED context, NEW e \in Exceptions, Raise(Top, e)
  PROVE  Moves
<1>1. /\ Frames # <<>> /\ task # "done" /\ ~vms[Active].escaped /\ VmsGood(vms)
      /\ suppressed \in Seq(Exceptions \X Exceptions)
  BY ExecutesIs DEF Inv
<1>2. Top \in FrameRecord
  BY <1>1, TopIs
<1>3. suppressed' \in Seq(Exceptions \X Exceptions)
  <2>1. CASE Top.pending.how = "raise"
    <3>1. Top.pending.what \in Exceptions
      BY <1>2, <2>1, ReasonsAre DEF FrameRecord
    <3>2. <<e, Top.pending.what>> \in Exceptions \X Exceptions
      BY <3>1
    <3>3. suppressed' = Append(suppressed, <<e, Top.pending.what>>)
      BY <2>1 DEF Raise
    <3> QED
      BY <1>1, <3>2, <3>3, AppendIs
  <2>2. CASE Top.pending.how # "raise"
    BY <1>1, <2>2 DEF Raise
  <2> QED
    BY <2>1, <2>2
<1>4. Way("raise", e) \in Reasons
  BY ReasonsAre
<1>5. SetVm([vms[Active] EXCEPT !.way = Way("raise", e)])
  BY DEF Raise
<1>6. /\ Follows([vms[Active] EXCEPT !.way = Way("raise", e)])
      /\ [vms[Active] EXCEPT !.way = Way("raise", e)].frames = Frames
  BY <1>1, <1>4, WayMoves
<1> QED
  BY <1>1, <1>3, <1>5, <1>6 DEF Moves, ScopesStay

LEMMA LeavesMoves ==
  ASSUME Inv, Executes, task' = "running", program' = program, outcome' = outcome,
         NEW act \in Acts, NEW site \in Exceptions, Leaves(act, site)
  PROVE  Moves
<1>1. CASE Raise(Top, site) /\ UNCHANGED context
  BY <1>1, RaiseMoves
<1>2. CASE /\ SetVm([vms[Active] EXCEPT !.way = Way("throw", <<act.tag>>)])
           /\ UNCHANGED <<context, suppressed>>
  <2> DEFINE v == [vms[Active] EXCEPT !.way = Way("throw", <<act.tag>>)]
  <2>1. /\ Frames # <<>> /\ task # "done" /\ ~vms[Active].escaped
        /\ suppressed \in Seq(Exceptions \X Exceptions)
    BY ExecutesIs DEF Inv
  <2>2. Way("throw", <<act.tag>>) \in Reasons
    BY ReasonsAre DEF Acts
  <2>3. Follows(v) /\ v.frames = Frames
    BY <2>1, <2>2, WayMoves
  <2> HIDE DEF v
  <2> QED
    BY <1>2, <2>1, <2>3 DEF Moves, ScopesStay, v
<1> QED
  BY <1>1, <1>2 DEF Leaves

LEMMA AroundIs ==
  ASSUME Inv, UNCHANGED suppressed, task' = "running", program' = program,
         outcome' = outcome
  PROVE  Around
BY DEF Inv, Around
-----------------------------------------------------------------------------
(* The instructions *)

LEMMA EntersIs ==
  ASSUME Inv, NEW kinds, Enters(kinds)
  PROVE  /\ Executes /\ Frames # <<>> /\ Active = Len(vms) /\ task = "running"
         /\ Top \in FrameRecord /\ FrameGood(Top) /\ Top.code = "body" /\ Top.step = "down"
         /\ Top.level \in Levels /\ Top.of < Top.level /\ Top.level \in 0 .. Depth
         /\ Kind(Top.level) \in kinds
<1>1. /\ Executes /\ Frames # <<>> /\ Active = Len(vms) /\ task = "running"
      /\ Top.code = "body" /\ Top.step = "down" /\ Top.level <= Depth
      /\ Kind(Top.level) \in kinds
  BY ExecutesIs DEF Enters, Executes
<1>2. Top \in FrameRecord /\ FrameGood(Top) /\ Depth \in Nat
  BY <1>1, TopIs, ProgramFacts DEF Inv
<1>3. Top.level \in 1 .. (Depth + 1) /\ Top.of < Top.level
  BY <1>1, <1>2 DEF FrameRecord, FrameGood
<1> QED
  BY <1>1, <1>2, <1>3 DEF Levels

LEMMA CallMethodMoves == Inv /\ CallMethod => Moves
<1> SUFFICES ASSUME Inv, CallMethod PROVE Moves
  OBVIOUS
<1> DEFINE gs == Append(Frames, Body(Top.level))
<1>1. /\ Executes /\ Frames # <<>> /\ Active = Len(vms) /\ task = "running"
      /\ Top.code = "body" /\ Top.step = "down" /\ Top.level \in 0 .. Depth
  BY EntersIs DEF CallMethod
<1>2. /\ Body(Top.level) \in FrameRecord /\ FrameGood(Body(Top.level))
      /\ Body(Top.level).code = "body" /\ Body(Top.level).of = Top.level
      /\ Body(Top.level).scope = 0
  BY <1>1, BodyIs DEF Inv
<1>3. FramesFollow(gs) /\ gs # <<>> /\ Scopes(gs) = Scopes(Frames)
  BY <1>1, <1>2, CallFollows DEF Inv
<1>4. SetVm([vms[Active] EXCEPT !.frames = gs])
  BY DEF CallMethod, SetFrames
<1>5. Around /\ context' = context
  BY <1>1, AroundIs DEF CallMethod
<1> HIDE DEF gs
<1>6. /\ Follows([vms[Active] EXCEPT !.frames = gs])
      /\ [vms[Active] EXCEPT !.frames = gs].frames = gs
  BY <1>3, FramesMove
<1> QED
  BY <1>1, <1>3, <1>4, <1>5, <1>6 DEF Moves, Around, ScopesStay

LEMMA EnterTryMoves == Inv /\ EnterTry => Moves
<1> SUFFICES ASSUME Inv, EnterTry PROVE Moves
  OBVIOUS
<1>1. /\ Executes /\ task = "running" /\ Top.code = "body" /\ Top.level \in Levels
      /\ Top.of < Top.level /\ Top \in FrameRecord
  BY EntersIs DEF EnterTry
<1>2. Around /\ UNCHANGED context /\ MoveTo("down", Top.level + 1)
  BY <1>1, AroundIs DEF EnterTry
<1>3. Top.level + 1 \in 1 .. (Depth + 1) /\ Top.of < Top.level + 1
  BY <1>1, ProgramFacts DEF Inv, Levels, FrameRecord
<1> QED
  BY <1>1, <1>2, <1>3, MoveToMoves

\* A site is the name of the exceptions that are raised there.
LEMMA SitesAre ==
  ASSUME program \in Programs
  PROVE  /\ \A l \in 1 .. (Depth + 1) : <<"act", l>> \in Exceptions
         /\ \A l \in Levels :
              <<"finally", l>> \in Exceptions /\ <<"clause", l>> \in Exceptions
BY ProgramFacts DEF Exceptions, Levels

LEMMA ActsAre ==
  ASSUME Inv, AtAct
  PROVE  /\ Executes /\ Top.code = "body" /\ Top.level \in 1 .. (Depth + 1)
         /\ Here \in Acts
<1>1. Executes /\ Top.code = "body" /\ (Innermost \/ Top.step = "after")
  BY DEF AtAct
<1>2. Top \in FrameRecord /\ FrameGood(Top) /\ Depth \in Nat
  BY <1>1, ExecutesIs, TopIs, ProgramFacts DEF Inv
<1>3. Top.level \in 1 .. (Depth + 1)
  BY <1>2 DEF FrameRecord
<1>4. Here \in Acts
  <2>1. CASE Innermost
    BY <2>1, ProgramFacts DEF Here, Inv
  <2>2. CASE ~Innermost
    <3>1. Top.level \in Levels
      BY <1>1, <1>2, <1>3, <2>2 DEF FrameGood, Levels
    <3> QED
      BY <2>2, <3>1, ProgramFacts DEF Here, Inv
  <2> QED
    BY <2>1, <2>2
<1> QED
  BY <1>1, <1>3, <1>4

LEMMA ExecuteActMoves == Inv /\ ExecuteAct => Moves
<1> SUFFICES ASSUME Inv, ExecuteAct PROVE Moves
  OBVIOUS
<1>1. /\ Executes /\ task = "running" /\ Top.code = "body"
      /\ Top.level \in 1 .. (Depth + 1) /\ Here \in Acts
  BY ActsAre DEF ExecuteAct, AtAct, Executes
<1>2. task' = "running" /\ program' = program /\ outcome' = outcome
  BY <1>1 DEF ExecuteAct
<1>3. CASE CompleteBody /\ UNCHANGED suppressed
  BY <1>1, <1>2, <1>3, AroundIs, CompleteBodyMoves
<1>4. CASE Return /\ UNCHANGED suppressed
  BY <1>1, <1>2, <1>4, AroundIs, ReturnMoves
<1>5. CASE Leaves(Here, <<"act", Top.level>>)
  <2>1. <<"act", Top.level>> \in Exceptions
    BY <1>1, SitesAre DEF Inv
  <2> QED
    BY <1>1, <1>2, <1>5, <2>1, LeavesMoves
<1> QED
  BY <1>3, <1>4, <1>5 DEF ExecuteAct

LEMMA SleepEndsMoves == Inv /\ SleepEnds => Moves
<1> SUFFICES ASSUME Inv, SleepEnds PROVE Moves
  OBVIOUS
<1>1. /\ task' = "running" /\ program' = program /\ outcome' = outcome
      /\ UNCHANGED suppressed /\ CompleteBody
  BY DEF SleepEnds
<1>2. /\ Executes \/ task = "parked"
      /\ Top.code = "body"
  <2>1. CASE task = "parked"
    <3>1. Len(vms) = 1 /\ Last(vms[1].frames).code = "body"
      BY <2>1 DEF Inv, TaskGood
    <3>2. Active = 1
      BY <3>1, ActiveIs, VmsAre DEF Inv
    <3> QED
      BY <2>1, <3>1, <3>2 DEF Top, Frames
  <2>2. CASE AtAct
    BY <2>2 DEF AtAct
  <2> QED
    BY <2>1, <2>2 DEF SleepEnds
<1> QED
  BY <1>1, <1>2, AroundIs, CompleteBodyMoves

LEMMA SleepIsCancelledMoves == Inv /\ SleepIsCancelled => Moves
<1> SUFFICES ASSUME Inv, SleepIsCancelled PROVE Moves
  OBVIOUS
<1> DEFINE way == Way("fault", <<>>)
           v == [vms[Active] EXCEPT !.way = way, !.escaped = TRUE]
<1>1. Executes /\ task = "running"
  BY DEF SleepIsCancelled, AtAct, Executes
<1>2. Around /\ UNCHANGED context /\ SetVm(v)
  BY <1>1, AroundIs DEF SleepIsCancelled
<1>3. way \in Reasons /\ way # Normally
  BY ReasonsAre
<1>4. /\ Frames # <<>> /\ vms[Active] \in VmRecord /\ ~vms[Active].left
      /\ FramesFollow(Frames)
  BY <1>1, ExecutesIs, ActiveIs, StaysFollow DEF Inv
<1> HIDE DEF way
<1>5. v \in VmRecord /\ v.frames = Frames /\ v.way = way /\ v.escaped = TRUE /\ ~v.left
  BY <1>3, <1>4 DEF VmRecord, Frames
<1> HIDE DEF v
<1>6. Follows(v)
  BY <1>3, <1>4, <1>5, VmFollows
<1> QED
  BY <1>1, <1>2, <1>5, <1>6 DEF Moves, Around, ScopesStay

LEMMA EnsureInLineMoves == Inv /\ EnsureInLine => Moves
<1> SUFFICES ASSUME Inv, EnsureInLine PROVE Moves
  OBVIOUS
<1>1. /\ Executes /\ Top.step \in {"ensure", "return"} /\ task = "running"
      /\ task' = "running" /\ program' = program /\ outcome' = outcome
  BY DEF EnsureInLine, Executes
<1>2. Top \in FrameRecord /\ FrameGood(Top) /\ Depth \in Nat
  BY <1>1, ExecutesIs, TopIs, ProgramFacts DEF Inv
<1>3. Top.level \in Levels /\ Top.of \in 0 .. Depth
  BY <1>1, <1>2 DEF FrameRecord, FrameGood, Levels
<1>4. At(Top.level).finally \in Acts /\ <<"finally", Top.level>> \in Exceptions
  BY <1>3, ProgramFacts, SitesAre DEF Inv
<1>5. CASE UNCHANGED suppressed /\ Return
  BY <1>1, <1>5, AroundIs, ReturnMoves
<1>6. CASE UNCHANGED suppressed /\ FinishReturn
  BY <1>1, <1>6, AroundIs, FinishReturnMoves
<1>7. CASE /\ UNCHANGED suppressed /\ Top.code = "body"
           /\ MoveTo("after", Top.level) /\ UNCHANGED context
  <2>1. Top.of < Top.level /\ Top.level \in 1 .. (Depth + 1) /\ Top.level <= Depth
    BY <1>2, <1>3, <1>7 DEF FrameGood, Levels
  <2> QED
    BY <1>1, <1>7, <2>1, AroundIs, MoveToMoves
<1>8. CASE Leaves(At(Top.level).finally, <<"finally", Top.level>>)
  BY <1>1, <1>4, <1>8, LeavesMoves
<1> QED
  BY <1>5, <1>6, <1>7, <1>8 DEF EnsureInLine

LEMMA RescueClauseMoves == Inv /\ RescueClause => Moves
<1> SUFFICES ASSUME Inv, RescueClause PROVE Moves
  OBVIOUS
<1>1. /\ Executes /\ Top.code = "rescue" /\ task = "running"
      /\ task' = "running" /\ program' = program /\ outcome' = outcome
  BY DEF RescueClause, Executes
<1>2. Top \in FrameRecord /\ FrameGood(Top) /\ Depth \in Nat
  BY <1>1, ExecutesIs, TopIs, ProgramFacts DEF Inv
<1>3. Top.of \in Levels
  BY <1>1, <1>2 DEF FrameGood
<1>4. At(Top.of).clause \in Acts /\ <<"clause", Top.of>> \in Exceptions
  BY <1>3, ProgramFacts, SitesAre DEF Inv
<1>5. CASE UNCHANGED suppressed /\ FinishReturn
  BY <1>1, <1>5, AroundIs, FinishReturnMoves
<1>6. CASE UNCHANGED suppressed /\ MoveTo("ensure", Top.of) /\ UNCHANGED context
  <2>1. Top.of \in 1 .. (Depth + 1)
    BY <1>2, <1>3 DEF Levels
  <2> QED
    BY <1>1, <1>6, <2>1, AroundIs, MoveToMoves
<1>7. CASE Leaves(At(Top.of).clause, <<"clause", Top.of>>)
  BY <1>1, <1>4, <1>7, LeavesMoves
<1> QED
  BY <1>5, <1>6, <1>7 DEF RescueClause

LEMMA RescueDoesNotMatchMoves == Inv /\ RescueDoesNotMatch => Moves
<1> SUFFICES ASSUME Inv, RescueDoesNotMatch PROVE Moves
  OBVIOUS
<1>1. /\ Executes /\ Top.code = "rescue" /\ task = "running"
      /\ task' = "running" /\ program' = program /\ outcome' = outcome
      /\ UNCHANGED context /\ Raise(Top, Top.exception)
  BY DEF RescueDoesNotMatch, Executes
<1>2. Top \in FrameRecord /\ FrameGood(Top)
  BY <1>1, ExecutesIs, TopIs DEF Inv
<1>3. Top.exception \in Exceptions
  BY <1>1, <1>2 DEF FrameGood
<1> QED
  BY <1>1, <1>3, RaiseMoves

LEMMA EnsureClauseMoves == Inv /\ EnsureClause => Moves
<1> SUFFICES ASSUME Inv, EnsureClause PROVE Moves
  OBVIOUS
<1>1. /\ Executes /\ Top.code = "ensure" /\ task = "running"
      /\ task' = "running" /\ program' = program /\ outcome' = outcome
  BY DEF EnsureClause, Executes
<1>2. Top \in FrameRecord /\ FrameGood(Top)
  BY <1>1, ExecutesIs, TopIs DEF Inv
<1>3. Top.of \in Levels
  BY <1>1, <1>2 DEF FrameGood
<1>4. At(Top.of).finally \in Acts /\ <<"finally", Top.of>> \in Exceptions
  BY <1>3, ProgramFacts, SitesAre DEF Inv
<1>5. CASE UNCHANGED suppressed /\ FinishReturn
  BY <1>1, <1>5, AroundIs, FinishReturnMoves
<1>6. CASE Leaves(At(Top.of).finally, <<"finally", Top.of>>)
  BY <1>1, <1>4, <1>6, LeavesMoves
<1> QED
  BY <1>5, <1>6 DEF EnsureClause
-----------------------------------------------------------------------------
(* Unwinding *)

LEMMA PopFrameMoves == Inv /\ PopFrame => Moves
<1> SUFFICES ASSUME Inv, PopFrame PROVE Moves
  OBVIOUS
<1> DEFINE gs == Below(Frames)
<1>1. /\ task = "running" /\ Frames # <<>> /\ Going \in Reasons /\ VmsGood(vms)
      /\ suppressed \in Seq(Exceptions \X Exceptions)
  BY UnwindsIs DEF PopFrame, Inv
<1>2. /\ Top \in FrameRecord /\ Top = Frames[Len(Frames)]
      /\ Len(Frames) \in Nat \ {0} /\ DOMAIN Frames = 1 .. Len(Frames)
  BY <1>1, TopIs
<1>3. Len(Frames) > 1
  <2>1. PICK i \in DOMAIN Frames : Handlers(Frames[i], Going.how) # {}
    BY DEF PopFrame, HasHandler
  <2>2. i # Len(Frames)
    BY <1>2, <2>1 DEF PopFrame
  <2> QED
    BY <1>2, <2>1, <2>2
<1>4. /\ FramesFollow(gs) /\ Len(gs) = Len(Frames) - 1
      /\ Scopes(gs) = Scopes(Frames) \ {Top.scope}
  BY <1>1, <1>3, BelowFollows
<1>5. gs # <<>>
  BY <1>2, <1>3, <1>4, SeqDomain DEF FramesFollow
<1>6. suppressed' \in Seq(Exceptions \X Exceptions)
  <2>1. CASE Going.how = "raise" /\ Top.pending.how = "raise"
    <3>1. Top.pending.what \in Exceptions /\ Going.what \in Exceptions
      BY <1>1, <1>2, <2>1, ReasonsAre DEF FrameRecord
    <3>2. <<Going.what, Top.pending.what>> \in Exceptions \X Exceptions
      BY <3>1
    <3>3. suppressed' = Append(suppressed, <<Going.what, Top.pending.what>>)
      BY <2>1 DEF PopFrame
    <3> QED
      BY <1>1, <3>2, <3>3, AppendIs
  <2>2. CASE ~(Going.how = "raise" /\ Top.pending.how = "raise")
    BY <1>1, <2>2 DEF PopFrame
  <2> QED
    BY <2>1, <2>2
<1>7. /\ SetVm([vms[Active] EXCEPT !.frames = gs])
      /\ context' = Popped(context, Top.scope)
      /\ task' = task /\ program' = program /\ outcome' = outcome
  BY DEF PopFrame, SetFrames
<1> HIDE DEF gs
<1>8. /\ Follows([vms[Active] EXCEPT !.frames = gs])
      /\ [vms[Active] EXCEPT !.frames = gs].frames = gs
  BY <1>4, <1>5, FramesMove
<1> QED
  BY <1>1, <1>4, <1>6, <1>7, <1>8 DEF Moves, ScopesPop

LEMMA EscapeMoves == Inv /\ Escape => Moves
<1> SUFFICES ASSUME Inv, Escape PROVE Moves
  OBVIOUS
<1> DEFINE v == [vms[Active] EXCEPT !.escaped = TRUE]
<1>1. /\ task = "running" /\ Frames # <<>> /\ Going \in Reasons /\ Going # Normally
      /\ ~vms[Active].left
  BY UnwindsIs DEF Escape
<1>2. Around /\ UNCHANGED context /\ SetVm(v)
  BY <1>1, AroundIs DEF Escape
<1>3. vms[Active] \in VmRecord /\ FramesFollow(Frames)
  BY <1>1, ActiveIs, StaysFollow DEF Inv
<1>4. v \in VmRecord /\ v.frames = Frames /\ v.way = Going /\ v.escaped = TRUE /\ ~v.left
  BY <1>1, <1>3 DEF VmRecord, Frames, Going
<1> HIDE DEF v
<1>5. Follows(v)
  BY <1>1, <1>3, <1>4, VmFollows
<1> QED
  BY <1>1, <1>2, <1>4, <1>5 DEF Moves, Around, ScopesStay

\* The clause that a handler runs.
LEMMA ClauseIs ==
  ASSUME program \in Programs, Top \in FrameRecord, FrameGood(Top),
         NEW l \in Enclosing(Top), NEW code \in {"rescue", "ensure"},
         NEW way \in Reasons, way.how \in {"raise", "throw"},
         code = "rescue" => way.how = "raise"
  PROVE  /\ Clause(code, l, way) \in FrameRecord /\ FrameGood(Clause(code, l, way))
         /\ Clause(code, l, way).code = code
<1> DEFINE f == Clause(code, l, way)
           lost == Top.lost \cup (IF program.wide THEN Catches(1 .. (l - 1)) ELSE {})
           kept == IF way.how = "throw" THEN Catches(Enclosing(Top) \ {l}) ELSE {}
<1>1. Depth \in Nat /\ l \in Levels /\ Enclosing(Top) \subseteq Levels
  BY ProgramFacts, EnclosingIs
<1>2. lost \in SUBSET Catches(Levels)
  <2>1. Top.lost \subseteq Catches(Levels)
    BY DEF FrameRecord
  <2>2. Catches(1 .. (l - 1)) \subseteq Catches(Levels)
    <3>1. 1 .. (l - 1) \subseteq Levels
      BY <1>1 DEF Levels
    <3> QED
      BY <3>1 DEF Catches
  <2> QED
    BY <2>1, <2>2
<1>3. kept \in SUBSET Catches(Levels)
  BY <1>1 DEF Catches
<1>4. /\ f.code = code /\ f.of = l /\ f.step = "down" /\ f.level = l
      /\ f.exception = (IF code = "rescue" THEN way.what ELSE <<>>)
      /\ f.pending = (IF code = "ensure" THEN way ELSE Normally)
      /\ f.lost = lost /\ f.kept = kept /\ f.scope = 0
  BY DEF Clause, Frame
<1>5. code = "rescue" => way.what \in Exceptions
  BY ReasonsAre
<1>6. f \in FrameRecord
  <2> DEFINE g == Frame(code, l, "down", l)
             exception == IF code = "rescue" THEN way.what ELSE <<>>
             next == IF code = "ensure" THEN way ELSE Normally
  <2>1. f = [g EXCEPT !.lost = lost, !.kept = kept, !.exception = exception,
                      !.pending = next]
    BY DEF Clause
  <2>2. exception \in Exceptions \cup {<<>>} /\ next \in Reasons
    BY <1>5, ReasonsAre
  <2>3. l \in 0 .. Depth /\ l \in 1 .. (Depth + 1) /\ 0 \in 0 .. Depth
    BY <1>1 DEF Levels
  <2>4. g \in FrameRecord
    BY <2>3, ReasonsAre DEF FrameRecord, Frame, Codes
  <2> HIDE DEF f, g, lost, kept, exception, next
  <2> QED
    BY <1>2, <1>3, <2>1, <2>2, <2>4 DEF FrameRecord
<1> HIDE DEF f
<1>7. FrameGood(f)
  BY <1>1, <1>4, <1>5, ReasonsAre DEF FrameGood
<1> QED
  BY <1>4, <1>6, <1>7 DEF f

LEMMA EnterHandlerMoves == Inv /\ EnterHandler => Moves
<1> SUFFICES ASSUME Inv, EnterHandler PROVE Moves
  OBVIOUS
<1> DEFINE l == Max(Handlers(Top, Going.how))
           past == Goto(Top, "after", l)
           code == IF Top.code = "body" /\ Kind(l) \in Rescued THEN "rescue" ELSE "ensure"
           caught == Kind(l) = "catch" /\ Going.what = <<l>> /\ l \notin Top.lost
           clause == Clause(code, l, Going)
           hs == Replaced(past)
           gs == IF Kind(l) = "catch" THEN hs ELSE Append(hs, clause)
           way == IF Kind(l) = "catch" /\ ~caught THEN Going ELSE Normally
           v == [vms[Active] EXCEPT !.frames = gs, !.way = way]
<1>1. /\ task = "running" /\ Frames # <<>> /\ Going \in Reasons /\ VmsGood(vms)
      /\ Going.how \in {"raise", "throw"} /\ ~vms[Active].escaped /\ ~vms[Active].left
      /\ program \in Programs
  BY UnwindsIs DEF EnterHandler, Inv
<1>2. Top \in FrameRecord /\ FrameGood(Top) /\ Depth \in Nat
  BY <1>1, TopIs, ProgramFacts
<1>3. l \in Handlers(Top, Going.how)
  <2>1. Handlers(Top, Going.how) \subseteq 0 .. Depth
    BY <1>1, <1>2, EnclosingIs DEF Handlers
  <2>2. Handlers(Top, Going.how) # {}
    BY DEF EnterHandler
  <2> QED
    BY <1>2, <2>1, <2>2, GreatestNatural
<1>4. SetVm(v) /\ Around /\ UNCHANGED context
  BY <1>1, AroundIs DEF EnterHandler
<1> HIDE DEF l
<1>5. /\ l \in Enclosing(Top) /\ Accepts(Top, l, Going.how) /\ l \in Levels
      /\ Top.code # "ensure"
  BY <1>1, <1>2, <1>3, EnclosingIs DEF Handlers
<1>6. /\ FramesFollow(hs) /\ hs # <<>> /\ Last(hs) = past
      /\ Scopes(hs) = Scopes(Frames)
  <2>1. l \in 1 .. (Depth + 1) /\ l <= Depth
    BY <1>2, <1>5 DEF Levels
  <2>2. IF Top.code = "body" THEN Top.of < l ELSE l = Top.of
    BY <1>1, <1>2, <1>5, EnclosingIs
  <2> QED
    BY <1>1, <2>1, <2>2, GotoFollows
<1>7. past.code = Top.code /\ past.step = "after"
  BY <1>2 DEF Goto, FrameRecord
<1>8. code = "rescue" => Going.how = "raise"
  BY <1>1, <1>5 DEF Accepts, Rescued
<1>9. /\ clause \in FrameRecord /\ FrameGood(clause) /\ clause.code = code
      /\ code \in {"rescue", "ensure"}
  <2>1. code \in {"rescue", "ensure"}
    OBVIOUS
  <2> HIDE DEF code
  <2> QED
    BY <1>1, <1>2, <1>5, <1>8, <2>1, ClauseIs
<1> HIDE DEF past, code, clause, hs
<1>10. Carries(Last(hs), clause) /\ clause.code # "body"
  BY <1>5, <1>6, <1>7, <1>9 DEF Carries
<1>11. /\ FramesFollow(gs) /\ gs # <<>> /\ Scopes(gs) = Scopes(Frames)
  BY <1>1, <1>6, <1>9, <1>10, ClauseFollows
<1>12. way \in Reasons
  BY <1>1, ReasonsAre
<1> HIDE DEF gs, way
<1>13. v \in VmRecord /\ v.frames = gs /\ v.way = way /\ v.escaped = FALSE /\ ~v.left
  <2>1. vms[Active] \in VmRecord /\ gs \in Seq(FrameRecord)
    BY <1>1, <1>11, ActiveIs DEF FramesFollow
  <2> QED
    BY <1>1, <1>12, <2>1 DEF VmRecord
<1> HIDE DEF v
<1>14. Follows(v)
  BY <1>11, <1>12, <1>13, VmFollows
<1> QED
  BY <1>1, <1>4, <1>11, <1>13, <1>14 DEF Moves, Around, ScopesStay

\* What moves keeps the invariant.
LEMMA MovesKeep == Inv /\ Moves => Inv'
<1> SUFFICES ASSUME Inv, Moves PROVE Inv'
  OBVIOUS
<1>1. PICK v : Follows(v) /\ SetVm(v)
  BY DEF Moves
<1> QED
  BY <1>1, SetVmKeeps DEF Moves
-----------------------------------------------------------------------------
(* Steps that begin or end a VM *)

\* A scope is opened for the body of a block.
LEMMA OpenScopeIs ==
  ASSUME Inv, OpenScope
  PROVE  \E v : /\ Follows(v) /\ SetVm(v)
                /\ Scopes(v.frames) = Scopes(Frames) \cup {Top.level}
                /\ Active = Len(vms) /\ task = "running" /\ Around
                /\ Top.level \in Levels /\ Frames # <<>> /\ Top.of < Top.level
                /\ Top.code = "body" /\ Top \in FrameRecord
<1> DEFINE f == [Body(Top.level) EXCEPT !.scope = Top.level]
           gs == Append(Frames, f)
           v == [vms[Active] EXCEPT !.frames = gs]
<1>1. /\ Executes /\ Frames # <<>> /\ Active = Len(vms) /\ task = "running"
      /\ Top.code = "body" /\ Top.step = "down" /\ Top.level \in 0 .. Depth
      /\ Top.level \in Levels /\ Kind(Top.level) = "with" /\ Top.of < Top.level
      /\ Top \in FrameRecord
  BY EntersIs DEF OpenScope
<1>2. /\ Body(Top.level) \in FrameRecord /\ FrameGood(Body(Top.level))
      /\ Body(Top.level).code = "body" /\ Body(Top.level).of = Top.level
  BY <1>1, BodyIs DEF Inv
<1>3. /\ f \in FrameRecord /\ f.code = "body" /\ f.of = Top.level /\ f.scope = Top.level
      /\ f.step = Body(Top.level).step /\ f.level = Body(Top.level).level
      /\ f.pending = Body(Top.level).pending
  BY <1>1, <1>2 DEF FrameRecord
<1>4. FrameGood(f)
  BY <1>1, <1>2, <1>3 DEF FrameGood
<1>5. SetVm(v)
  BY DEF OpenScope, SetFrames
<1>6. Around
  BY <1>1, AroundIs DEF OpenScope
<1> HIDE DEF f
<1>7. FramesFollow(gs) /\ gs # <<>> /\ Scopes(gs) = Scopes(Frames) \cup ({f.scope} \ {0})
  BY <1>1, <1>3, <1>4, CallFollows DEF Inv
<1>8. Scopes(gs) = Scopes(Frames) \cup {Top.level}
  <2>1. Top.level # 0
    BY <1>1 DEF Levels
  <2> QED
    BY <1>3, <1>7, <2>1
<1> HIDE DEF gs
<1>9. Follows(v) /\ v.frames = gs
  BY <1>7, FramesMove
<1> HIDE DEF v
<1> QED
  BY <1>1, <1>5, <1>6, <1>8, <1>9

LEMMA OpenScopeKeeps == Inv /\ OpenScope => Inv'
<1> SUFFICES ASSUME Inv, OpenScope PROVE Inv'
  OBVIOUS
<1>1. PICK v : Follows(v) /\ SetVm(v) /\ task = "running" /\ Around
  BY OpenScopeIs
<1> QED
  BY <1>1, SetVmKeeps DEF Around

\* What follows from the VMs when the rest of the state goes on.
LEMMA RunningKeeps ==
  ASSUME Inv, Around, VmsGood(vms'),
         \A i \in DOMAIN vms' : vms'[i].frames = <<>> => vms'[i].way = Normally
  PROVE  Inv'
<1>1. VmsGood(vms)'
  BY SameProgram DEF Around
<1>2. Normally' = Normally
  BY DEF Normally
<1>3. TaskGood'
  BY <1>2 DEF TaskGood, Around
<1>4. (suppressed \in Seq(Exceptions \X Exceptions))' /\ (outcome \in Reasons)'
  BY SameProgram DEF Inv, Around
<1> QED
  BY <1>1, <1>3, <1>4 DEF Inv, Around

\* The frames of several VMs are those of a program that runs.
LEMMA SeveralRun ==
  ASSUME Inv, Len(vms) # 1
  PROVE  /\ task = "running" /\ Len(vms) > 1
         /\ \A i \in DOMAIN vms : vms[i].frames = <<>> => vms[i].way = Normally
<1>1. Len(vms) \in Nat \ {0}
  BY VmsAre DEF Inv
<1>2. task = "running"
  BY DEF Inv, TaskGood
<1>3. \A i \in DOMAIN vms : vms[i].frames = <<>> => vms[i].way = Normally
  BY <1>2 DEF Inv, TaskGood
<1>4. Len(vms) > 1
  BY <1>1
<1> QED
  BY <1>2, <1>3, <1>4

\* All that is in force is outside of a new block.
LEMMA BodiesBelow ==
  ASSUME VmsGood(vms), Active = Len(vms), Frames # <<>>, Top.code = "body",
         NEW h \in DOMAIN vms, NEW n \in Bodies(vms[h].frames)
  PROVE  n <= Top.of /\ n \in Nat
<1>1. /\ Top \in FrameRecord /\ Top = Frames[Len(Frames)]
      /\ Len(Frames) \in Nat \ {0} /\ DOMAIN Frames = 1 .. Len(Frames)
      /\ Frames \in Seq(FrameRecord) /\ FramesGood(Frames)
  BY TopIs
<1>2. Len(vms) \in Nat \ {0} /\ DOMAIN vms = 1 .. Len(vms) /\ vms[h] \in VmRecord
  BY VmsAre
<1>3. \A j \in DOMAIN Frames : j # Len(Frames) => Frames[j].of < Top.of
  BY <1>1 DEF FramesGood
<1>4. vms[h].frames \in Seq(FrameRecord)
  BY <1>2 DEF VmRecord
<1>5. PICK j \in DOMAIN vms[h].frames : n = vms[h].frames[j].of
  BY DEF Bodies
<1>6. vms[h].frames[j] \in FrameRecord
  BY <1>4, SeqDomain
<1>7. n \in Nat
  BY <1>5, <1>6 DEF FrameRecord
<1>8. \A k \in DOMAIN Frames : Frames[k].of \in Nat
  <2>1. \A k \in DOMAIN Frames : Frames[k] \in FrameRecord
    BY <1>1, SeqDomain
  <2> QED
    BY <2>1 DEF FrameRecord
<1>9. \A k \in DOMAIN Frames : Frames[k].of <= Top.of
  BY <1>1, <1>3, <1>8
<1>10. CASE h = Len(vms)
  BY <1>5, <1>7, <1>9, <1>10 DEF Frames
<1>11. CASE h # Len(vms)
  <2>1. Inside(vms[h], vms[Len(vms)])
    BY <1>2, <1>11 DEF VmsGood
  <2>2. n < Frames[1].of
    BY <2>1 DEF Inside, Frames
  <2>3. Frames[1].of <= Top.of /\ Frames[1].of \in Nat /\ Top.of \in Nat
    BY <1>1, <1>8, <1>9
  <2> QED
    BY <1>7, <2>2, <2>3
<1> QED
  BY <1>10, <1>11

LEMMA CallBlockKeeps == Inv /\ CallBlock => Inv' /\ ScopesOf(vms') = ScopesOf(vms)
<1> SUFFICES ASSUME Inv, CallBlock PROVE Inv' /\ ScopesOf(vms') = ScopesOf(vms)
  OBVIOUS
<1> DEFINE fs == <<Body(Top.level)>>
           v == NewVm(Body(Top.level))
<1>1. /\ Executes /\ Frames # <<>> /\ Active = Len(vms) /\ task = "running"
      /\ Top.code = "body" /\ Top.step = "down" /\ Top.level \in 0 .. Depth
      /\ Top.level \in Levels /\ Kind(Top.level) = "block" /\ Top.of < Top.level
      /\ Top \in FrameRecord /\ VmsGood(vms)
  BY EntersIs DEF CallBlock, Inv
<1>2. /\ Body(Top.level) \in FrameRecord /\ FrameGood(Body(Top.level))
      /\ Body(Top.level).code = "body" /\ Body(Top.level).of = Top.level
      /\ Body(Top.level).scope = 0
  BY <1>1, BodyIs DEF Inv
<1>3. /\ Len(vms) \in Nat \ {0} /\ DOMAIN vms = 1 .. Len(vms)
      /\ vms[Len(vms)].way = Normally /\ ~vms[Len(vms)].left
  BY <1>1, VmsAre, ExecutesIs
<1>4. /\ fs \in Seq(FrameRecord) /\ Len(fs) = 1 /\ fs # <<>> /\ DOMAIN fs = {1}
      /\ fs[1] = Body(Top.level)
  BY <1>2
<1>5. v.frames = fs /\ v.way = Normally /\ v.escaped = FALSE /\ v.left = FALSE
      /\ v \in VmRecord
  BY <1>4, ReasonsAre DEF NewVm, VmRecord
<1> HIDE DEF fs
<1>6. FramesGood(fs)
  BY <1>2, <1>4 DEF FramesGood
<1> HIDE DEF v
<1>7. VmGood(v)
  BY <1>5, <1>6 DEF VmGood
<1>8. ParentGood(vms[Len(vms)], v)
  <2>1. Top.level <= Depth
    BY <1>1, ProgramFacts DEF Inv
  <2> QED
    BY <1>1, <1>3, <2>1 DEF ParentGood, Top, Frames
<1>9. ASSUME NEW h \in DOMAIN vms
      PROVE  Inside(vms[h], v)
  <2> SUFFICES ASSUME NEW n \in Bodies(vms[h].frames) PROVE n < Top.level
    BY <1>1, <1>2, <1>4, <1>5 DEF Inside
  <2>1. n <= Top.of /\ n \in Nat
    BY <1>1, BodiesBelow
  <2> QED
    BY <1>1, <2>1 DEF FrameRecord
<1>10. vms' = Append(vms, v)
  BY DEF CallBlock, v
<1>11. VmsGood(vms')
  BY <1>1, <1>5, <1>7, <1>8, <1>9, <1>10, PushVm
<1>12. Around
  BY <1>1, AroundIs DEF CallBlock
<1>13. /\ DOMAIN vms' = 1 .. (Len(vms) + 1) /\ vms'[Len(vms) + 1] = v
       /\ \A i \in 1 .. Len(vms) : vms'[i] = vms[i]
  <2>1. vms \in Seq(VmRecord) /\ vms' \in Seq(VmRecord)
    BY <1>1, <1>11 DEF VmsGood
  <2>2. /\ Len(vms') = Len(vms) + 1
        /\ \A i \in 1 .. Len(vms) : vms'[i] = vms[i]
        /\ vms'[Len(vms) + 1] = v
    BY <1>5, <1>10, <2>1, AppendIs
  <2> QED
    BY <2>1, <2>2, SeqDomain
<1>14. \A i \in DOMAIN vms' : vms'[i].frames = <<>> => vms'[i].way = Normally
  BY <1>1, <1>3, <1>5, <1>13 DEF Inv, TaskGood
<1>15. ScopesOf(vms') = ScopesOf(vms)
  <2>1. Scopes(vms'[Len(vms) + 1].frames) = {}
    BY <1>2, <1>4, <1>5, <1>13 DEF Scopes, Range
  <2>2. ScopesOf(vms') = ScopesOf(vms) \cup Scopes(vms'[Len(vms) + 1].frames)
    BY <1>3, <1>13, MoreScopes
  <2> QED
    BY <2>1, <2>2
<1> QED
  BY <1>11, <1>12, <1>14, <1>15, RunningKeeps

LEMMA BlockReturnsKeeps == Inv /\ BlockReturns => Inv' /\ ScopesOf(vms') = ScopesOf(vms)
<1> SUFFICES ASSUME Inv, BlockReturns PROVE Inv' /\ ScopesOf(vms') = ScopesOf(vms)
  OBVIOUS
<1> DEFINE n == Len(vms) - 1
           ws == Front(vms)
           parent == vms[n]
           fs == parent.frames
           caller == Last(fs)
           f == Goto(caller, "after", caller.level)
           gs == Append(Front(fs), f)
           v == [parent EXCEPT !.frames = gs]
<1>1. /\ Len(vms) > 1 /\ Len(vms) \in Nat /\ n \in Nat \ {0} /\ n \in 1 .. (Len(vms) - 1)
      /\ DOMAIN vms = 1 .. Len(vms) /\ n + 1 = Len(vms) /\ Last(vms) = vms[Len(vms)]
      /\ VmsGood(vms) /\ task = "running"
      /\ \A i \in DOMAIN vms : vms[i].frames = <<>> => vms[i].way = Normally
  <2>1. /\ VmsGood(vms) /\ Len(vms) \in Nat /\ DOMAIN vms = 1 .. Len(vms)
        /\ Last(vms) = vms[Len(vms)]
    BY VmsAre DEF Inv
  <2>2. Len(vms) > 1 /\ Len(vms) # 1
    <3>1. Len(vms) > 1
      BY DEF BlockReturns
    <3> QED
      BY <2>1, <3>1
  <2>3. /\ task = "running"
        /\ \A i \in DOMAIN vms : vms[i].frames = <<>> => vms[i].way = Normally
    BY <2>2, SeveralRun
  <2> QED
    BY <2>1, <2>2, <2>3
<1>2. /\ VmsGood(ws) /\ Len(ws) = n
      /\ \A i \in 1 .. n : ws[i] = vms[i]
  BY <1>1, FrontVms
<1>3. ~vms[Len(vms)].left
  <2>1. vms[Len(vms)].way = Normally
    BY <1>1 DEF BlockReturns
  <2> QED
    BY <1>1, <2>1, VmsAre DEF VmGood
<1>4. ParentGood(vms[n], vms[n + 1])
  BY <1>1 DEF VmsGood
<1>5. /\ fs # <<>> /\ ~parent.left /\ parent.way = Normally /\ caller.code = "body"
      /\ caller.level <= Depth
  BY <1>1, <1>3, <1>4 DEF ParentGood
<1>6. parent \in VmRecord /\ VmGood(parent) /\ fs \in Seq(FrameRecord) /\ FramesGood(fs)
  BY <1>1, VmsAre DEF VmRecord, VmGood
<1>7. /\ caller \in FrameRecord /\ FrameGood(caller) /\ Len(fs) \in Nat \ {0}
      /\ caller = fs[Len(fs)]
  <2>1. caller = fs[Len(fs)] /\ caller \in FrameRecord /\ Len(fs) \in Nat \ {0}
        /\ DOMAIN fs = 1 .. Len(fs)
    BY <1>5, <1>6, LastIs, SeqDomain
  <2> QED
    BY <1>6, <2>1 DEF FramesGood
<1> HIDE DEF caller
<1>8. /\ f \in FrameRecord /\ f.code = caller.code /\ f.of = caller.of
      /\ f.scope = caller.scope /\ f.level = caller.level /\ f.pending = caller.pending
      /\ f.exception = caller.exception
  BY <1>7 DEF Goto, FrameRecord
<1> HIDE DEF f
<1>9. FrameGood(f)
  BY <1>5, <1>7, <1>8 DEF FrameGood
<1> HIDE DEF fs
<1>10. gs \in Seq(FrameRecord) /\ FramesGood(gs)
  BY <1>5, <1>6, <1>8, <1>9, ReplaceFrames DEF caller
<1>11. /\ Len(gs) = Len(fs) /\ gs # <<>>
       /\ \A i \in 1 .. (Len(fs) - 1) : gs[i] = fs[i]
       /\ gs[Len(fs)] = f
  BY <1>5, <1>6, <1>8, ReplacedIs
<1> HIDE DEF gs
<1>12. \A j \in 1 .. Len(gs) : /\ gs[j].code = fs[j].code /\ gs[j].of = fs[j].of
                               /\ gs[j].scope = fs[j].scope
  <2> SUFFICES ASSUME NEW j \in 1 .. Len(fs)
               PROVE  /\ gs[j].code = fs[j].code /\ gs[j].of = fs[j].of
                      /\ gs[j].scope = fs[j].scope
    BY <1>11
  <2>1. j \in 1 .. (Len(fs) - 1) \/ j = Len(fs)
    BY <1>7
  <2> QED
    BY <1>7, <1>8, <1>11, <2>1
<1>13. Based(fs, gs) /\ Scopes(gs) = Scopes(fs)
  <2>1. Len(gs) <= Len(fs)
    BY <1>7, <1>11
  <2>2. Based(fs, gs) /\ Scopes(gs) = {fs[j].scope : j \in 1 .. Len(gs)} \ {0}
    BY <1>6, <1>10, <1>12, <2>1, SameFrames
  <2>3. DOMAIN fs = 1 .. Len(gs)
    BY <1>6, <1>11, SeqDomain
  <2> QED
    BY <2>2, <2>3 DEF Scopes, Range
<1> HIDE DEF parent
<1>14. /\ v \in VmRecord /\ v.frames = gs /\ v.way = parent.way
       /\ v.escaped = parent.escaped /\ v.left = parent.left
  BY <1>6, <1>10 DEF VmRecord
<1> HIDE DEF v
<1>15. VmGood(v)
  BY <1>6, <1>10, <1>14 DEF VmGood
<1> DEFINE us == Append(Front(ws), v)
<1>16. vms' = us
  BY DEF BlockReturns, v, gs, f, caller, fs, parent
<1>17. /\ ws \in Seq(VmRecord) /\ ws # <<>>
  BY <1>2 DEF VmsGood
<1>18. /\ us \in Seq(VmRecord) /\ Len(us) = n /\ us[n] = v
       /\ \A i \in 1 .. (n - 1) : us[i] = ws[i]
  BY <1>2, <1>14, <1>17, ReplacedIs
<1> HIDE DEF us, ws, n
<1>19. VmsGood(us)
  <2>1. n \in DOMAIN ws /\ DOMAIN ws = 1 .. n /\ ws[n] = parent
    BY <1>1, <1>2, VmsAre DEF parent
  <2>2. \A i \in DOMAIN ws : i # n => us[i] = ws[i]
    BY <1>1, <1>18, <2>1
  <2>3. v.left = ws[n].left /\ Based(ws[n].frames, v.frames) /\ ~(n < Len(ws))
    BY <1>1, <1>2, <1>13, <1>14, <2>1 DEF fs
  <2> QED
    BY <1>2, <1>14, <1>15, <1>18, <2>1, <2>2, <2>3, VmPlaced
<1>20. \A i \in DOMAIN us : us[i].frames = <<>> => us[i].way = Normally
  <2>1. DOMAIN us = 1 .. n
    BY <1>18, SeqDomain
  <2>2. \A i \in 1 .. (n - 1) : us[i] = vms[i] /\ i \in DOMAIN vms
    BY <1>1, <1>2, <1>18
  <2>3. \A i \in 1 .. n : i \in 1 .. (n - 1) \/ i = n
    BY <1>1
  <2> QED
    BY <1>1, <1>5, <1>14, <1>18, <2>1, <2>2, <2>3
<1>21. Around
  BY <1>1, AroundIs DEF BlockReturns
<1>22. ScopesOf(vms) = ScopesOf(us)
  <2>1. DOMAIN us = 1 .. n /\ n \in Nat
    BY <1>1, <1>18, SeqDomain
  <2>2. ASSUME NEW i \in 1 .. n
        PROVE  Scopes(vms[i].frames) = Scopes(us[i].frames)
    <3>1. CASE i = n
      BY <1>13, <1>14, <1>18, <3>1 DEF fs, parent
    <3>2. CASE i # n
      <4>1. i \in 1 .. (n - 1)
        BY <1>1, <3>2
      <4> QED
        BY <1>2, <1>18, <4>1
    <3> QED
      BY <3>1, <3>2
  <2>3. Scopes(vms[n + 1].frames) = {}
    BY <1>1 DEF BlockReturns, Scopes, Range
  <2>4. ScopesOf(vms) = ScopesOf(us) \cup Scopes(vms[n + 1].frames)
    <3>1. DOMAIN vms = 1 .. (n + 1)
      BY <1>1
    <3> QED
      BY <2>1, <2>2, <3>1, MoreScopes, Zenon
  <2> QED
    BY <2>3, <2>4
<1> QED
  BY <1>16, <1>19, <1>20, <1>21, <1>22, RunningKeeps

\* What a block that has failed leaves to the VM below it.
LEMMA BlockEscapesIs ==
  ASSUME VmsGood(vms), Len(vms) > 1, BlockEscapes
  PROVE  LET n == Len(vms)
             last == vms[n]
             parent == vms[n - 1]
             child == [last EXCEPT !.left = TRUE]
             v == [parent EXCEPT !.way = last.way, !.escaped = (last.way.how = "fault")]
         IN  /\ vms' \in [1 .. n -> VmRecord] /\ vms'[n] = child /\ vms'[n - 1] = v
             /\ \A i \in 1 .. n : i # n /\ i # n - 1 => vms'[i] = vms[i]
<1> DEFINE n == Len(vms)
           last == vms[n]
           parent == vms[n - 1]
           child == [last EXCEPT !.left = TRUE]
           fault == last.way.how = "fault"
           v == [parent EXCEPT !.way = last.way, !.escaped = fault]
           v2 == [parent EXCEPT !.way = last.way]
           w1 == [vms EXCEPT ![n].left = TRUE]
           w2 == [w1 EXCEPT ![n - 1].way = last.way]
           w3 == [w2 EXCEPT ![n - 1].escaped = fault]
<1>1. /\ n \in Nat /\ n > 1 /\ n - 1 \in 1 .. n /\ n \in 1 .. n /\ n # n - 1
      /\ Last(vms) = last /\ vms \in [1 .. n -> VmRecord]
  BY VmsAre, LenProperties DEF VmsGood
<1>2. last \in VmRecord /\ parent \in VmRecord
  BY <1>1
<1>3. vms' = w3
  BY <1>1 DEF BlockEscapes
<1>4. v = [v2 EXCEPT !.escaped = fault]
  OBVIOUS
<1> HIDE DEF v
<1>5. /\ last.way \in Reasons /\ fault \in BOOLEAN
  <2> HIDE DEF last
  <2> QED
    BY <1>2 DEF VmRecord
<1> HIDE DEF fault, n
<1>6. /\ child \in VmRecord /\ v2 \in VmRecord /\ v \in VmRecord
  <2> HIDE DEF last, parent
  <2> QED
    BY <1>2, <1>4, <1>5 DEF VmRecord
<1> HIDE DEF v2
<1>7. /\ w1 \in [1 .. n -> VmRecord] /\ w1[n] = child /\ w1[n - 1] = parent
      /\ \A i \in 1 .. n : i # n /\ i # n - 1 => w1[i] = vms[i]
  <2>1. w1 = [vms EXCEPT ![n] = child]
    OBVIOUS
  <2> HIDE DEF w1, child
  <2> QED
    BY <1>1, <1>6, <2>1
<1> HIDE DEF w1, child
<1>8. /\ w2 \in [1 .. n -> VmRecord] /\ w2[n] = child /\ w2[n - 1] = v2
      /\ \A i \in 1 .. n : i # n /\ i # n - 1 => w2[i] = vms[i]
  <2>1. w2 = [w1 EXCEPT ![n - 1] = v2]
    BY <1>7 DEF v2
  <2> HIDE DEF w2, last, parent
  <2> QED
    BY <1>1, <1>6, <1>7, <2>1
<1> HIDE DEF w2
<1>9. w3 = [w2 EXCEPT ![n - 1] = v]
  BY <1>4, <1>8
<1> HIDE DEF w3, last, parent
<1>10. /\ w3 \in [1 .. n -> VmRecord] /\ w3[n] = child /\ w3[n - 1] = v
       /\ \A i \in 1 .. n : i # n /\ i # n - 1 => w3[i] = vms[i]
  BY <1>1, <1>6, <1>8, <1>9
<1> QED
  BY <1>3, <1>10 DEF child, v, last, parent, n, fault

LEMMA BlockEscapesKeeps == Inv /\ BlockEscapes => Inv' /\ ScopesOf(vms') = ScopesOf(vms)
<1> SUFFICES ASSUME Inv, BlockEscapes PROVE Inv' /\ ScopesOf(vms') = ScopesOf(vms)
  OBVIOUS
<1> DEFINE n == Len(vms)
           last == vms[n]
           parent == vms[n - 1]
           child == [last EXCEPT !.left = TRUE]
           v == [parent EXCEPT !.way = last.way, !.escaped = (last.way.how = "fault")]
           ws == [vms EXCEPT ![n].left = TRUE, ![n - 1].way = last.way,
                             ![n - 1].escaped = (last.way.how = "fault")]
<1>1. /\ n = Len(vms) /\ task = "running" /\ Len(vms) > 1 /\ Len(vms) # 1
      /\ \A i \in DOMAIN vms : vms[i].frames = <<>> => vms[i].way = Normally
  <2>1. Len(vms) > 1 /\ Len(vms) # 1
    BY VmsAre DEF BlockEscapes, Inv
  <2> QED
    BY <2>1, SeveralRun
<1> HIDE DEF n
<1>2. /\ n \in Nat /\ n > 1 /\ n - 1 \in 1 .. n /\ n \in 1 .. n /\ DOMAIN vms = 1 .. n
       /\ Last(vms) = last /\ VmsGood(vms) /\ n # n - 1
  BY <1>1, VmsAre DEF Inv
<1>3. /\ \A i \in DOMAIN vms : vms[i] \in VmRecord /\ VmGood(vms[i])
       /\ vms \in Seq(VmRecord) /\ vms \in [1 .. n -> VmRecord]
  BY <1>1, <1>2, VmsAre, LenProperties DEF VmsGood
<1>4. last.escaped /\ ~last.left
  BY <1>2 DEF BlockEscapes
<1>5. ParentGood(parent, last)
  <2>1. n - 1 \in 1 .. (n - 1) /\ (n - 1) + 1 = n
    BY <1>2
  <2> QED
    BY <1>1, <1>2, <2>1 DEF VmsGood
<1>6. parent.frames # <<>> /\ ~parent.left
  BY <1>5 DEF ParentGood
<1>7. /\ last \in VmRecord /\ VmGood(last) /\ parent \in VmRecord /\ VmGood(parent)
      /\ last.way \in Reasons
  BY <1>2, <1>3 DEF VmRecord
<1> HIDE DEF last, parent
<1>8. /\ child \in VmRecord /\ child.frames = last.frames /\ child.way = last.way
      /\ child.escaped = last.escaped /\ child.left
  BY <1>7 DEF VmRecord
<1>9. /\ v \in VmRecord /\ v.frames = parent.frames /\ v.way = last.way
      /\ v.escaped = (last.way.how = "fault") /\ v.left = parent.left
  BY <1>7 DEF VmRecord
<1>10. VmGood(child) /\ VmGood(v)
  <2>1. v.escaped => v.way # Normally
    BY <1>7, <1>9, ReasonsAre
  <2> HIDE DEF child, v
  <2> QED
    BY <1>4, <1>6, <1>7, <1>8, <1>9, <2>1 DEF VmGood
<1>11. vms' = ws
  BY <1>1, <1>2 DEF BlockEscapes
<1>12. /\ ws \in [1 .. n -> VmRecord] /\ ws[n] = child /\ ws[n - 1] = v
       /\ \A i \in 1 .. n : i # n /\ i # n - 1 => ws[i] = vms[i]
  BY <1>1, <1>2, <1>11, BlockEscapesIs DEF child, v, last, parent
<1> HIDE DEF ws, child, v
<1>13. ws \in Seq(VmRecord) /\ Len(ws) = n /\ DOMAIN ws = 1 .. n
  BY <1>12, <1>2
<1>14. \A i \in 1 .. n : ws[i].frames = vms[i].frames /\ (i # n => ws[i].left = vms[i].left)
  <2> SUFFICES ASSUME NEW i \in 1 .. n
               PROVE  ws[i].frames = vms[i].frames /\ (i # n => ws[i].left = vms[i].left)
    OBVIOUS
  <2>1. CASE i = n
    BY <1>8, <1>12, <2>1 DEF last
  <2>2. CASE i = n - 1
    BY <1>1, <1>2, <1>3, <1>9, <1>12, <2>2 DEF parent
  <2>3. CASE i # n /\ i # n - 1
    BY <1>12, <2>3
  <2> QED
    BY <2>1, <2>2, <2>3
<1>15. VmsGood(ws)
  <2>1. ws # <<>> /\ ~ws[1].left
    BY <1>1, <1>2, <1>3, <1>13, <1>14, SeqDomain DEF VmsGood
  <2>2. \A i \in DOMAIN ws : VmGood(ws[i])
    BY <1>1, <1>2, <1>3, <1>10, <1>12, <1>13
  <2>3. ASSUME NEW i \in 1 .. (n - 1)
        PROVE  ParentGood(ws[i], ws[i + 1])
    <3>1. CASE i = n - 1
      <4>1. ws[i] = v /\ ws[i + 1] = child
        BY <1>1, <1>2, <1>3, <1>12, <3>1
      <4> QED
        BY <1>6, <1>8, <1>9, <4>1 DEF ParentGood
    <3>2. CASE i # n - 1
      <4>1. /\ i \in 1 .. n /\ i + 1 \in 1 .. n /\ i # n /\ i + 1 # n
            /\ ws[i] = vms[i] /\ ParentGood(vms[i], vms[i + 1])
        BY <1>1, <1>2, <1>3, <1>12, <3>2 DEF VmsGood
      <4>2. ws[i + 1].left = vms[i + 1].left
        BY <1>14, <4>1
      <4> QED
        BY <4>1, <4>2 DEF ParentGood
    <3> QED
      BY <3>1, <3>2
  <2>4. ASSUME NEW h \in DOMAIN ws, NEW i \in DOMAIN ws, h < i
        PROVE  Inside(ws[h], ws[i])
    <3>1. Inside(vms[h], vms[i]) /\ h \in 1 .. n /\ i \in 1 .. n
      BY <1>1, <1>2, <1>3, <1>13, <2>4 DEF VmsGood
    <3> QED
      BY <1>14, <3>1 DEF Inside
  <2> QED
    BY <1>13, <2>1, <2>2, <2>3, <2>4 DEF VmsGood
<1>16. \A i \in DOMAIN ws : ws[i].frames = <<>> => ws[i].way = Normally
  <2> SUFFICES ASSUME NEW i \in 1 .. n, ws[i].frames = <<>> PROVE ws[i].way = Normally
    BY <1>13
  <2>1. vms[i].frames = <<>> /\ vms[i].way = Normally
    BY <1>1, <1>2, <1>3, <1>14
  <2>2. CASE i = n
    BY <1>8, <1>12, <2>1, <2>2 DEF last
  <2>3. CASE i = n - 1
    BY <1>6, <2>1, <2>3 DEF parent
  <2>4. CASE i # n /\ i # n - 1
    BY <1>12, <2>1, <2>4
  <2> QED
    BY <2>2, <2>3, <2>4
<1>17. Around
  BY <1>1, <1>2, <1>3, AroundIs DEF BlockEscapes
<1>18. ScopesOf(ws) = ScopesOf(vms)
  BY <1>13, <1>14, <1>2, SameScopes
<1> QED
  BY <1>11, <1>15, <1>16, <1>17, <1>18, RunningKeeps

LEMMA ReleaseBlockVmKeeps == Inv /\ ReleaseBlockVm => Inv'
<1> SUFFICES ASSUME Inv, ReleaseBlockVm PROVE Inv'
  OBVIOUS
<1>1. /\ VmsGood(vms) /\ Len(vms) \in Nat \ {0} /\ Last(vms) = vms[Len(vms)]
      /\ DOMAIN vms = 1 .. Len(vms)
  BY VmsAre DEF Inv
<1>2. Len(vms) # 1
  <2>1. Last(vms).left
    BY DEF ReleaseBlockVm
  <2> QED
    BY <1>1, <2>1 DEF VmsGood
<1>3. /\ task = "running" /\ Len(vms) > 1
      /\ \A i \in DOMAIN vms : vms[i].frames = <<>> => vms[i].way = Normally
  BY <1>2, SeveralRun, Zenon
<1>4. /\ VmsGood(vms') /\ Len(vms') = Len(vms) - 1
      /\ \A i \in 1 .. (Len(vms) - 1) : vms'[i] = vms[i]
  BY <1>1, <1>3, FrontVms DEF ReleaseBlockVm
<1>5. \A i \in DOMAIN vms' : vms'[i].frames = <<>> => vms'[i].way = Normally
  <2>1. DOMAIN vms' = 1 .. (Len(vms) - 1)
    BY <1>4, VmsAre
  <2> QED
    BY <1>1, <1>3, <1>4, <2>1
<1>6. Around
  BY <1>3, AroundIs DEF ReleaseBlockVm
<1> QED
  BY <1>4, <1>5, <1>6, RunningKeeps

LEMMA EndTaskKeeps == Inv /\ EndTask => Inv'
<1> SUFFICES ASSUME Inv, EndTask PROVE Inv'
  OBVIOUS
<1> DEFINE v == [Last(vms) EXCEPT !.frames = <<>>]
<1>1. /\ VmsGood(vms) /\ Len(vms) = 1 /\ Last(vms) = vms[1] /\ DOMAIN vms = {1}
      /\ vms[1] \in VmRecord /\ VmGood(vms[1]) /\ ~vms[1].left /\ task = "running"
  <2>1. Len(vms) = 1 /\ task = "running"
    BY DEF EndTask
  <2> QED
    BY <2>1, VmsAre DEF Inv, VmsGood
<1>2. <<>> \in Seq(FrameRecord)
  BY EmptySeq
<1>3. /\ v \in VmRecord /\ v.frames = <<>> /\ v.way = vms[1].way
      /\ v.escaped = vms[1].escaped /\ ~v.left
  BY <1>1, <1>2 DEF VmRecord
<1>4. vms' = <<v>>
  BY DEF EndTask
<1> HIDE DEF v
<1>5. /\ vms' \in Seq(VmRecord) /\ vms' # <<>> /\ Len(vms') = 1 /\ vms'[1] = v
      /\ DOMAIN vms' = {1}
  BY <1>3, <1>4
<1>6. FramesGood(<<>>)
  BY DEF FramesGood
<1>7. VmGood(v)
  BY <1>1, <1>3, <1>6 DEF VmGood
<1>8. VmsGood(vms')
  BY <1>3, <1>5, <1>7 DEF VmsGood
<1>9. v.way = Normally \/ v.escaped
  BY <1>1, <1>3 DEF EndTask, Inv, TaskGood
<1>10. program' = program /\ task' = "done" /\ UNCHANGED suppressed /\ outcome' = vms[1].way
  BY <1>1 DEF EndTask
<1>11. outcome' \in Reasons
  BY <1>1, <1>10 DEF VmRecord
<1>12. Normally' = Normally
  BY DEF Normally
<1>13. TaskGood'
  BY <1>3, <1>5, <1>9, <1>10, <1>12 DEF TaskGood
<1>14. VmsGood(vms)' /\ (suppressed \in Seq(Exceptions \X Exceptions))'
       /\ (outcome \in Reasons)'
  BY <1>8, <1>10, <1>11, SameProgram DEF Inv
<1> QED
  BY <1>10, <1>13, <1>14 DEF Inv

LEMMA StillKeeps ==
  ASSUME Inv, UNCHANGED <<program, vms, suppressed, outcome>>, TaskGood'
  PROVE  Inv'
<1>1. VmsGood(vms)' /\ (suppressed \in Seq(Exceptions \X Exceptions))'
      /\ (outcome \in Reasons)'
  BY SameProgram DEF Inv
<1> QED
  BY <1>1 DEF Inv

LEMMA ParkKeeps == Inv /\ Park => Inv'
<1> SUFFICES ASSUME Inv, Park PROVE Inv'
  OBVIOUS
<1>1. /\ Executes /\ Top.code = "body" /\ Len(vms) = 1
      /\ UNCHANGED <<program, vms, suppressed, outcome>> /\ task' = "parked"
      /\ task = "running"
  BY DEF Park, AtAct, Executes
<1>2. Frames # <<>> /\ vms[Active].way = Normally /\ Active = 1
  BY <1>1, ExecutesIs
<1>3. Normally' = Normally
  BY DEF Normally
<1>4. vms[1].frames # <<>> /\ vms[1].way = Normally /\ Last(vms[1].frames).code = "body"
  BY <1>1, <1>2 DEF Frames, Top
<1>5. TaskGood'
  BY <1>1, <1>3, <1>4 DEF TaskGood, Inv
<1> QED
  BY <1>1, <1>5, StillKeeps

LEMMA InvBegins == Init => Inv
<1> SUFFICES ASSUME Init PROVE Inv
  OBVIOUS
<1> DEFINE fs == <<Body(0)>>
           v == NewVm(Body(0))
<1>1. program \in Programs /\ vms = <<v>> /\ task = "running" /\ suppressed = <<>>
      /\ outcome = Normally
  BY DEF Init
<1>2. /\ Body(0) \in FrameRecord /\ FrameGood(Body(0)) /\ Body(0).code = "body"
  BY <1>1, BodyIs, ProgramFacts
<1>3. /\ fs \in Seq(FrameRecord) /\ Len(fs) = 1 /\ fs # <<>> /\ DOMAIN fs = {1}
      /\ fs[1] = Body(0)
  BY <1>2
<1>4. v.frames = fs /\ v.way = Normally /\ v.escaped = FALSE /\ v.left = FALSE
      /\ v \in VmRecord
  BY <1>3, ReasonsAre DEF NewVm, VmRecord
<1> HIDE DEF fs
<1>5. FramesGood(fs)
  BY <1>2, <1>3 DEF FramesGood
<1> HIDE DEF v
<1>6. VmGood(v)
  BY <1>4, <1>5 DEF VmGood
<1>7. /\ vms \in Seq(VmRecord) /\ vms # <<>> /\ Len(vms) = 1 /\ vms[1] = v
      /\ DOMAIN vms = {1}
  BY <1>1, <1>4
<1>8. VmsGood(vms)
  BY <1>4, <1>6, <1>7 DEF VmsGood
<1>9. TaskGood
  BY <1>1, <1>4, <1>7 DEF TaskGood
<1>10. suppressed \in Seq(Exceptions \X Exceptions) /\ outcome \in Reasons
  BY <1>1, EmptySeq, ReasonsAre
<1> QED
  BY <1>1, <1>8, <1>9, <1>10 DEF Inv

\* The steps that move a VM and no more.
MovingStep ==
  \/ CallMethod \/ EnterTry \/ ExecuteAct \/ EnsureInLine \/ RescueClause
  \/ RescueDoesNotMatch \/ EnsureClause \/ SleepEnds \/ SleepIsCancelled
  \/ PopFrame \/ EnterHandler \/ Escape

LEMMA MovingSteps == Inv /\ MovingStep => Moves
BY CallMethodMoves, EnterTryMoves, ExecuteActMoves, EnsureInLineMoves, RescueClauseMoves,
   RescueDoesNotMatchMoves, EnsureClauseMoves, SleepEndsMoves, SleepIsCancelledMoves,
   PopFrameMoves, EnterHandlerMoves, EscapeMoves
DEF MovingStep

LEMMA InvNext == Inv /\ [Next]_vars => Inv'
<1> SUFFICES ASSUME Inv, [Next]_vars PROVE Inv'
  OBVIOUS
<1>1. CASE MovingStep
  BY <1>1, MovingSteps, MovesKeep
<1>2. CASE UNCHANGED vars
  BY <1>2, StillKeeps DEF vars, TaskGood, Inv, Normally
<1> QED
  BY <1>1, <1>2, OpenScopeKeeps, CallBlockKeeps, BlockReturnsKeeps, BlockEscapesKeeps,
     ReleaseBlockVmKeeps, EndTaskKeeps, ParkKeeps
  DEF Next, Execute, MovingStep, Terminated

LEMMA InvAlways == Spec => []Inv
BY InvBegins, InvNext, PTL DEF Spec

\* The frames of a VM, each by itself and over the one below it.
LEMMA FrameTypes ==
  ASSUME Inv, NEW i \in DOMAIN vms, NEW j \in DOMAIN vms[i].frames
  PROVE  LET f == vms[i].frames[j] IN
           /\ f.code \in Codes /\ f.of \in 0 .. Depth
           /\ f.level \in 1 .. (Depth + 1)
           /\ f.step \in {"down", "after", "ensure", "return"}
           /\ f.scope # 0 => f.code = "body" /\ Kind(f.of) = "with"
           /\ f.pending.how \in {"end"} \cup
                (IF f.code = "ensure" THEN {"raise", "throw"} ELSE {})
           /\ f.lost \cup f.kept \subseteq Catches(Levels)
           /\ f.code # "body" =>
                /\ j > 1
                /\ vms[i].frames[j - 1].code # "ensure"
                /\ vms[i].frames[j - 1].step # "down"
<1> DEFINE fs == vms[i].frames
           f == fs[j]
<1>1. VmGood(vms[i]) /\ fs \in Seq(FrameRecord)
  BY VmsAre DEF Inv, VmsGood, VmRecord
<1>2. FramesGood(fs) /\ DOMAIN fs = 1 .. Len(fs) /\ Len(fs) \in Nat /\ j \in 1 .. Len(fs)
  BY <1>1, SeqDomain DEF VmGood
<1> HIDE DEF fs
<1>3. f \in FrameRecord /\ FrameGood(f)
  BY <1>1, <1>2, SeqDomain DEF FramesGood
<1>4. ASSUME f.code # "body"
      PROVE  j > 1 /\ fs[j - 1].code # "ensure" /\ fs[j - 1].step # "down"
  <2>1. j # 1
    BY <1>2, <1>4 DEF FramesGood
  <2>2. j - 1 \in 1 .. (Len(fs) - 1) /\ (j - 1) + 1 = j /\ j > 1
    BY <1>2, <2>1
  <2>3. Carries(fs[j - 1], fs[j])
    BY <1>2, <2>2 DEF FramesGood
  <2> QED
    BY <1>4, <2>2, <2>3 DEF Carries
<1> HIDE DEF f
<1>5. /\ f.code \in Codes /\ f.of \in 0 .. Depth /\ f.level \in 1 .. (Depth + 1)
      /\ f.step \in {"down", "after", "ensure", "return"}
      /\ f.lost \cup f.kept \subseteq Catches(Levels)
  BY <1>3 DEF FrameRecord
<1>6. /\ f.scope # 0 => f.code = "body" /\ Kind(f.of) = "with"
      /\ f.pending.how \in {"end"} \cup
           (IF f.code = "ensure" THEN {"raise", "throw"} ELSE {})
  BY <1>3 DEF FrameGood
<1> QED
  BY <1>4, <1>5, <1>6 DEF f, fs

\* A VM over its parent.
LEMMA ParentTypes ==
  ASSUME Inv, NEW i \in DOMAIN vms
  PROVE  /\ vms[i].left => i = Len(vms) /\ vms[i].escaped
         /\ i < Len(vms) =>
              /\ Last(vms[i].frames).code # "body" \/ vms[i + 1].left
                   \/ Kind(Last(vms[i].frames).level) = "block"
              /\ ~vms[i].escaped \/ vms[i + 1].left
<1>1. /\ VmsGood(vms) /\ DOMAIN vms = 1 .. Len(vms) /\ Len(vms) \in Nat \ {0}
      /\ VmGood(vms[i])
  BY VmsAre DEF Inv, VmsGood
<1>2. CASE i = Len(vms)
  BY <1>1, <1>2 DEF VmGood
<1>3. CASE i # Len(vms)
  <2>1. i \in 1 .. (Len(vms) - 1)
    BY <1>1, <1>3
  <2>2. ParentGood(vms[i], vms[i + 1])
    BY <1>1, <2>1 DEF VmsGood
  <2> QED
    BY <1>1, <2>2 DEF ParentGood, VmGood
<1> QED
  BY <1>2, <1>3

LEMMA InvTypes == Inv => TypeOK
<1> SUFFICES ASSUME Inv PROVE TypeOK
  OBVIOUS
<1>1. task \in {"running", "parked", "done"} /\ (task # "running" => Len(vms) = 1)
  BY DEF Inv, TaskGood
<1>2. \A s \in Range(suppressed) : s[1] \in Exceptions /\ s[2] \in Exceptions
  BY SeqDomain DEF Inv, Range
<1>3. outcome.how \in {"end", "raise", "throw", "fault"}
  BY ReasonsAre DEF Inv
<1> QED
  BY <1>1, <1>2, <1>3, FrameTypes, ParentTypes DEF TypeOK

(***************************************************************************)
(* Every VM has the frames of a program that is under way, whatever was    *)
(* raised, thrown, returned from or cancelled: a clause is never run on a  *)
(* frame that has not left its construct, a block VM that has been left is *)
(* the last one and the VM below it has been told, and what is pending is  *)
(* pending in an ensure clause.                                            *)
(***************************************************************************)
THEOREM FramesKeepTheirTypes == Spec => []TypeOK
BY InvAlways, InvTypes, PTL
-----------------------------------------------------------------------------
(* The scopes of the task-local context *)

LEMMA NoneIsOpen ==
  ASSUME program \in Programs, NEW c, NEW S, ScopesAre(c, S)
  PROVE  0 \notin S /\ S \subseteq Levels
<1> DEFINE R == [token : Levels, previous : 0 .. Depth]
           open == c.scopes
<1>1. open \in Seq(R) /\ S = {open[i].token : i \in DOMAIN open}
  BY DEF ScopesAre
<1>2. \A i \in DOMAIN open : open[i].token \in Levels
  <2> HIDE DEF R, open
  <2>1. \A i \in DOMAIN open : open[i] \in R
    BY <1>1, SeqDomain
  <2> QED
    BY <2>1 DEF R
<1>3. 0 \notin Levels
  BY ProgramFacts DEF Levels
<1> QED
  BY <1>1, <1>2, <1>3

LEMMA PushScope ==
  ASSUME program \in Programs, NEW c, NEW S, ScopesAre(c, S), NEW t \in Levels,
         \A s \in S : s < t
  PROVE  ScopesAre(Pushed(c, t), S \cup {t})
<1> DEFINE R == [token : Levels, previous : 0 .. Depth]
           open == c.scopes
           x == [token |-> t, previous |-> c.bound]
           opened == Append(open, x)
           d == Pushed(c, t)
           n == Len(open)
<1>1. d.scopes = opened /\ d.bound = t
  BY DEF Pushed
<1>2. /\ open \in Seq(R) /\ n \in Nat /\ DOMAIN open = 1 .. n
      /\ \A i \in 1 .. n : open[i] \in R
      /\ open = <<>> <=> n = 0
  <2>1. open \in Seq(R)
    BY DEF ScopesAre
  <2> HIDE DEF R, open
  <2> QED
    BY <2>1, SeqDomain
<1>3. /\ S = {open[i].token : i \in 1 .. n}
      /\ \A i, j \in 1 .. n : i < j => open[i].token < open[j].token
      /\ \A i \in 1 .. n : open[i].previous = IF i = 1 THEN 0 ELSE open[i - 1].token
      /\ c.bound = IF n = 0 THEN 0 ELSE open[n].token
  <2>1. open # <<>> => Last(open) = open[n]
    BY <1>2, LastIs
  <2> QED
    BY <1>2, <2>1 DEF ScopesAre
<1>4. Depth \in Nat
  BY ProgramFacts
<1>5. x \in R
  BY <1>2, <1>3, <1>4 DEF Levels
<1> HIDE DEF R, x
<1>6. /\ opened \in Seq(R) /\ Len(opened) = n + 1 /\ opened # <<>>
      /\ \A i \in 1 .. n : opened[i] = open[i]
      /\ opened[n + 1] = x /\ Last(opened) = x
  BY <1>2, <1>5, AppendIs
<1>7. DOMAIN opened = 1 .. (n + 1)
  BY <1>6, SeqDomain
<1>8. x.token = t /\ x.previous = c.bound
  BY DEF x
<1> HIDE DEF opened, n, open, d
<1>9. \A i \in 1 .. (n + 1) : i \in 1 .. n \/ i = n + 1
  BY <1>2
<1>10. {opened[i].token : i \in 1 .. (n + 1)} = S \cup {t}
  <2>1. \A i \in 1 .. n : i \in 1 .. (n + 1)
    BY <1>2
  <2>2. n + 1 \in 1 .. (n + 1)
    BY <1>2
  <2>3. ASSUME NEW s \in S \cup {t}
        PROVE  s \in {opened[i].token : i \in 1 .. (n + 1)}
    <3>1. CASE s = t
      BY <1>6, <1>8, <2>2, <3>1
    <3>2. CASE s \in S
      BY <1>3, <1>6, <2>1, <3>2
    <3> QED
      BY <3>1, <3>2
  <2>4. ASSUME NEW i \in 1 .. (n + 1)
        PROVE  opened[i].token \in S \cup {t}
    BY <1>3, <1>6, <1>8, <1>9
  <2> QED
    BY <2>3, <2>4
<1>11. \A i, j \in 1 .. (n + 1) : i < j => opened[i].token < opened[j].token
  <2> SUFFICES ASSUME NEW i \in 1 .. (n + 1), NEW j \in 1 .. (n + 1), i < j
               PROVE  opened[i].token < opened[j].token
    OBVIOUS
  <2>1. i \in 1 .. n
    BY <1>2
  <2>2. CASE j \in 1 .. n
    BY <1>3, <1>6, <2>1, <2>2
  <2>3. CASE j = n + 1
    BY <1>3, <1>6, <1>8, <2>1, <2>3
  <2> QED
    BY <1>9, <2>2, <2>3
<1>12. \A i \in 1 .. (n + 1) :
         opened[i].previous = IF i = 1 THEN 0 ELSE opened[i - 1].token
  <2> SUFFICES ASSUME NEW i \in 1 .. (n + 1)
               PROVE  opened[i].previous = IF i = 1 THEN 0 ELSE opened[i - 1].token
    OBVIOUS
  <2>1. i # 1 => i - 1 \in 1 .. n
    BY <1>2
  <2>2. CASE i \in 1 .. n
    BY <1>3, <1>6, <2>1, <2>2
  <2>3. CASE i = n + 1
    <3>1. opened[i].previous = c.bound /\ (i = 1 <=> n = 0) /\ i - 1 = n
      BY <1>2, <1>6, <1>8, <2>3
    <3> QED
      BY <1>3, <1>6, <2>1, <3>1
  <2> QED
    BY <1>9, <2>2, <2>3
<1>13. ScopesAre(d, S \cup {t})
  <2>1. /\ d.scopes \in Seq([token : Levels, previous : 0 .. Depth])
        /\ DOMAIN d.scopes = 1 .. (n + 1)
    BY <1>1, <1>6, <1>7 DEF R
  <2>2. {d.scopes[i].token : i \in DOMAIN d.scopes} = S \cup {t}
    BY <1>1, <1>10, <2>1
  <2>3. /\ \A i, j \in DOMAIN d.scopes : i < j => d.scopes[i].token < d.scopes[j].token
        /\ \A i \in DOMAIN d.scopes :
             d.scopes[i].previous = IF i = 1 THEN 0 ELSE d.scopes[i - 1].token
        /\ d.bound = IF d.scopes = <<>> THEN 0 ELSE Last(d.scopes).token
    BY <1>1, <1>6, <1>8, <1>11, <1>12, <2>1
  <2> QED
    BY <2>1, <2>2, <2>3 DEF ScopesAre
<1> QED
  BY <1>13 DEF d

LEMMA PopScope ==
  ASSUME program \in Programs, NEW c, NEW S, ScopesAre(c, S), NEW t,
         t # 0 => t \in S /\ \A s \in S : s <= t
  PROVE  ScopesAre(Popped(c, t), S \ {t})
<1> DEFINE R == [token : Levels, previous : 0 .. Depth]
           open == c.scopes
           rest == Front(open)
           d == Popped(c, t)
           n == Len(open)
<1>1. 0 \notin S /\ S \subseteq Levels
  BY NoneIsOpen
<1>2. /\ open \in Seq(R) /\ n \in Nat /\ DOMAIN open = 1 .. n
      /\ \A i \in 1 .. n : open[i] \in R
      /\ open = <<>> <=> n = 0
  <2>1. open \in Seq(R)
    BY DEF ScopesAre
  <2> HIDE DEF R, open
  <2> QED
    BY <2>1, SeqDomain
<1> HIDE DEF R
<1>3. open # <<>> => Last(open) = open[n] /\ n \in 1 .. n
  <2>1. open # <<>> => Last(open) = open[n]
    BY <1>2, LastIs
  <2>2. n # 0 => n \in 1 .. n
    BY <1>2
  <2> QED
    BY <1>2, <2>1, <2>2
<1>4. /\ S = {open[i].token : i \in 1 .. n}
      /\ \A i, j \in 1 .. n : i < j => open[i].token < open[j].token
      /\ \A i \in 1 .. n : open[i].previous = IF i = 1 THEN 0 ELSE open[i - 1].token
  BY <1>2 DEF ScopesAre
<1>5. CASE t = 0
  <2>1. open # <<>> => Last(open).token # 0
    BY <1>1, <1>3, <1>4
  <2>2. Popped(c, t) = c /\ S \ {t} = S
    BY <1>1, <1>5, <2>1 DEF Popped
  <2> QED
    BY <2>2
<1>6. CASE t # 0
  <2>1. PICK k \in 1 .. n : t = open[k].token
    BY <1>4, <1>6
  <2>2. open # <<>> /\ n \in 1 .. n
    BY <1>2, <2>1
  <2>3. \A i \in 1 .. n : open[i].token \in Nat
    <3>1. Levels \subseteq Nat
      BY ProgramFacts DEF Levels
    <3> QED
      BY <1>1, <1>4, <3>1
  <2>4. k = n
    <3> SUFFICES ASSUME k # n PROVE FALSE
      OBVIOUS
    <3>1. k < n
      BY <1>2
    <3>2. t < open[n].token /\ open[n].token <= t
      BY <1>4, <1>6, <2>1, <2>2, <3>1
    <3> QED
      BY <2>1, <2>2, <2>3, <3>2
  <2>5. Last(open).token = t
    BY <1>3, <2>1, <2>2, <2>4
  <2>6. d.scopes = rest /\ d.bound = open[n].previous
    BY <1>3, <2>2, <2>5 DEF Popped
  <2>7. /\ rest \in Seq(R) /\ Len(rest) = n - 1 /\ DOMAIN rest = 1 .. (n - 1)
        /\ \A i \in 1 .. (n - 1) : rest[i] = open[i]
    BY <1>2, <2>2, LastIs, SeqDomain
  <2> HIDE DEF rest, n, open, d
  <2>8. rest = <<>> <=> n = 1
    <3>1. rest = <<>> <=> Len(rest) = 0
      BY <2>7, SeqDomain
    <3> QED
      BY <1>2, <2>7, <3>1
  <2>9. rest # <<>> => Last(rest) = rest[n - 1] /\ n - 1 \in 1 .. (n - 1)
    <3>1. rest # <<>> => Last(rest) = rest[Len(rest)]
      BY <2>7, LastIs
    <3>2. n # 1 => n - 1 \in 1 .. (n - 1)
      BY <1>2, <2>2
    <3> QED
      BY <2>7, <2>8, <3>1, <3>2
  <2>10. \A i \in 1 .. n : i \in 1 .. (n - 1) \/ i = n
    BY <1>2
  <2>11. \A i \in 1 .. (n - 1) : i \in 1 .. n /\ i < n
    BY <1>2
  <2>12. \A i \in 1 .. (n - 1) : open[i].token # t
    <3> SUFFICES ASSUME NEW i \in 1 .. (n - 1) PROVE open[i].token # t
      OBVIOUS
    <3>1. open[i].token < open[n].token /\ open[i].token \in Nat /\ open[n].token \in Nat
      BY <1>4, <2>2, <2>3, <2>11
    <3> QED
      BY <2>1, <2>4, <3>1
  <2>13. {rest[i].token : i \in 1 .. (n - 1)} = S \ {t}
    <3>1. ASSUME NEW s \in S \ {t}
          PROVE  s \in {rest[i].token : i \in 1 .. (n - 1)}
      BY <1>4, <2>1, <2>4, <2>7, <2>10
    <3>2. ASSUME NEW i \in 1 .. (n - 1)
          PROVE  rest[i].token \in S \ {t}
      BY <1>4, <2>7, <2>11, <2>12
    <3> QED
      BY <3>1, <3>2
  <2>14. \A i, j \in 1 .. (n - 1) : i < j => rest[i].token < rest[j].token
    BY <1>4, <2>7, <2>11
  <2>15. \A i \in 1 .. (n - 1) :
           rest[i].previous = IF i = 1 THEN 0 ELSE rest[i - 1].token
    <3> SUFFICES ASSUME NEW i \in 1 .. (n - 1)
                 PROVE  rest[i].previous = IF i = 1 THEN 0 ELSE rest[i - 1].token
      OBVIOUS
    <3>1. i # 1 => i - 1 \in 1 .. (n - 1)
      BY <1>2
    <3> QED
      BY <1>4, <2>7, <2>11, <3>1
  <2>16. d.bound = IF rest = <<>> THEN 0 ELSE Last(rest).token
    BY <1>4, <2>2, <2>6, <2>7, <2>8, <2>9
  <2>17. ScopesAre(d, S \ {t})
    <3>1. /\ d.scopes \in Seq([token : Levels, previous : 0 .. Depth])
          /\ DOMAIN d.scopes = 1 .. (n - 1)
      BY <2>6, <2>7 DEF R
    <3>2. {d.scopes[i].token : i \in DOMAIN d.scopes} = S \ {t}
      BY <2>6, <2>13, <3>1
    <3>3. /\ \A i, j \in DOMAIN d.scopes : i < j => d.scopes[i].token < d.scopes[j].token
          /\ \A i \in DOMAIN d.scopes :
               d.scopes[i].previous = IF i = 1 THEN 0 ELSE d.scopes[i - 1].token
          /\ d.bound = IF d.scopes = <<>> THEN 0 ELSE Last(d.scopes).token
      BY <2>6, <2>14, <2>15, <2>16, <3>1
    <3> QED
      BY <3>1, <3>2, <3>3 DEF ScopesAre
  <2> QED
    BY <2>17 DEF d
<1> QED
  BY <1>5, <1>6

\* The scopes of the frames of a VM rise from frame to frame.
LEMMA ScopesRise ==
  ASSUME NEW fs \in Seq(FrameRecord), FramesGood(fs), NEW j \in DOMAIN fs,
         NEW k \in DOMAIN fs, j < k, fs[k].scope # 0
  PROVE  fs[j].scope < fs[k].scope
<1>1. /\ fs[j] \in FrameRecord /\ FrameGood(fs[j])
      /\ fs[k] \in FrameRecord /\ FrameGood(fs[k])
  BY SeqDomain DEF FramesGood
<1>2. fs[k].scope = fs[k].of /\ fs[k].code = "body" /\ fs[k].of \in Nat
  BY <1>1 DEF FrameGood, FrameRecord
<1>3. fs[j].of < fs[k].of
  BY <1>2 DEF FramesGood
<1>4. (fs[j].scope = 0 \/ fs[j].scope = fs[j].of) /\ fs[j].of \in Nat
  BY <1>1 DEF FrameGood, FrameRecord
<1>5. fs[k].of # 0
  BY <1>2
<1> QED
  BY <1>2, <1>3, <1>4, <1>5

\* The recursion of AllPopped has a solution for frames of every number.
LEMMA AllPoppedUnfolds ==
  ASSUME NEW c, NEW fs, Len(fs) \in Nat
  PROVE  \E left : /\ AllPopped(c, fs) = left[Len(fs)] /\ left[0] = c
                   /\ \A n \in 0 .. (Len(fs) - 1) :
                        left[n + 1] = Popped(left[n], fs[Len(fs) - n].scope)
<1> DEFINE m == Len(fs)
           Step(f, n) == IF n = 0 THEN c ELSE Popped(f[n - 1], fs[m + 1 - n].scope)
           Is(f) == f = [n \in 0 .. m |-> Step(f, n)]
           L == CHOOSE f : Is(f)
           Solved == {k \in 0 .. m : \E f : f = [n \in 0 .. k |-> Step(f, n)]}
<1>1. m \in Nat
  OBVIOUS
<1>2. AllPopped(c, fs) = L[m]
  BY DEF AllPopped
<1> HIDE DEF m, L
<1>3. 0 \in Solved
  <2> DEFINE f == [n \in 0 .. 0 |-> c]
  <2>1. \A n \in 0 .. 0 : Step(f, n) = c
    OBVIOUS
  <2>2. f = [n \in 0 .. 0 |-> Step(f, n)]
    <3> HIDE DEF Step
    <3> QED
      BY <2>1
  <2>3. 0 \in 0 .. m
    BY <1>1
  <2> HIDE DEF f, Step
  <2> QED
    BY <2>2, <2>3
<1>4. ASSUME NEW k \in 0 .. (m - 1), k \in Solved
      PROVE  k + 1 \in Solved
  <2>1. PICK f : f = [n \in 0 .. k |-> Step(f, n)]
    BY <1>4
  <2> DEFINE g == [n \in 0 .. (k + 1) |-> IF n = k + 1 THEN Step(f, n) ELSE f[n]]
  <2>2. ASSUME NEW n \in 0 .. (k + 1)
        PROVE  g[n] = Step(g, n)
    <3>1. CASE n = 0
      <4>1. g[n] = f[n] /\ n \in 0 .. k
        BY <1>1, <3>1
      <4>2. f[n] = Step(f, n)
        BY <2>1, <4>1
      <4> QED
        BY <3>1, <4>1, <4>2
    <3>2. CASE n # 0
      <4>1. n - 1 \in 0 .. k /\ n - 1 \in 0 .. (k + 1) /\ n - 1 # k + 1
        BY <1>1, <3>2
      <4>2. g[n - 1] = f[n - 1]
        BY <1>1, <4>1
      <4>3. g[n] = Step(f, n)
        <5>1. CASE n = k + 1
          BY <1>1, <5>1
        <5>2. CASE n # k + 1
          <6>1. n \in 0 .. k /\ g[n] = f[n]
            BY <1>1, <5>2
          <6> HIDE DEF g
          <6> QED
            BY <2>1, <6>1
        <5> QED
          BY <5>1, <5>2
      <4> HIDE DEF g
      <4> QED
        BY <3>2, <4>2, <4>3
    <3> QED
      BY <3>1, <3>2
  <2>3. g = [n \in 0 .. (k + 1) |-> Step(g, n)]
    <3>1. g = [n \in 0 .. (k + 1) |-> g[n]]
      OBVIOUS
    <3> HIDE DEF g, Step
    <3> QED
      BY <2>2, <3>1
  <2>4. k + 1 \in 0 .. m
    BY <1>1
  <2> HIDE DEF g, Step
  <2> QED
    BY <2>3, <2>4
<1>5. \A k \in 0 .. m : k \in Solved
  <2> HIDE DEF Solved
  <2> QED
    BY <1>1, <1>3, <1>4, CountingUp
<1>6. m \in Solved
  <2>1. m \in 0 .. m
    BY <1>1
  <2> HIDE DEF Solved
  <2> QED
    BY <1>5, <2>1
<1>7. Is(L)
  <2>1. \E f : Is(f)
    BY <1>6
  <2> HIDE DEF Is
  <2> QED
    BY <2>1 DEF L
<1>8. \A n \in 0 .. m : L[n] = Step(L, n)
  BY <1>7
<1>9. L[0] = c
  BY <1>1, <1>8
<1>10. ASSUME NEW n \in 0 .. (m - 1)
      PROVE  L[n + 1] = Popped(L[n], fs[m - n].scope)
  <2>1. n + 1 \in 0 .. m /\ n + 1 # 0 /\ (n + 1) - 1 = n /\ m + 1 - (n + 1) = m - n
    BY <1>1
  <2>2. L[n + 1] = Step(L, n + 1)
    BY <1>8, <2>1
  <2> QED
    BY <2>1, <2>2
<1> QED
  BY <1>2, <1>9, <1>10 DEF m

\* The scopes of a VM that ends leave those below it, which were opened before.
LEMMA AllPoppedIs ==
  ASSUME program \in Programs, NEW fs \in Seq(FrameRecord), FramesGood(fs), NEW S,
         NEW c, ScopesAre(c, S \cup Scopes(fs)), \A s \in S, t \in Scopes(fs) : s < t
  PROVE  ScopesAre(AllPopped(c, fs), S)
<1> DEFINE m == Len(fs)
           Open(n) == S \cup ({fs[j].scope : j \in 1 .. (m - n)} \ {0})
<1>1. m \in Nat /\ DOMAIN fs = 1 .. m /\ \A j \in 1 .. m : fs[j] \in FrameRecord
  BY SeqDomain
<1>2. PICK L : /\ AllPopped(c, fs) = L[m] /\ L[0] = c
               /\ \A n \in 0 .. (m - 1) : L[n + 1] = Popped(L[n], fs[m - n].scope)
  <2>1. Len(fs) \in Nat
    BY <1>1
  <2> QED
    BY <2>1, AllPoppedUnfolds
<1> DEFINE Right == {n \in 0 .. m : ScopesAre(L[n], Open(n))}
<1>3. 0 \notin S /\ Open(0) = S \cup Scopes(fs)
  <2>1. 0 \notin S \cup Scopes(fs)
    BY NoneIsOpen
  <2>2. m - 0 = m
    BY <1>1
  <2>3. Scopes(fs) = {fs[j].scope : j \in 1 .. m} \ {0}
    BY <1>1 DEF Scopes, Range
  <2> HIDE DEF m
  <2> QED
    BY <2>1, <2>2, <2>3
<1>4. 0 \in Right
  <2>1. L[0] = c /\ 0 \in 0 .. m
    BY <1>1, <1>2
  <2> HIDE DEF Open
  <2> QED
    BY <1>3, <2>1
<1>5. ASSUME NEW n \in 0 .. (m - 1), n \in Right
      PROVE  n + 1 \in Right
  <2> DEFINE k == m - n
             t == fs[k].scope
  <2> HIDE DEF m
  <2>1. k \in 1 .. m /\ n + 1 \in 0 .. m /\ m - (n + 1) = k - 1
    BY <1>1
  <2>2. L[n + 1] = Popped(L[n], t)
    BY <1>2
  <2>3. ScopesAre(L[n], Open(n))
    BY <1>5
  <2>4. Open(n) = S \cup ({fs[j].scope : j \in 1 .. k} \ {0})
    OBVIOUS
  <2>5. Open(n + 1) = S \cup ({fs[j].scope : j \in 1 .. (k - 1)} \ {0})
    BY <2>1
  <2> HIDE DEF Open, k
  <2>6. \A j \in 1 .. k : j \in 1 .. m /\ (j \in 1 .. (k - 1) \/ j = k)
    BY <1>1, <2>1
  <2>7. \A j \in 1 .. (k - 1) : j \in 1 .. k /\ j < k
    BY <2>1
  <2>8. k \in 1 .. k
    BY <2>1
  <2>9. t # 0 => t \in Scopes(fs)
    BY <1>1, <2>1 DEF Scopes, Range
  <2>10. \A j \in 1 .. (k - 1) : t # 0 => fs[j].scope < t
    BY <1>1, <2>1, <2>6, <2>7, ScopesRise
  <2>11. \A j \in 1 .. k : fs[j].scope \in Nat
    BY <1>1, <2>6 DEF FrameRecord
  <2>12. t \in Nat
    BY <2>8, <2>11
  <2>13. \A s \in S : s \in Nat /\ (t # 0 => s < t /\ s # t)
    <3>1. S \subseteq Nat
      <4>1. S \subseteq Levels /\ Levels \subseteq Nat
        BY NoneIsOpen, ProgramFacts DEF Levels
      <4> QED
        BY <4>1
    <3> QED
      BY <2>9, <2>12, <3>1
  <2> HIDE DEF t
  <2>14. t # 0 => t \in Open(n) /\ \A s \in Open(n) : s <= t
    <3> SUFFICES ASSUME t # 0 PROVE t \in Open(n) /\ \A s \in Open(n) : s <= t
      OBVIOUS
    <3>1. t \in Open(n)
      BY <2>4, <2>8 DEF t
    <3>2. ASSUME NEW s \in Open(n)
          PROVE  s <= t
      <4>1. CASE s \in S
        BY <2>12, <2>13, <4>1
      <4>2. CASE s \notin S
        <5>1. PICK j \in 1 .. k : s = fs[j].scope
          BY <2>4, <4>2
        <5>2. CASE j = k
          BY <2>12, <5>1, <5>2 DEF t
        <5>3. CASE j # k
          <6>1. s < t /\ s \in Nat
            BY <2>6, <2>10, <2>11, <5>1, <5>3
          <6> QED
            BY <2>12, <6>1
        <5> QED
          BY <5>2, <5>3
      <4> QED
        BY <4>1, <4>2
    <3> QED
      BY <3>1, <3>2
  <2>15. Open(n) \ {t} = Open(n + 1)
    <3>1. ASSUME NEW s \in Open(n) \ {t}
          PROVE  s \in Open(n + 1)
      <4>1. CASE s \in S
        BY <2>5, <4>1
      <4>2. CASE s \notin S
        <5>1. PICK j \in 1 .. k : s = fs[j].scope /\ s # 0
          BY <2>4, <4>2
        <5>2. j \in 1 .. (k - 1)
          BY <2>6, <5>1 DEF t
        <5> QED
          BY <2>5, <5>1, <5>2
      <4> QED
        BY <4>1, <4>2
    <3>2. ASSUME NEW s \in Open(n + 1)
          PROVE  s \in Open(n) \ {t}
      <4>1. CASE s \in S
        BY <1>3, <2>4, <2>13, <4>1
      <4>2. CASE s \notin S
        <5>1. PICK j \in 1 .. (k - 1) : s = fs[j].scope /\ s # 0
          BY <2>5, <4>2
        <5>2. s \in Open(n)
          BY <2>4, <2>7, <5>1
        <5>3. s # t
          <6>1. t # 0 => s < t /\ s \in Nat
            BY <2>7, <2>10, <2>11, <5>1
          <6> QED
            BY <2>12, <5>1, <6>1
        <5> QED
          BY <5>2, <5>3
      <4> QED
        BY <4>1, <4>2
    <3> QED
      BY <3>1, <3>2
  <2>16. ScopesAre(L[n + 1], Open(n + 1))
    <3>1. ScopesAre(Popped(L[n], t), Open(n) \ {t})
      BY <2>3, <2>14, PopScope
    <3> QED
      BY <2>2, <2>15, <3>1 DEF t
  <2> QED
    BY <2>1, <2>16
<1>6. \A n \in 0 .. m : n \in Right
  <2> HIDE DEF Right, m
  <2> QED
    BY <1>1, <1>4, <1>5, CountingUp
<1>7. m \in 0 .. m /\ m - m = 0
  BY <1>1
<1>8. ScopesAre(L[m], Open(m))
  BY <1>6, <1>7
<1>9. Open(m) = S
  BY <1>7
<1> QED
  BY <1>2, <1>8, <1>9

LEMMA OpenScopesAre == OpenScopes = ScopesOf(vms)
<1>1. Range(vms) = {vms[i] : i \in DOMAIN vms}
  BY DEF Range
<1>2. ASSUME NEW x \in OpenScopes
      PROVE  x \in ScopesOf(vms)
  <2>1. PICK i \in DOMAIN vms : \E f \in Range(vms[i].frames) : x = f.scope /\ x # 0
    BY <1>1 DEF OpenScopes
  <2>2. x \in Scopes(vms[i].frames)
    BY <2>1 DEF Scopes
  <2> QED
    BY <2>2 DEF ScopesOf
<1>3. ASSUME NEW x \in ScopesOf(vms)
      PROVE  x \in OpenScopes
  <2>1. PICK i \in DOMAIN vms : x \in Scopes(vms[i].frames)
    BY DEF ScopesOf
  <2>2. PICK f \in Range(vms[i].frames) : x = f.scope /\ x # 0
    BY <2>1 DEF Scopes
  <2> QED
    BY <1>1, <2>2 DEF OpenScopes
<1> QED
  BY <1>2, <1>3

\* A scope is that of a body of TaskLocal.with.
LEMMA ScopeIs ==
  ASSUME program \in Programs, NEW v \in VmRecord, VmGood(v), NEW t \in Scopes(v.frames)
  PROVE  /\ t \in Levels /\ Kind(t) = "with" /\ t \in Bodies(v.frames)
         /\ v.frames # <<>> /\ (v.frames[1].of = t \/ v.frames[1].of < t)
<1> DEFINE fs == v.frames
<1>1. fs \in Seq(FrameRecord) /\ FramesGood(fs)
  BY DEF VmRecord, VmGood
<1>2. /\ DOMAIN fs = 1 .. Len(fs) /\ Len(fs) \in Nat /\ (fs = <<>> <=> Len(fs) = 0)
      /\ \A j \in DOMAIN fs : fs[j] \in FrameRecord /\ FrameGood(fs[j])
  BY <1>1, SeqDomain DEF FramesGood
<1>3. PICK j \in DOMAIN fs : t = fs[j].scope /\ t # 0
  BY DEF Scopes, Range
<1> HIDE DEF fs
<1>4. fs[j].code = "body" /\ Kind(fs[j].of) = "with" /\ t = fs[j].of
  BY <1>2, <1>3 DEF FrameGood
<1>5. t \in 0 .. Depth /\ Depth \in Nat
  BY <1>2, <1>4, ProgramFacts DEF FrameRecord
<1>6. t \in Levels
  BY <1>3, <1>5 DEF Levels
<1>7. t \in Bodies(fs)
  BY <1>4 DEF Bodies
<1>8. 1 \in DOMAIN fs /\ fs # <<>>
  BY <1>2, <1>3
<1>9. fs[1].of = t \/ fs[1].of < t
  <2>1. CASE j = 1
    BY <1>4, <2>1
  <2>2. CASE j # 1
    <3>1. 1 < j
      BY <1>2, <2>2
    <3> QED
      BY <1>1, <1>4, <1>8, <3>1 DEF FramesGood
  <2> QED
    BY <2>1, <2>2
<1> QED
  BY <1>4, <1>6, <1>7, <1>8, <1>9 DEF fs

\* Scopes of two VMs are those of a block within a scope.
LEMMA ScopesAbove ==
  ASSUME program \in Programs, VmsGood(vms), NEW h \in DOMAIN vms, NEW i \in DOMAIN vms,
         h < i, NEW s \in Scopes(vms[h].frames), NEW t \in Scopes(vms[i].frames)
  PROVE  s < t /\ ScopesEntangled
<1> DEFINE b == vms[i].frames[1].of
<1>1. /\ s \in Levels /\ Kind(s) = "with" /\ s \in Bodies(vms[h].frames)
      /\ t \in Levels /\ Kind(t) = "with" /\ vms[i].frames # <<>> /\ (b = t \/ b < t)
  BY VmsAre, ScopeIs
<1>2. Inside(vms[h], vms[i])
  BY DEF VmsGood
<1>3. b \in Levels /\ Kind(b) = "block" /\ s < b
  BY <1>1, <1>2 DEF Inside
<1> HIDE DEF b
<1>4. b < t
  BY <1>1, <1>3
<1>5. s \in Int /\ b \in Int /\ t \in Int
  BY <1>1, <1>3, ProgramFacts DEF Levels
<1> QED
  BY <1>1, <1>3, <1>4, <1>5 DEF ScopesEntangled

\* The scopes before and after a step of the VM in control.
LEMMA PlacedScopes ==
  ASSUME VmsGood(vms), NEW v, Follows(v), SetVm(v)
  PROVE  \E S : /\ ScopesOf(vms) = S \cup Scopes(Frames)
                /\ ScopesOf(vms') = S \cup Scopes(v.frames)
                /\ \A s \in S : \E i \in DOMAIN vms :
                     i # Active /\ s \in Scopes(vms[i].frames)
<1> DEFINE S == UNION {Scopes(vms[i].frames) : i \in DOMAIN vms \ {Active}}
<1>1. /\ VmsGood(vms') /\ Len(vms') = Len(vms) /\ vms'[Active] = v
      /\ \A i \in DOMAIN vms : i # Active => vms'[i] = vms[i]
  BY SetVmPlaces
<1>2. DOMAIN vms' = DOMAIN vms /\ Active \in DOMAIN vms
  BY <1>1, VmsAre, ActiveIs
<1>3. ScopesOf(vms) = S \cup Scopes(Frames)
  BY <1>2 DEF ScopesOf, Frames
<1>4. ScopesOf(vms') = S \cup Scopes(v.frames)
  BY <1>1, <1>2 DEF ScopesOf
<1>5. \A s \in S : \E i \in DOMAIN vms : i # Active /\ s \in Scopes(vms[i].frames)
  OBVIOUS
<1> HIDE DEF S
<1> QED
  BY <1>3, <1>4, <1>5

LEMMA MovesScopes ==
  ASSUME Inv, Moves, ~ScopesEntangled, ScopesAre(context, ScopesOf(vms))
  PROVE  ScopesAre(context', ScopesOf(vms'))
<1>1. PICK v : Follows(v) /\ SetVm(v) /\ (ScopesStay(v.frames) \/ ScopesPop(v.frames))
  BY DEF Moves
<1>2. VmsGood(vms) /\ program \in Programs
  BY DEF Inv
<1>3. PICK S : /\ ScopesOf(vms) = S \cup Scopes(Frames)
               /\ ScopesOf(vms') = S \cup Scopes(v.frames)
               /\ \A s \in S : \E i \in DOMAIN vms :
                    i # Active /\ s \in Scopes(vms[i].frames)
  BY <1>1, <1>2, PlacedScopes
<1>4. CASE ScopesStay(v.frames)
  BY <1>3, <1>4 DEF ScopesStay
<1>5. CASE ScopesPop(v.frames)
  <2> DEFINE t == Top.scope
  <2>1. /\ Frames # <<>> /\ Scopes(v.frames) = Scopes(Frames) \ {t}
        /\ context' = Popped(context, t)
    BY <1>5 DEF ScopesPop
  <2>2. /\ Frames \in Seq(FrameRecord) /\ FramesGood(Frames) /\ Top \in FrameRecord
        /\ Top = Frames[Len(Frames)] /\ DOMAIN Frames = 1 .. Len(Frames)
        /\ Len(Frames) \in Nat
    BY <1>2, <2>1, TopIs
  <2>3. t \in Nat
    BY <2>2 DEF FrameRecord
  <2>4. 0 \notin S
    BY <1>2, <1>3, NoneIsOpen
  <2>5. t # 0 => /\ t \in Scopes(Frames) /\ \A s \in Scopes(Frames) : s <= t
                 /\ S = {}
    <3> SUFFICES ASSUME t # 0
                 PROVE  t \in Scopes(Frames) /\ (\A s \in Scopes(Frames) : s <= t) /\ S = {}
      OBVIOUS
    <3>1. t \in Scopes(Frames)
      BY <2>1, <2>2, LastScope DEF Top
    <3>2. ASSUME NEW s \in Scopes(Frames)
          PROVE  s <= t
      <4>1. PICK j \in DOMAIN Frames : s = Frames[j].scope
        BY DEF Scopes, Range
      <4>2. CASE j = Len(Frames)
        BY <2>2, <2>3, <4>1, <4>2
      <4>3. CASE j # Len(Frames)
        <5>1. s < t
          BY <2>2, <4>1, <4>3, ScopesRise
        <5>2. s \in Nat
          <6>1. Frames[j] \in FrameRecord
            BY <2>2, SeqDomain
          <6> QED
            BY <4>1, <6>1 DEF FrameRecord
        <5> QED
          BY <2>3, <5>1, <5>2
      <4> QED
        BY <4>2, <4>3
    <3>3. ASSUME NEW s \in S
          PROVE  FALSE
      <4>1. PICK i \in DOMAIN vms : i # Active /\ s \in Scopes(vms[i].frames)
        BY <1>3
      <4>2. Active \in DOMAIN vms /\ t \in Scopes(vms[Active].frames)
        BY <1>2, <3>1, ActiveIs DEF Frames
      <4>3. i < Active \/ Active < i
        BY <1>2, <4>1, <4>2, VmsAre
      <4> HIDE DEF t
      <4> QED
        BY <1>2, <4>1, <4>2, <4>3, ScopesAbove
    <3> QED
      BY <3>1, <3>2, <3>3
  <2> HIDE DEF t
  <2>6. t # 0 => /\ t \in ScopesOf(vms) /\ \A s \in ScopesOf(vms) : s <= t
    BY <1>3, <2>5
  <2>7. ScopesAre(Popped(context, t), ScopesOf(vms) \ {t})
    BY <1>2, <2>6, PopScope
  <2>8. ScopesOf(vms') = ScopesOf(vms) \ {t}
    BY <1>3, <2>1, <2>4, <2>5
  <2> QED
    BY <2>1, <2>7, <2>8
<1> QED
  BY <1>1, <1>4, <1>5

LEMMA OpenScopeScopes ==
  ASSUME Inv, OpenScope, ScopesAre(context, ScopesOf(vms))
  PROVE  ScopesAre(context', ScopesOf(vms'))
<1> DEFINE t == Top.level
<1>1. PICK v : /\ Follows(v) /\ SetVm(v) /\ Scopes(v.frames) = Scopes(Frames) \cup {t}
               /\ Active = Len(vms) /\ t \in Levels /\ Frames # <<>> /\ Top.of < t
               /\ Top.code = "body" /\ Top \in FrameRecord
  BY OpenScopeIs
<1>2. VmsGood(vms) /\ program \in Programs
  BY DEF Inv
<1>3. PICK S : /\ ScopesOf(vms) = S \cup Scopes(Frames)
               /\ ScopesOf(vms') = S \cup Scopes(v.frames)
  BY <1>1, <1>2, PlacedScopes
<1>4. ScopesOf(vms') = ScopesOf(vms) \cup {t}
  BY <1>1, <1>3
<1>5. context' = Pushed(context, t)
  BY DEF OpenScope
<1>6. ASSUME NEW s \in ScopesOf(vms)
      PROVE  s < t
  <2>1. PICK h \in DOMAIN vms : s \in Scopes(vms[h].frames)
    BY DEF ScopesOf
  <2>2. s \in Bodies(vms[h].frames)
    BY <1>2, <2>1, VmsAre, ScopeIs
  <2>3. s <= Top.of /\ s \in Nat
    BY <1>1, <1>2, <2>2, BodiesBelow
  <2>4. Top.of \in Nat /\ t \in Int
    BY <1>1 DEF FrameRecord
  <2> HIDE DEF t
  <2> QED
    BY <1>1, <2>3, <2>4
<1> HIDE DEF t
<1> QED
  BY <1>1, <1>2, <1>4, <1>5, <1>6, PushScope

LEMMA ReleaseBlockVmScopes ==
  ASSUME Inv, ReleaseBlockVm, ScopesAre(context, ScopesOf(vms))
  PROVE  ScopesAre(context', ScopesOf(vms'))
<1> DEFINE n == Len(vms) - 1
           fs == vms[n + 1].frames
<1>1. /\ VmsGood(vms) /\ Len(vms) \in Nat \ {0} /\ Last(vms) = vms[Len(vms)]
      /\ DOMAIN vms = 1 .. Len(vms) /\ program \in Programs
      /\ \A i \in DOMAIN vms : vms[i] \in VmRecord /\ VmGood(vms[i])
  BY VmsAre DEF Inv
<1>2. Len(vms) > 1
  <2>1. Last(vms).left
    BY DEF ReleaseBlockVm
  <2>2. Len(vms) # 1
    BY <1>1, <2>1 DEF VmsGood
  <2> QED
    BY <1>1, <2>2
<1>3. /\ VmsGood(vms') /\ Len(vms') = n
      /\ \A i \in 1 .. n : vms'[i] = vms[i]
  <2>1. vms' = Front(vms)
    BY DEF ReleaseBlockVm
  <2> QED
    BY <1>1, <1>2, <2>1, FrontVms
<1>4. DOMAIN vms' = 1 .. n
  BY <1>3, VmsAre
<1>5. n \in Nat /\ n + 1 = Len(vms) /\ DOMAIN vms = 1 .. (n + 1) /\ n + 1 \in DOMAIN vms
  BY <1>1
<1>6. context' = AllPopped(context, fs)
  BY <1>1, <1>5 DEF ReleaseBlockVm
<1> HIDE DEF n
<1>7. ScopesOf(vms) = ScopesOf(vms') \cup Scopes(fs)
  BY <1>3, <1>4, <1>5, MoreScopes
<1>8. fs \in Seq(FrameRecord) /\ FramesGood(fs)
  BY <1>1, <1>5 DEF VmRecord, VmGood
<1>9. \A s \in ScopesOf(vms'), t \in Scopes(fs) : s < t
  <2> SUFFICES ASSUME NEW s \in ScopesOf(vms'), NEW t \in Scopes(fs) PROVE s < t
    OBVIOUS
  <2>1. PICK h \in 1 .. n : s \in Scopes(vms[h].frames)
    BY <1>3, <1>4 DEF ScopesOf
  <2>2. h \in DOMAIN vms /\ h < n + 1
    BY <1>5
  <2> QED
    BY <1>1, <1>5, <2>1, <2>2, ScopesAbove
<1> HIDE DEF fs
<1> QED
  BY <1>1, <1>6, <1>7, <1>8, <1>9, AllPoppedIs

LEMMA EndTaskScopes ==
  ASSUME Inv, EndTask, ScopesAre(context, ScopesOf(vms))
  PROVE  ScopesAre(context', ScopesOf(vms'))
<1> DEFINE fs == vms[1].frames
           v == [vms[1] EXCEPT !.frames = <<>>]
<1>1. /\ Len(vms) = 1 /\ DOMAIN vms = {1} /\ Last(vms) = vms[1] /\ program \in Programs
      /\ vms[1] \in VmRecord /\ VmGood(vms[1])
  <2>1. Len(vms) = 1
    BY DEF EndTask
  <2> QED
    BY <2>1, VmsAre DEF Inv
<1>2. fs \in Seq(FrameRecord) /\ FramesGood(fs)
  BY <1>1 DEF VmRecord, VmGood
<1>3. context' = AllPopped(context, fs) /\ vms' = <<v>>
  BY <1>1 DEF EndTask
<1>4. v.frames = <<>>
  BY <1>1 DEF VmRecord
<1>5. ScopesOf(vms) = {} \cup Scopes(fs)
  BY <1>1 DEF ScopesOf
<1> HIDE DEF v, fs
<1>6. DOMAIN vms' = {1} /\ vms'[1] = v
  BY <1>3
<1>7. ScopesOf(vms') = {}
  BY <1>4, <1>6 DEF ScopesOf, Scopes, Range
<1>8. ScopesAre(AllPopped(context, fs), {})
  BY <1>1, <1>2, <1>5, AllPoppedIs
<1> QED
  BY <1>3, <1>7, <1>8
-----------------------------------------------------------------------------
ContextInv == ~ScopesEntangled => ScopesAre(context, ScopesOf(vms))

LEMMA ContextBegins == Init => ContextInv
<1> SUFFICES ASSUME Init PROVE ScopesAre(context, ScopesOf(vms))
  BY DEF ContextInv
<1> DEFINE v == NewVm(Body(0))
           fs == <<Body(0)>>
<1>1. vms = <<v>> /\ context = [scopes |-> <<>>, bound |-> 0]
  BY DEF Init
<1>2. v.frames = fs /\ Body(0).scope = 0
  BY DEF NewVm, Body, Frame
<1> HIDE DEF v
<1>3. DOMAIN vms = {1} /\ vms[1] = v
  BY <1>1
<1>4. Range(fs) = {Body(0)}
  <2>1. DOMAIN fs = {1} /\ fs[1] = Body(0)
    OBVIOUS
  <2> HIDE DEF fs
  <2> QED
    BY <2>1 DEF Range
<1> HIDE DEF fs
<1>5. ScopesOf(vms) = {}
  BY <1>2, <1>3, <1>4 DEF ScopesOf, Scopes
<1>6. context.scopes = <<>> /\ context.bound = 0
  BY <1>1
<1>7. /\ <<>> \in Seq([token : Levels, previous : 0 .. Depth])
      /\ DOMAIN <<>> = {}
  BY EmptySeq
<1> QED
  BY <1>5, <1>6, <1>7 DEF ScopesAre

LEMMA ContextNext == Inv /\ ContextInv /\ [Next]_vars => ContextInv'
<1> SUFFICES ASSUME Inv, ContextInv, [Next]_vars PROVE ContextInv'
  OBVIOUS
<1>1. program' = program
  BY DEF Next, Execute, vars, CallMethod, OpenScope, CallBlock, EnterTry, ExecuteAct,
         EnsureInLine, RescueClause, RescueDoesNotMatch, EnsureClause, Park, SleepEnds,
         SleepIsCancelled, PopFrame, EnterHandler, Escape, BlockReturns, BlockEscapes,
         ReleaseBlockVm, EndTask, Terminated
<1>2. /\ ScopesEntangled' <=> ScopesEntangled
      /\ \A c, S : ScopesAre(c, S)' <=> ScopesAre(c, S)
  <2>1. Depth' = Depth /\ Levels' = Levels /\ \A l : Kind(l)' = Kind(l)
    BY <1>1 DEF Depth, Levels, Kind, At
  <2> QED
    BY <2>1 DEF ScopesEntangled, ScopesAre
<1> SUFFICES ASSUME ~ScopesEntangled PROVE ScopesAre(context', ScopesOf(vms'))
  BY <1>2 DEF ContextInv
<1>3. ScopesAre(context, ScopesOf(vms))
  BY DEF ContextInv
<1>4. CASE MovingStep
  BY <1>3, <1>4, MovingSteps, MovesScopes
<1>5. CASE CallBlock \/ BlockReturns \/ BlockEscapes
  <2>1. ScopesOf(vms') = ScopesOf(vms)
    BY <1>5, CallBlockKeeps, BlockReturnsKeeps, BlockEscapesKeeps
  <2>2. context' = context
    BY <1>5 DEF CallBlock, BlockReturns, BlockEscapes
  <2> QED
    BY <1>3, <2>1, <2>2
<1>6. CASE Park \/ UNCHANGED vars
  <2>1. vms' = vms /\ context' = context
    BY <1>6 DEF Park, vars
  <2> QED
    BY <1>3, <2>1
<1> QED
  BY <1>3, <1>4, <1>5, <1>6, OpenScopeScopes, ReleaseBlockVmScopes, EndTaskScopes
  DEF Next, Execute, MovingStep, Terminated

LEMMA ContextAlways == Spec => []ContextInv
BY InvAlways, ContextBegins, ContextNext, PTL DEF Spec

(***************************************************************************)
(* The scopes that are open in the task-local context are those of the     *)
(* frames that are executed, in the order of their nesting, and the value  *)
(* in force is that of the innermost: whatever way TaskLocal.with was left *)
(* (vm.cpp:6236-6264), unless a block opens a scope within another.        *)
(***************************************************************************)
THEOREM ScopesAreOfFrames == Spec => []ScopesMatchFrames
<1>1. ContextInv => ScopesMatchFrames
  BY OpenScopesAre DEF ContextInv, ScopesAre, ScopesMatchFrames
<1> QED
  BY <1>1, ContextAlways, PTL
-----------------------------------------------------------------------------
(* What the program means.  The invariant says of the machine at every step what is
   left of the meaning of its program: ToldInv for the code that is executed, or for
   what is being left, CodeInv for the frames that wait below it. *)

\* The constructs of a program p.
DepthOf(p) == Len(p.nest)
KindIn(p, l) == p.nest[l].kind
AfterIn(p, l) == p.nest[l].after
ClauseIn(p, l) == p.nest[l].clause
FinallyIn(p, l) == p.nest[l].finally
MatchesIn(p, l) == p.nest[l].matches

Returning == Way("return", <<>>)

\* What the levels from l on mean.
Means(p, k, l) == MeansOf(p, k, Quirks)[l]
Construct(p, r, l) == ConstructMeans(p, r, l, Quirks)

\* The result r, as the machine has it.  Of the tags only those matter that the procedure
\* of the frame has itself.
Tells(p, r, way, lost, of, lg, sp) ==
  /\ r.way = way /\ r.log = lg /\ r.suppressed = Range(sp)
  /\ \A j \in 1 .. DepthOf(p) : j > of => (j \in r.lost <=> j \in lost)

NoTags == {}

\* The same without the tags.
Ends(p, r, way, lg, sp) == Tells(p, r, way, NoTags, DepthOf(p), lg, sp)

\* What a frame says about the program.
FrameTells(f) ==
  /\ f.code = "body" =>
       /\ f.of # 0 => Kind(f.of) \in Procedures
       /\ \A l \in (f.of + 1) .. (f.level - 1) : Kind(l) \notin Procedures
       /\ f.step = "down" => f.lost = NoTags
       /\ f.step \in {"ensure", "return"} => Kind(f.level) \in Ensured
       /\ f.scope = IF f.of # 0 /\ Kind(f.of) = "with" THEN f.of ELSE 0
  /\ f.code = "rescue" =>
       /\ Kind(f.of) \in Rescued /\ f.step \in {"down", "ensure", "after"}
       /\ f.step # "down" => Kind(f.of) = "both"
       /\ f.kept = NoTags
  /\ f.code = "ensure" => f.step = "down" /\ f.pending # Normally

\* A clause lies on code that has left its construct.
ClauseOn(under, over) ==
  over.code # "body" =>
    /\ under.step = "after" /\ under.level = over.of
    /\ over.code = "rescue" => under.code = "body"
    /\ over.code = "ensure" /\ under.code = "body" => Kind(over.of) = "ensure"

FramesTell(fs) ==
  /\ \A j \in DOMAIN fs : FrameTells(fs[j])
  /\ \A j \in 1 .. (Len(fs) - 1) : ClauseOn(fs[j], fs[j + 1])

\* Nothing has been said.
Silent(lg, sp) == lg = <<>> /\ sp = <<>>

\* The body of a procedure: on its way in, after the construct it is at, in the ensure of
\* that construct, or being left.
BodyTells(p, f, way, lg, sp) ==
  /\ way = Normally /\ f.step = "down" => Silent(lg, sp)
  /\ way = Normally /\ f.step = "after" =>
       \A k \in 0 .. f.level :
         Tells(p, Construct(p, Means(p, k, f.level + 1), f.level),
               Normally, f.lost, f.of, lg, sp)
  /\ way = Normally /\ f.step = "ensure" =>
       \A k \in 0 .. f.level :
         Tells(p, Means(p, k, f.level + 1), Normally, f.lost, f.of, lg, sp)
  /\ way = Normally /\ f.step = "return" =>
       \A k \in 0 .. f.level :
         Tells(p, Means(p, k, f.level + 1), Returning, f.lost, f.of, lg, sp)
  /\ way # Normally =>
       \A k \in 0 .. (f.level - 1) :
         Tells(p, Means(p, k, f.level), way, f.lost, f.of, lg, sp)

\* A rescue clause of a try in the procedure "of".
RescueTells(p, f, of, way, lg, sp) ==
  /\ way = Normally => f.step # "after"
  /\ \A k \in 0 .. f.of :
       /\ Means(p, k, f.of + 1).way.how = "raise"
       /\ way = Normally /\ f.step = "down" =>
            Tells(p, Costs(p, Means(p, k, f.of + 1), f.of), Way("raise", f.exception),
                  f.lost, of, lg, sp)
       /\ way = Normally /\ f.step = "ensure" =>
            Tells(p, RescueMeans(p, Means(p, k, f.of + 1), f.of), Normally,
                  f.lost, of, lg, sp)
       /\ way # Normally /\ f.step = "down" =>
            Tells(p, RescueMeans(p, Means(p, k, f.of + 1), f.of), way,
                  f.lost, of, lg, sp)
       /\ way # Normally /\ f.step # "down" =>
            Tells(p, Construct(p, Means(p, k, f.of + 1), f.of), way,
                  f.lost, of, lg, sp)

\* What an ensure clause was run for, on the code u.
RunFor(p, k, l, u) ==
  IF u.code = "body" THEN Means(p, k, l + 1) ELSE RescueMeans(p, Means(p, k, l + 1), l)

\* The exception x replaces y.
Replaces(sp, x, y) == <<x, y>> \in Range(sp)

\* An ensure clause on u, of a try in the procedure "of".
EnsureTells(p, f, u, of, way, lg, sp) ==
  \A k \in 0 .. f.of :
    /\ u.code # "body" => Means(p, k, f.of + 1).way.how = "raise"
    /\ way = Normally =>
         Tells(p, IF f.pending.how = "raise" THEN Costs(p, RunFor(p, k, f.of, u), f.of)
                  ELSE RunFor(p, k, f.of, u),
               f.pending, Merged(u, f).lost, of, lg, sp)
    /\ way # Normally =>
         /\ Tells(p, Construct(p, Means(p, k, f.of + 1), f.of), way, Merged(u, f).lost,
                  of, lg, sp)
         /\ way.how = "raise" /\ f.pending.how = "raise" =>
              Replaces(sp, way.what, f.pending.what)

\* The procedure whose body the frames of an ensure clause lie on.
ProcedureOf(fs) ==
  IF fs[Len(fs) - 1].code = "body" THEN fs[Len(fs) - 1].of ELSE fs[Len(fs) - 2].of

TopTells(p, fs, way, lg, sp) ==
  /\ fs[Len(fs)].code = "body" => BodyTells(p, fs[Len(fs)], way, lg, sp)
  /\ fs[Len(fs)].code = "rescue" =>
       RescueTells(p, fs[Len(fs)], fs[Len(fs) - 1].of, way, lg, sp)
  /\ fs[Len(fs)].code = "ensure" =>
       EnsureTells(p, fs[Len(fs)], fs[Len(fs) - 1], ProcedureOf(fs), way, lg, sp)

\* The VM v has come so far with what is in the construct b.
VmTells(p, v, b, lg, sp) ==
  /\ v.way.how = "fault" =>
       \E k \in 1 .. (DepthOf(p) + 1) : Ends(p, Means(p, k, 1), v.way, lg, sp)
  /\ v.way.how # "fault" /\ v.escaped =>
       \A k \in 0 .. b : Ends(p, Means(p, k, b + 1), v.way, lg, sp)
  /\ v.way.how # "fault" /\ ~v.escaped /\ v.frames = <<>> =>
       \A k \in 0 .. b : Ends(p, Closed(Means(p, k, b + 1)), Normally, lg, sp)
  /\ v.way.how # "fault" /\ ~v.escaped /\ v.frames # <<>> =>
       TopTells(p, v.frames, v.way, lg, sp)

\* The construct whose block the VM i runs.
Calls(vs, i) == IF i = 1 THEN 0 ELSE Last(vs[i - 1].frames).level

CodeInv ==
  /\ \A i \in DOMAIN vms : FramesTell(vms[i].frames)
  /\ \A i \in DOMAIN vms :
       vms[i].frames # <<>> /\ ~vms[i].left => vms[i].frames[1].of = Calls(vms, i)
  /\ task = "parked" => (Innermost \/ Top.step = "after") /\ Here.do = "sleep"

ToldInv ==
  ~ScopesEntangled =>
    IF task = "done" THEN AsWritten
    ELSE VmTells(program, vms[Active], Calls(vms, Active), log, suppressed)

-----------------------------------------------------------------------------
(* What the constructs of a program make of a result *)

\* A result has four fields.
Shape(r) ==
  r = [way |-> r.way, log |-> r.log, suppressed |-> r.suppressed, lost |-> r.lost]

\* The ways out of an act.
Faulted == Way("fault", <<>>)
Thrown(tag) == Way("throw", <<tag>>)
WayOut(act, way, site) ==
  CASE act.do = "raise" -> Way("raise", site)
    [] act.do = "throw" -> Way("throw", <<act.tag>>)
    [] act.do = "return" -> Returning
    [] OTHER -> way

\* The name of what is raised in a clause.
Site(clause, l) == <<clause, l>>

\* The entry in the log of a clause, the tags that remain lost after it, and what its
\* exception suppresses.
Entry(p, clause, l) == <<clause, l, Max({0} \cup Outside(p, l, "with"))>>
Logged(p, lg, clause, l) == Append(lg, Entry(p, clause, l))
LostIn(p, lost, l) == IF p.wide THEN lost \cup Outside(p, l, "catch") ELSE lost
Doubled(s, l, what) == s \cup {<<<<"finally", l>>, what>>}

\* A result with another field.
WithWay(r, way) == [r EXCEPT !.way = way]
WithLog(r, lg) == [r EXCEPT !.log = lg]
WithSuppressed(r, s) == [r EXCEPT !.suppressed = s]
WithLost(r, lost) == [r EXCEPT !.lost = lost]

LEMMA FieldsAre ==
  ASSUME NEW r, Shape(r), NEW x
  PROVE  /\ Shape(WithWay(r, x)) /\ WithWay(r, x).way = x /\ WithWay(r, x).log = r.log
         /\ WithWay(r, x).suppressed = r.suppressed /\ WithWay(r, x).lost = r.lost
         /\ Shape(WithLog(r, x)) /\ WithLog(r, x).way = r.way /\ WithLog(r, x).log = x
         /\ WithLog(r, x).suppressed = r.suppressed /\ WithLog(r, x).lost = r.lost
         /\ Shape(WithSuppressed(r, x)) /\ WithSuppressed(r, x).way = r.way
         /\ WithSuppressed(r, x).log = r.log /\ WithSuppressed(r, x).suppressed = x
         /\ WithSuppressed(r, x).lost = r.lost
         /\ Shape(WithLost(r, x)) /\ WithLost(r, x).way = r.way
         /\ WithLost(r, x).log = r.log /\ WithLost(r, x).suppressed = r.suppressed
         /\ WithLost(r, x).lost = x
<1>1. WithWay(r, x) = [way |-> x, log |-> r.log, suppressed |-> r.suppressed,
                       lost |-> r.lost]
  BY DEF Shape, WithWay
<1>2. WithLog(r, x) = [way |-> r.way, log |-> x, suppressed |-> r.suppressed,
                       lost |-> r.lost]
  BY DEF Shape, WithLog
<1>3. WithSuppressed(r, x) = [way |-> r.way, log |-> r.log, suppressed |-> x,
                              lost |-> r.lost]
  BY DEF Shape, WithSuppressed
<1>4. WithLost(r, x) = [way |-> r.way, log |-> r.log, suppressed |-> r.suppressed,
                        lost |-> x]
  BY DEF Shape, WithLost
<1> QED
  BY <1>1, <1>2, <1>3, <1>4 DEF Shape

LEMMA DoesIs ==
  ASSUME NEW r, Shape(r), NEW act \in Acts, NEW site, NEW cancelled \in BOOLEAN
  PROVE  /\ Shape(Does(r, act, site, cancelled))
         /\ Does(r, act, site, cancelled).log = r.log
         /\ Does(r, act, site, cancelled).suppressed = r.suppressed
         /\ Does(r, act, site, cancelled).lost = r.lost
         /\ Does(r, act, site, cancelled).way =
              IF act.do = "sleep" /\ cancelled THEN Faulted
              ELSE WayOut(act, r.way, site)
         /\ act.do = "end" => Does(r, act, site, cancelled) = r
<1>3. act.do \in Ways
  BY DEF Acts
<1>4. CASE act.do = "raise"
  <2>1. Does(r, act, site, cancelled) = WithWay(r, Way("raise", site))
    BY <1>4 DEF Does, WithWay
  <2>2. ~(act.do = "sleep" /\ cancelled) /\ act.do # "end"
    BY <1>4
  <2>3. WayOut(act, r.way, site) = Way("raise", site)
    BY <1>4 DEF WayOut
  <2> QED
    BY <2>1, <2>2, <2>3, FieldsAre
<1>5. CASE act.do = "throw"
  <2>1. Does(r, act, site, cancelled) = WithWay(r, Way("throw", <<act.tag>>))
    BY <1>5 DEF Does, WithWay
  <2>2. ~(act.do = "sleep" /\ cancelled) /\ act.do # "end"
    BY <1>5
  <2>3. WayOut(act, r.way, site) = Way("throw", <<act.tag>>)
    BY <1>5 DEF WayOut
  <2> QED
    BY <2>1, <2>2, <2>3, FieldsAre
<1>6. CASE act.do = "return"
  <2>1. Does(r, act, site, cancelled) = WithWay(r, Returning)
    BY <1>6 DEF Does, WithWay, Returning
  <2>2. ~(act.do = "sleep" /\ cancelled) /\ act.do # "end"
    BY <1>6
  <2>3. WayOut(act, r.way, site) = Returning
    BY <1>6 DEF WayOut
  <2> QED
    BY <2>1, <2>2, <2>3, FieldsAre
<1>7. CASE act.do = "sleep" /\ cancelled
  <2>1. Does(r, act, site, cancelled) = WithWay(r, Faulted)
    BY <1>7 DEF Does, WithWay, Faulted
  <2>2. act.do # "end"
    BY <1>7
  <2>3. (IF act.do = "sleep" /\ cancelled THEN Faulted ELSE WayOut(act, r.way, site))
          = Faulted
    BY <1>7
  <2> QED
    BY <2>1, <2>2, <2>3, FieldsAre
<1>8. CASE act.do = "end" \/ (act.do = "sleep" /\ ~cancelled)
  BY <1>8 DEF Does, WayOut
<1> QED
  BY <1>3, <1>4, <1>5, <1>6, <1>7, <1>8 DEF Ways

LEMMA DoesInClause ==
  ASSUME NEW r, Shape(r), NEW act \in Acts, NEW site
  PROVE  /\ Shape(Does(r, act, site, FALSE)) /\ Does(r, act, site, FALSE).log = r.log
         /\ Does(r, act, site, FALSE).suppressed = r.suppressed
         /\ Does(r, act, site, FALSE).lost = r.lost
         /\ Does(r, act, site, FALSE).way = WayOut(act, r.way, site)
         /\ act.do = "end" => Does(r, act, site, FALSE) = r
<1> DEFINE never == FALSE
<1>1. never \in BOOLEAN /\ ~never
  OBVIOUS
<1> HIDE DEF never
<1>2. /\ Shape(Does(r, act, site, never)) /\ Does(r, act, site, never).log = r.log
      /\ Does(r, act, site, never).suppressed = r.suppressed
      /\ Does(r, act, site, never).lost = r.lost
      /\ Does(r, act, site, never).way = WayOut(act, r.way, site)
      /\ act.do = "end" => Does(r, act, site, never) = r
  BY <1>1, DoesIs
<1> QED
  BY <1>2 DEF never

LEMMA CostsIs ==
  ASSUME NEW p, NEW r, Shape(r), NEW l
  PROVE  /\ Shape(Costs(p, r, l)) /\ Costs(p, r, l).way = r.way
         /\ Costs(p, r, l).log = r.log /\ Costs(p, r, l).suppressed = r.suppressed
         /\ Costs(p, r, l).lost = LostIn(p, r.lost, l)
<1> DEFINE lost == r.lost \cup Outside(p, l, "catch")
<1>1. Costs(p, r, l) = IF p.wide THEN WithLost(r, lost) ELSE r
  BY DEF Costs, WithLost
<1>2. LostIn(p, r.lost, l) = IF p.wide THEN lost ELSE r.lost
  BY DEF LostIn
<1> HIDE DEF lost
<1> QED
  BY <1>1, <1>2, FieldsAre

LEMMA RanIs ==
  ASSUME NEW p, NEW r, Shape(r), NEW clause, NEW l
  PROVE  /\ Shape(Ran(p, r, clause, l)) /\ Ran(p, r, clause, l).way = r.way
         /\ Ran(p, r, clause, l).log = Logged(p, r.log, clause, l)
         /\ Ran(p, r, clause, l).suppressed = r.suppressed
         /\ Ran(p, r, clause, l).lost = r.lost
<1> DEFINE e == <<clause, l, Max({0} \cup Outside(p, l, "with"))>>
           lg == Append(r.log, e)
<1>1. Ran(p, r, clause, l) = WithLog(r, lg)
  BY DEF Ran, WithLog
<1>2. Logged(p, r.log, clause, l) = lg
  BY DEF Entry, Logged
<1> HIDE DEF lg
<1> QED
  BY <1>1, <1>2, FieldsAre

LEMMA SuppressingIs ==
  ASSUME NEW p, NEW r, Shape(r), NEW l
  PROVE  /\ Shape(Suppressing(p, r, l)) /\ Suppressing(p, r, l).way = r.way
         /\ Suppressing(p, r, l).log = r.log /\ Suppressing(p, r, l).lost = r.lost
         /\ Suppressing(p, r, l).suppressed =
              IF FinallyIn(p, l).do = "raise" /\ r.way.how = "raise"
              THEN Doubled(r.suppressed, l, r.way.what) ELSE r.suppressed
<1> DEFINE s == r.suppressed \cup {<<<<"finally", l>>, r.way.what>>}
<1>1. Suppressing(p, r, l) = IF FinallyIn(p, l).do = "raise" /\ r.way.how = "raise"
                             THEN WithSuppressed(r, s) ELSE r
  BY DEF Suppressing, WithSuppressed, FinallyIn
<1>2. Doubled(r.suppressed, l, r.way.what) = s
  BY DEF Doubled
<1> HIDE DEF s
<1> QED
  BY <1>1, <1>2, FieldsAre

LEMMA EnsureIs ==
  ASSUME NEW p, NEW r, Shape(r), NEW l, FinallyIn(p, l) \in Acts
  PROVE  /\ Shape(EnsureMeans(p, r, l, Quirks))
         /\ r.way.how = "fault" => EnsureMeans(p, r, l, Quirks) = r
         /\ r.way.how # "fault" =>
              /\ EnsureMeans(p, r, l, Quirks).way =
                   WayOut(FinallyIn(p, l), r.way, Site("finally", l))
              /\ EnsureMeans(p, r, l, Quirks).log =
                   Logged(p, r.log, "ensure", l)
              /\ EnsureMeans(p, r, l, Quirks).suppressed =
                   IF FinallyIn(p, l).do = "raise" /\ r.way.how = "raise"
                   THEN Doubled(r.suppressed, l, r.way.what) ELSE r.suppressed
              /\ EnsureMeans(p, r, l, Quirks).lost =
                   IF r.way.how = "raise" THEN Costs(p, r, l).lost ELSE r.lost
<1>1. CASE r.way.how = "fault"
  BY <1>1 DEF EnsureMeans, Quirks
<1>2. CASE r.way.how # "fault"
  <2> DEFINE act == FinallyIn(p, l)
             c == IF r.way.how = "raise" THEN Costs(p, r, l) ELSE r
             d == Ran(p, c, "ensure", l)
             s == Suppressing(p, d, l)
             z == Does(s, act, Site("finally", l), FALSE)
  <2>1. EnsureMeans(p, r, l, Quirks) = z
    BY <1>2 DEF EnsureMeans, Site, FinallyIn
  <2>2. /\ Shape(c) /\ c.way = r.way /\ c.log = r.log /\ c.suppressed = r.suppressed
        /\ c.lost = IF r.way.how = "raise" THEN Costs(p, r, l).lost ELSE r.lost
    BY CostsIs
  <2> HIDE DEF c
  <2>3. /\ Shape(d) /\ d.way = c.way /\ d.suppressed = c.suppressed /\ d.lost = c.lost
        /\ d.log = Logged(p, c.log, "ensure", l)
    BY <2>2, RanIs
  <2> HIDE DEF d
  <2>4. /\ Shape(s) /\ s.way = d.way /\ s.log = d.log /\ s.lost = d.lost
        /\ s.suppressed = IF act.do = "raise" /\ d.way.how = "raise"
                          THEN Doubled(d.suppressed, l, d.way.what)
                          ELSE d.suppressed
    BY <2>3, SuppressingIs
  <2> HIDE DEF s, act
  <2>5. act \in Acts
    BY DEF act
  <2>6. /\ Shape(z) /\ z.log = s.log /\ z.suppressed = s.suppressed /\ z.lost = s.lost
        /\ z.way = WayOut(act, s.way, Site("finally", l))
    BY <2>4, <2>5, DoesInClause
  <2> HIDE DEF z
  <2> QED
    BY <1>2, <2>1, <2>2, <2>3, <2>4, <2>6 DEF act
<1> QED
  BY <1>1, <1>2

LEMMA RescueIs ==
  ASSUME NEW p, NEW r, Shape(r), NEW l, ClauseIn(p, l) \in Acts
  PROVE  /\ Shape(RescueMeans(p, r, l))
         /\ r.way.how # "raise" => RescueMeans(p, r, l) = r
         /\ r.way.how = "raise" /\ ~MatchesIn(p, l) =>
              RescueMeans(p, r, l) = Costs(p, r, l)
         /\ r.way.how = "raise" /\ MatchesIn(p, l) =>
              /\ RescueMeans(p, r, l).way =
                   WayOut(ClauseIn(p, l), Normally, Site("clause", l))
              /\ RescueMeans(p, r, l).log = Logged(p, r.log, "rescue", l)
              /\ RescueMeans(p, r, l).suppressed = r.suppressed
              /\ RescueMeans(p, r, l).lost = Costs(p, r, l).lost
<1>1. CASE r.way.how # "raise"
  BY <1>1 DEF RescueMeans
<1>2. CASE r.way.how = "raise" /\ ~MatchesIn(p, l)
  BY <1>2, CostsIs DEF RescueMeans, MatchesIn
<1>3. CASE r.way.how = "raise" /\ MatchesIn(p, l)
  <2> DEFINE act == ClauseIn(p, l)
             c == Costs(p, r, l)
             d == Ran(p, c, "rescue", l)
             e == WithWay(d, Normally)
             z == Does(e, act, Site("clause", l), FALSE)
  <2>1. RescueMeans(p, r, l) = z
    BY <1>3 DEF RescueMeans, WithWay, Site, MatchesIn, ClauseIn
  <2>2. /\ Shape(c) /\ c.way = r.way /\ c.log = r.log /\ c.suppressed = r.suppressed
    BY CostsIs
  <2> HIDE DEF c
  <2>3. /\ Shape(d) /\ d.way = c.way /\ d.suppressed = c.suppressed /\ d.lost = c.lost
        /\ d.log = Logged(p, c.log, "rescue", l)
    BY <2>2, RanIs
  <2> HIDE DEF d, act
  <2>5. /\ Shape(e) /\ e.way = Normally /\ e.log = d.log /\ e.suppressed = d.suppressed
        /\ e.lost = d.lost
    BY <2>3, FieldsAre
  <2> HIDE DEF e
  <2>6. act \in Acts
    BY DEF act
  <2>7. /\ Shape(z) /\ z.log = e.log /\ z.suppressed = e.suppressed /\ z.lost = e.lost
        /\ z.way = WayOut(act, e.way, Site("clause", l))
    BY <2>5, <2>6, DoesInClause
  <2> HIDE DEF z
  <2> QED
    BY <1>3, <2>1, <2>2, <2>3, <2>5, <2>7 DEF act, c
<1> QED
  BY <1>1, <1>2, <1>3

\* What follows a construct that has ended.
After(p, k, r, l) ==
  IF r.way = Normally THEN Does(r, AfterIn(p, l), Site("act", l), l = k) ELSE r

InnermostMeans(p, k) ==
  Does(Nothing, p.innermost, Site("act", DepthOf(p) + 1), DepthOf(p) + 1 = k)

\* The recursion of MeansOf has a solution for nests of every depth.
LEMMA MeansUnfolds ==
  ASSUME NEW p, DepthOf(p) \in Nat, NEW k
  PROVE  /\ Means(p, k, DepthOf(p) + 1) = InnermostMeans(p, k)
         /\ \A l \in 1 .. DepthOf(p) :
              Means(p, k, l) = After(p, k, Construct(p, Means(p, k, l + 1), l), l)
<1> DEFINE m == DepthOf(p)
           First(l) == Does(Nothing, p.innermost, Site("act", l), l = k)
           Step(f, l) ==
             IF l > m THEN First(l)
             ELSE After(p, k, ConstructMeans(p, f[l + 1], l, Quirks), l)
           Is(f) == f = [l \in 1 .. (m + 1) |-> Step(f, l)]
           L == CHOOSE f : Is(f)
           Solved == {n \in 0 .. m : \E f : f = [l \in (m + 1 - n) .. (m + 1) |-> Step(f, l)]}
<1>1. m \in Nat
  OBVIOUS
<1>2. MeansOf(p, k, Quirks) = L
  BY DEF MeansOf, After, Site, AfterIn, DepthOf
<1> HIDE DEF m, L
<1>3. 0 \in Solved
  <2> DEFINE f == [l \in (m + 1) .. (m + 1) |-> First(l)]
  <2>1. \A l \in (m + 1) .. (m + 1) : Step(f, l) = First(l)
    BY <1>1
  <2>2. f = [l \in (m + 1) .. (m + 1) |-> Step(f, l)]
    <3> HIDE DEF Step, First
    <3> QED
      BY <2>1
  <2>3. 0 \in 0 .. m /\ m + 1 - 0 = m + 1
    BY <1>1
  <2> HIDE DEF f, Step
  <2> QED
    BY <2>2, <2>3
<1>4. ASSUME NEW n \in 0 .. (m - 1), n \in Solved
      PROVE  n + 1 \in Solved
  <2> DEFINE a == m + 1 - (n + 1)
  <2>1. /\ n \in Nat /\ n < m /\ a \in 1 .. m /\ m + 1 - n = a + 1
    BY <1>1
  <2>2. PICK f : f = [l \in (a + 1) .. (m + 1) |-> Step(f, l)]
    <3>1. PICK f : f = [l \in (m + 1 - n) .. (m + 1) |-> Step(f, l)]
      BY <1>4
    <3> HIDE DEF Step, a
    <3> QED
      BY <2>1, <3>1
  <2>a. a = m + 1 - (n + 1)
    OBVIOUS
  <2> HIDE DEF a
  <2> DEFINE g == [l \in a .. (m + 1) |-> IF l = a THEN Step(f, l) ELSE f[l]]
  <2>3. ASSUME NEW l \in a .. (m + 1)
        PROVE  g[l] = Step(g, l)
    <3>1. CASE l > m
      <4>1. g[l] = f[l] /\ l \in (a + 1) .. (m + 1)
        BY <1>1, <2>1, <3>1
      <4>2. f[l] = Step(f, l)
        BY <2>2, <4>1
      <4> QED
        BY <3>1, <4>1, <4>2
    <3>2. CASE ~(l > m)
      <4>1. l + 1 \in (a + 1) .. (m + 1) /\ l + 1 \in a .. (m + 1) /\ l + 1 # a
        BY <1>1, <2>1, <3>2
      <4>2. g[l + 1] = f[l + 1]
        BY <1>1, <2>1, <4>1
      <4>3. g[l] = Step(f, l)
        <5>1. CASE l = a
          BY <1>1, <2>1, <5>1
        <5>2. CASE l # a
          <6>1. l \in (a + 1) .. (m + 1) /\ g[l] = f[l]
            BY <1>1, <2>1, <5>2
          <6> HIDE DEF g
          <6> QED
            BY <2>2, <6>1
        <5> QED
          BY <5>1, <5>2
      <4> HIDE DEF g
      <4> QED
        BY <3>2, <4>2, <4>3
    <3> QED
      BY <3>1, <3>2
  <2>4. g = [l \in a .. (m + 1) |-> Step(g, l)]
    <3>1. g = [l \in a .. (m + 1) |-> g[l]]
      OBVIOUS
    <3> HIDE DEF g, Step
    <3> QED
      BY <2>3, <3>1
  <2>5. n + 1 \in 0 .. m
    BY <1>1, <2>1
  <2> HIDE DEF g, Step
  <2> QED
    BY <2>4, <2>5, <2>a
<1>5. \A n \in 0 .. m : n \in Solved
  <2> HIDE DEF Solved
  <2> QED
    BY <1>1, <1>3, <1>4, CountingUp
<1>6. \E f : Is(f)
  <2>1. m \in 0 .. m /\ m + 1 - m = 1
    BY <1>1
  <2>2. m \in Solved
    <3> HIDE DEF Solved
    <3> QED
      BY <1>5, <2>1
  <2>3. PICK f : f = [l \in (m + 1 - m) .. (m + 1) |-> Step(f, l)]
    BY <2>2
  <2> HIDE DEF Step
  <2> QED
    BY <2>1, <2>3
<1>7. Is(L)
  <2> HIDE DEF Is
  <2> QED
    BY <1>6 DEF L
<1>8. \A l \in 1 .. (m + 1) : L[l] = Step(L, l)
  BY <1>7
<1>9. L[m + 1] = First(m + 1)
  BY <1>1, <1>8
<1>10. ASSUME NEW l \in 1 .. m
       PROVE  L[l] = After(p, k, ConstructMeans(p, L[l + 1], l, Quirks), l)
  BY <1>1, <1>8
<1> QED
  BY <1>2, <1>9, <1>10 DEF m, Means, Construct, InnermostMeans

\* A program that a task may be given.
Known(p) ==
  /\ DepthOf(p) \in Nat /\ p.innermost \in Acts
  /\ \A l \in 1 .. DepthOf(p) :
       /\ KindIn(p, l) \in Kinds /\ MatchesIn(p, l) \in BOOLEAN
       /\ AfterIn(p, l) \in Acts /\ ClauseIn(p, l) \in Acts
       /\ FinallyIn(p, l) \in Acts

LEMMA ProgramKnown ==
  ASSUME program \in Programs
  PROVE  Known(program)
<1>1. program.nest \in Seq(Constructs) /\ program.innermost \in Acts
  BY ProgramsKnown
<1>2. /\ Len(program.nest) \in Nat
      /\ \A l \in 1 .. Len(program.nest) : program.nest[l] \in Constructs
  BY <1>1, SeqDomain
<1> QED
  BY <1>1, <1>2 DEF Constructs, Known, DepthOf, KindIn, AfterIn, ClauseIn, FinallyIn, MatchesIn

LEMMA KindsAre ==
  /\ Kinds = {"call", "with", "block", "ensure", "both", "rescue", "catch"}
  /\ \A kind : /\ kind \in Procedures <=> kind = "call" \/ kind = "with" \/ kind = "block"
               /\ kind \in Ensured <=> kind = "ensure" \/ kind = "both"
               /\ kind \in Rescued <=> kind = "rescue" \/ kind = "both"
BY DEF Kinds, Procedures, Ensured, Rescued

\* What each kind makes of a result.
LEMMA ConstructIs ==
  ASSUME NEW p, Known(p), NEW r, Shape(r), NEW l \in 1 .. DepthOf(p)
  PROVE  /\ Shape(Construct(p, r, l))
         /\ KindIn(p, l) \in Procedures =>
              /\ Construct(p, r, l).way =
                   (IF r.way.how = "return" THEN Normally ELSE r.way)
              /\ Construct(p, r, l).log = r.log
              /\ Construct(p, r, l).suppressed = r.suppressed
              /\ \A j : j \notin Construct(p, r, l).lost
         /\ KindIn(p, l) = "ensure" =>
              Construct(p, r, l) = EnsureMeans(p, r, l, Quirks)
         /\ KindIn(p, l) = "rescue" => Construct(p, r, l) = RescueMeans(p, r, l)
         /\ KindIn(p, l) = "both" /\ r.way.how = "throw" => Construct(p, r, l) = r
         /\ KindIn(p, l) = "both" /\ r.way.how # "throw" =>
              Construct(p, r, l) = EnsureMeans(p, RescueMeans(p, r, l), l, Quirks)
         /\ KindIn(p, l) = "catch" =>
              /\ r.way = Thrown(l) /\ l \notin r.lost =>
                   Construct(p, r, l) = WithWay(r, Normally)
              /\ r.way # Thrown(l) \/ l \in r.lost =>
                   Construct(p, r, l) = r
<1> DEFINE kind == KindIn(p, l)
<1>1. /\ kind \in Kinds /\ ClauseIn(p, l) \in Acts /\ FinallyIn(p, l) \in Acts
      /\ MatchesIn(p, l) \in BOOLEAN
  BY DEF Known
<1>2. Shape(EnsureMeans(p, r, l, Quirks)) /\ Shape(RescueMeans(p, r, l))
  BY <1>1, EnsureIs, RescueIs
<1>3. Shape(EnsureMeans(p, RescueMeans(p, r, l), l, Quirks))
  BY <1>1, <1>2, EnsureIs
<1>4. "throw" \in Quirks /\ "tags" \in Quirks
  BY DEF Quirks
<1>5. CASE kind \in Procedures
  <2> DEFINE none == {}
             way == IF r.way.how = "return" THEN Normally ELSE r.way
  <2>1. Construct(p, r, l) = [way |-> way, log |-> r.log,
                              suppressed |-> r.suppressed, lost |-> none]
    <3>1. Construct(p, r, l) =
            [r EXCEPT !.lost = {},
                      !.way = IF @.how = "return" THEN Normally ELSE @]
      BY <1>5, KindsAre, Zenon DEF Construct, ConstructMeans, KindIn
    <3> QED
      BY <3>1 DEF Shape
  <2>2. \A j : j \notin none
    OBVIOUS
  <2> HIDE DEF none, way
  <2>4. /\ Shape(Construct(p, r, l)) /\ Construct(p, r, l).way = way
        /\ Construct(p, r, l).log = r.log
        /\ Construct(p, r, l).suppressed = r.suppressed
        /\ Construct(p, r, l).lost = none
    BY <2>1 DEF Shape
  <2>5. kind # "ensure" /\ kind # "rescue" /\ kind # "both" /\ kind # "catch"
    BY <1>5, KindsAre
  <2>6. Construct(p, r, l).way = IF r.way.how = "return" THEN Normally ELSE r.way
    BY <2>4 DEF way
  <2> QED
    BY <1>5, <2>2, <2>4, <2>5, <2>6
<1>6. CASE kind = "ensure"
  <2>1. Construct(p, r, l) = EnsureMeans(p, r, l, Quirks)
    BY <1>6, KindsAre DEF Construct, ConstructMeans, KindIn
  <2>2. kind \notin Procedures
    BY <1>6, KindsAre
  <2> QED
    BY <1>2, <1>6, <2>1, <2>2
<1>7. CASE kind = "rescue"
  <2>1. Construct(p, r, l) = RescueMeans(p, r, l)
    BY <1>7, KindsAre DEF Construct, ConstructMeans, KindIn
  <2>2. kind \notin Procedures
    BY <1>7, KindsAre
  <2> QED
    BY <1>2, <1>7, <2>1, <2>2
<1>8. CASE kind = "both"
  <2>1. Construct(p, r, l) = IF r.way.how = "throw" THEN r
                             ELSE EnsureMeans(p, RescueMeans(p, r, l), l, Quirks)
    BY <1>4, <1>8, KindsAre DEF Construct, ConstructMeans, KindIn
  <2>2. kind \notin Procedures
    BY <1>8, KindsAre
  <2> QED
    BY <1>3, <1>8, <2>1, <2>2
<1>9. CASE kind = "catch"
  <2>1. Construct(p, r, l) = IF r.way = Thrown(l) /\ ~(l \in r.lost)
                             THEN WithWay(r, Normally) ELSE r
    BY <1>4, <1>9, KindsAre DEF Construct, ConstructMeans, KindIn, WithWay, Thrown
  <2>2. kind \notin Procedures
    BY <1>9, KindsAre
  <2>3. Shape(WithWay(r, Normally))
    BY FieldsAre
  <2> QED
    BY <1>9, <2>1, <2>2, <2>3
<1> QED
  BY <1>1, <1>5, <1>6, <1>7, <1>8, <1>9, KindsAre

\* What an act makes of code that has ended.
ActOf(p, l) == IF l > DepthOf(p) THEN p.innermost ELSE AfterIn(p, l)
ActEnds(p, k, l) ==
  IF ActOf(p, l).do = "sleep" /\ l = k THEN Faulted
  ELSE WayOut(ActOf(p, l), Normally, Site("act", l))

LEMMA AfterIs ==
  ASSUME NEW p, Known(p), NEW k, NEW r, Shape(r), NEW l \in 1 .. DepthOf(p)
  PROVE  /\ Shape(After(p, k, r, l)) /\ After(p, k, r, l).log = r.log
         /\ After(p, k, r, l).suppressed = r.suppressed
         /\ After(p, k, r, l).lost = r.lost
         /\ r.way # Normally => After(p, k, r, l) = r
         /\ r.way = Normally => After(p, k, r, l).way = ActEnds(p, k, l)
<1> DEFINE met == l = k
           act == AfterIn(p, l)
<1>1. act \in Acts /\ met \in BOOLEAN /\ ~(l > DepthOf(p))
  BY DEF Known
<1>2. ActOf(p, l) = act
  BY <1>1 DEF ActOf
<1>3. CASE r.way # Normally
  BY <1>3 DEF After
<1>4. CASE r.way = Normally
  <2>1. After(p, k, r, l) = Does(r, act, Site("act", l), met)
    BY <1>4 DEF After
  <2>2. ActEnds(p, k, l) = IF act.do = "sleep" /\ met THEN Faulted
                           ELSE WayOut(act, Normally, Site("act", l))
    BY <1>2 DEF ActEnds
  <2> HIDE DEF act, met
  <2>3. /\ Shape(Does(r, act, Site("act", l), met))
        /\ Does(r, act, Site("act", l), met).log = r.log
        /\ Does(r, act, Site("act", l), met).suppressed = r.suppressed
        /\ Does(r, act, Site("act", l), met).lost = r.lost
        /\ Does(r, act, Site("act", l), met).way =
             IF act.do = "sleep" /\ met THEN Faulted
             ELSE WayOut(act, r.way, Site("act", l))
    BY <1>1, DoesIs
  <2> QED
    BY <1>4, <2>1, <2>2, <2>3
<1> QED
  BY <1>3, <1>4

LEMMA MeansIs ==
  ASSUME NEW p, Known(p), NEW k, NEW l \in 1 .. DepthOf(p)
  PROVE  Means(p, k, l) = After(p, k, Construct(p, Means(p, k, l + 1), l), l)
<1>1. DepthOf(p) \in Nat
  BY DEF Known
<1> QED
  BY <1>1, MeansUnfolds

LEMMA InnermostIs ==
  ASSUME NEW p, Known(p), NEW k
  PROVE  /\ Shape(Means(p, k, DepthOf(p) + 1))
         /\ Means(p, k, DepthOf(p) + 1).log = <<>>
         /\ \A x : x \notin Means(p, k, DepthOf(p) + 1).suppressed
         /\ \A x : x \notin Means(p, k, DepthOf(p) + 1).lost
         /\ Means(p, k, DepthOf(p) + 1).way = ActEnds(p, k, DepthOf(p) + 1)
<1> DEFINE l == DepthOf(p) + 1
           met == l = k
           act == p.innermost
<1>1. act \in Acts /\ met \in BOOLEAN /\ l > DepthOf(p) /\ DepthOf(p) \in Nat
  BY DEF Known
<1>2. ActOf(p, l) = act
  BY <1>1 DEF ActOf
<1>3. /\ Shape(Nothing) /\ Nothing.way = Normally /\ Nothing.log = <<>>
      /\ \A x : x \notin Nothing.suppressed /\ x \notin Nothing.lost
  BY DEF Nothing, Shape
<1>4. Means(p, k, l) = Does(Nothing, act, Site("act", l), met)
  BY <1>1, MeansUnfolds DEF InnermostMeans
<1>5. ActEnds(p, k, l) = IF act.do = "sleep" /\ met THEN Faulted
                         ELSE WayOut(act, Normally, Site("act", l))
  BY <1>2 DEF ActEnds
<1> HIDE DEF act, met, l
<1>6. /\ Shape(Does(Nothing, act, Site("act", l), met))
      /\ Does(Nothing, act, Site("act", l), met).log = Nothing.log
      /\ Does(Nothing, act, Site("act", l), met).suppressed = Nothing.suppressed
      /\ Does(Nothing, act, Site("act", l), met).lost = Nothing.lost
      /\ Does(Nothing, act, Site("act", l), met).way =
           IF act.do = "sleep" /\ met THEN Faulted
           ELSE WayOut(act, Nothing.way, Site("act", l))
  BY <1>1, <1>3, DoesIs
<1>7. /\ Shape(Means(p, k, l)) /\ Means(p, k, l).log = <<>>
      /\ \A x : x \notin Means(p, k, l).suppressed /\ x \notin Means(p, k, l).lost
      /\ Means(p, k, l).way = ActEnds(p, k, l)
  BY <1>3, <1>4, <1>5, <1>6
<1> QED
  BY <1>7 DEF l

LEMMA MeansShape ==
  ASSUME NEW p, Known(p), NEW k, NEW l \in 1 .. (DepthOf(p) + 1)
  PROVE  Shape(Means(p, k, l))
<1> DEFINE m == DepthOf(p)
           S == {n \in 0 .. m : Shape(Means(p, k, m + 1 - n))}
<1>1. m \in Nat
  BY DEF Known
<1>m. m = DepthOf(p)
  OBVIOUS
<1> HIDE DEF m
<1>2. 0 \in S
  <2>1. m + 1 - 0 = m + 1 /\ 0 \in 0 .. m
    BY <1>1
  <2>2. Shape(Means(p, k, m + 1))
    BY <1>m, InnermostIs
  <2> QED
    BY <2>1, <2>2
<1>3. ASSUME NEW n \in 0 .. (m - 1), n \in S PROVE n + 1 \in S
  <2> DEFINE a == m + 1 - (n + 1)
  <2>1. a \in 1 .. m /\ m + 1 - n = a + 1 /\ n + 1 \in 0 .. m
    BY <1>1
  <2>2. Shape(Means(p, k, a + 1))
    BY <1>3, <2>1
  <2> HIDE DEF a
  <2>3. Shape(Construct(p, Means(p, k, a + 1), a))
    BY <1>m, <2>1, <2>2, ConstructIs
  <2>4. Means(p, k, a) = After(p, k, Construct(p, Means(p, k, a + 1), a), a)
    BY <1>1, <1>m, <2>1, MeansUnfolds
  <2>5. Shape(Means(p, k, a))
    BY <1>m, <2>1, <2>3, <2>4, AfterIs
  <2> QED
    BY <2>1, <2>5 DEF a
<1>4. \A n \in 0 .. m : n \in S
  <2> HIDE DEF S
  <2> QED
    BY <1>1, <1>2, <1>3, CountingUp
<1>5. m + 1 - l \in 0 .. m /\ m + 1 - (m + 1 - l) = l
  BY <1>1, <1>m
<1> QED
  BY <1>4, <1>5

\* The constructs that code is left through without a clause.
Passing(how, kind) ==
  /\ how \in {"raise", "throw", "return", "fault"}
  /\ how = "raise" => kind \notin Ensured \cup Rescued
  /\ how = "throw" => kind \notin {"ensure", "catch"}
  /\ how = "return" => kind \notin Ensured \cup Procedures

LEMMA PassesBy ==
  ASSUME NEW p, Known(p), NEW k, NEW l \in 1 .. DepthOf(p),
         Passing(Means(p, k, l + 1).way.how, KindIn(p, l))
  PROVE  /\ Means(p, k, l).way = Means(p, k, l + 1).way
         /\ Means(p, k, l).log = Means(p, k, l + 1).log
         /\ Means(p, k, l).suppressed = Means(p, k, l + 1).suppressed
         /\ KindIn(p, l) \notin Procedures =>
              Means(p, k, l).lost = Means(p, k, l + 1).lost
<1> DEFINE r == Means(p, k, l + 1)
           c == Construct(p, r, l)
           kind == KindIn(p, l)
<1>1. /\ DepthOf(p) \in Nat /\ l + 1 \in 1 .. (DepthOf(p) + 1)
      /\ kind \in Kinds /\ ClauseIn(p, l) \in Acts /\ FinallyIn(p, l) \in Acts
      /\ MatchesIn(p, l) \in BOOLEAN
  BY DEF Known
<1>2. Shape(r)
  BY <1>1, MeansShape
<1>3. Means(p, k, l) = After(p, k, c, l)
  BY MeansIs
<1>4. Passing(r.way.how, kind)
  OBVIOUS
<1> HIDE DEF r
<1>5. Shape(c)
  BY <1>2, ConstructIs
<1>6. r.way # Normally /\ r.way # Way("end", <<>>)
  BY <1>4, ReasonsAre DEF Passing, Normally
<1>7. /\ c.way = r.way /\ c.log = r.log /\ c.suppressed = r.suppressed
      /\ kind \notin Procedures => c.lost = r.lost
  <2>1. CASE kind \in Procedures
    <3>1. r.way.how # "return"
      BY <1>4, <2>1, KindsAre DEF Passing
    <3> QED
      BY <1>2, <2>1, <3>1, ConstructIs
  <2>2. CASE kind = "ensure"
    <3>1. r.way.how = "fault"
      BY <1>4, <2>2, KindsAre DEF Passing
    <3>2. c = EnsureMeans(p, r, l, Quirks)
      BY <1>2, <2>2, ConstructIs
    <3>3. EnsureMeans(p, r, l, Quirks) = r
      BY <1>1, <1>2, <3>1, EnsureIs
    <3> HIDE DEF c
    <3> QED
      BY <3>2, <3>3
  <2>3. CASE kind = "rescue"
    <3>1. r.way.how # "raise"
      BY <1>4, <2>3, KindsAre DEF Passing
    <3>2. c = RescueMeans(p, r, l)
      BY <1>2, <2>3, ConstructIs
    <3>3. RescueMeans(p, r, l) = r
      BY <1>1, <1>2, <3>1, RescueIs
    <3> HIDE DEF c
    <3> QED
      BY <3>2, <3>3
  <2>4. CASE kind = "both"
    <3>1. r.way.how = "fault" \/ r.way.how = "throw"
      BY <1>4, <2>4, KindsAre DEF Passing
    <3>2. RescueMeans(p, r, l) = r
      BY <1>1, <1>2, <3>1, RescueIs
    <3>3. r.way.how = "fault" => EnsureMeans(p, r, l, Quirks) = r
      BY <1>1, <1>2, EnsureIs
    <3>4. c = r
      BY <1>2, <2>4, <3>1, <3>2, <3>3, ConstructIs
    <3> HIDE DEF c
    <3> QED
      BY <3>4
  <2>5. CASE kind = "catch"
    <3>1. r.way.how # "throw"
      BY <1>4, <2>5 DEF Passing
    <3>2. r.way # Thrown(l)
      BY <3>1 DEF Way, Thrown
    <3>3. c = r
      BY <1>2, <2>5, <3>2, ConstructIs
    <3> QED
      BY <3>3
  <2> QED
    BY <1>1, <2>1, <2>2, <2>3, <2>4, <2>5, KindsAre
<1> HIDE DEF c
<1>8. After(p, k, c, l) = c
  BY <1>5, <1>6, <1>7, AfterIs
<1>9. Means(p, k, l) = c
  BY <1>3, <1>8
<1> QED
  BY <1>7, <1>9 DEF r

\* Tags told only beyond the last construct are none.
LEMMA TellsOfSame ==
  ASSUME NEW p, Known(p), NEW r, NEW q, NEW way, NEW lost, NEW of, NEW lg, NEW sp,
         q.way = r.way, q.log = r.log, q.suppressed = r.suppressed,
         of = DepthOf(p) \/ q.lost = r.lost,
         Tells(p, r, way, lost, of, lg, sp)
  PROVE  Tells(p, q, way, lost, of, lg, sp)
BY DEF Tells, Known

LEMMA TellsEnds ==
  ASSUME NEW p, Known(p), NEW r, NEW way, NEW lost, NEW of, NEW lg, NEW sp,
         Tells(p, r, way, lost, of, lg, sp)
  PROVE  Ends(p, r, way, lg, sp)
BY DEF Tells, Ends, Known

\* Code that is left through constructs without a clause.
LEMMA PassesDown ==
  ASSUME NEW p, Known(p), NEW k, NEW high \in 1 .. (DepthOf(p) + 1), NEW low \in 1 .. high,
         NEW way, NEW lost, NEW of, NEW lg, NEW sp,
         \A l \in low .. (high - 1) :
           /\ Passing(way.how, KindIn(p, l))
           /\ of = DepthOf(p) \/ KindIn(p, l) \notin Procedures,
         Tells(p, Means(p, k, high), way, lost, of, lg, sp)
  PROVE  Tells(p, Means(p, k, low), way, lost, of, lg, sp)
<1> DEFINE d == high - low
           S == {n \in 0 .. d : Tells(p, Means(p, k, high - n), way, lost, of, lg, sp)}
<1>1. DepthOf(p) \in Nat /\ d \in Nat /\ high - 0 = high /\ 0 \in 0 .. d
  BY DEF Known
<1>2. 0 \in S
  BY <1>1
<1>3. ASSUME NEW n \in 0 .. (d - 1), n \in S PROVE n + 1 \in S
  <2> DEFINE l == high - (n + 1)
  <2>a. /\ high \in Nat /\ low \in Nat /\ 1 <= low /\ low <= high /\ n \in Nat
        /\ high - 1 <= DepthOf(p) /\ n + 1 <= d
    BY <1>1
  <2>1. /\ l \in low .. (high - 1) /\ l \in 1 .. DepthOf(p) /\ high - n = l + 1
        /\ n + 1 \in 0 .. d
    BY <1>1, <2>a
  <2>2. Tells(p, Means(p, k, l + 1), way, lost, of, lg, sp)
    BY <1>3, <2>1
  <2>3. Passing(way.how, KindIn(p, l)) /\ (of = DepthOf(p) \/ KindIn(p, l) \notin Procedures)
    BY <2>1
  <2> HIDE DEF l
  <2>4. Means(p, k, l + 1).way = way
    BY <2>2 DEF Tells
  <2>5. /\ Means(p, k, l).way = Means(p, k, l + 1).way
        /\ Means(p, k, l).log = Means(p, k, l + 1).log
        /\ Means(p, k, l).suppressed = Means(p, k, l + 1).suppressed
        /\ KindIn(p, l) \notin Procedures =>
             Means(p, k, l).lost = Means(p, k, l + 1).lost
    BY <2>1, <2>3, <2>4, PassesBy
  <2>6. Tells(p, Means(p, k, l), way, lost, of, lg, sp)
    BY <2>2, <2>3, <2>5, TellsOfSame
  <2> QED
    BY <2>1, <2>6 DEF l
<1>4. \A n \in 0 .. d : n \in S
  <2> HIDE DEF S, d
  <2> QED
    BY <1>1, <1>2, <1>3, CountingUp
<1>5. d \in 0 .. d /\ high - d = low
  BY <1>1
<1> QED
  BY <1>4, <1>5

LEMMA PassesToEnd ==
  ASSUME NEW p, Known(p), NEW k, NEW high \in 1 .. (DepthOf(p) + 1), NEW low \in 1 .. high,
         NEW way, NEW lg, NEW sp,
         \A l \in low .. (high - 1) : Passing(way.how, KindIn(p, l)),
         Ends(p, Means(p, k, high), way, lg, sp)
  PROVE  Ends(p, Means(p, k, low), way, lg, sp)
<1> DEFINE of == DepthOf(p)
<1>1. Tells(p, Means(p, k, high), way, NoTags, of, lg, sp)
  BY DEF Ends
<1>2. \A l \in low .. (high - 1) :
        /\ Passing(way.how, KindIn(p, l))
        /\ of = DepthOf(p) \/ KindIn(p, l) \notin Procedures
  OBVIOUS
<1> HIDE DEF of
<1>3. Tells(p, Means(p, k, low), way, NoTags, of, lg, sp)
  BY <1>1, <1>2, PassesDown
<1> QED
  BY <1>3 DEF of, Ends

\* Code that is left through a call.
LEMMA PassesCall ==
  ASSUME NEW p, Known(p), NEW k, NEW l \in 1 .. DepthOf(p), NEW way, NEW of, NEW lg,
         NEW sp, KindIn(p, l) \in Procedures, way.how \in {"raise", "throw", "fault"},
         Ends(p, Means(p, k, l + 1), way, lg, sp)
  PROVE  Tells(p, Means(p, k, l), way, NoTags, of, lg, sp)
<1> DEFINE r == Means(p, k, l + 1)
           c == Construct(p, r, l)
<1>1. DepthOf(p) \in Nat /\ l + 1 \in 1 .. (DepthOf(p) + 1)
  BY DEF Known
<1>2. Shape(r)
  BY <1>1, MeansShape
<1>3. Means(p, k, l) = After(p, k, c, l)
  BY MeansIs
<1>4. r.way = way /\ r.log = lg /\ r.suppressed = Range(sp)
  BY DEF Ends, Tells
<1> HIDE DEF r
<1>5. /\ Shape(c) /\ c.way = r.way /\ c.log = r.log /\ c.suppressed = r.suppressed
      /\ \A j : j \notin c.lost
  BY <1>2, <1>4, ConstructIs
<1> HIDE DEF c
<1>6. way # Normally
  BY ReasonsAre
<1>7. Means(p, k, l) = c
  BY <1>3, <1>4, <1>5, <1>6, AfterIs
<1> QED
  BY <1>4, <1>5, <1>7 DEF Tells, NoTags

\* A call has come back.
LEMMA CallComesBack ==
  ASSUME NEW p, Known(p), NEW k, NEW l \in 1 .. DepthOf(p), NEW of, NEW lg, NEW sp,
         KindIn(p, l) \in Procedures,
         Ends(p, Closed(Means(p, k, l + 1)), Normally, lg, sp)
  PROVE  Tells(p, Construct(p, Means(p, k, l + 1), l), Normally, NoTags, of, lg, sp)
<1> DEFINE r == Means(p, k, l + 1)
           c == Construct(p, r, l)
           way == IF r.way.how = "return" THEN Normally ELSE r.way
<1>1. DepthOf(p) \in Nat /\ l + 1 \in 1 .. (DepthOf(p) + 1)
  BY DEF Known
<1>2. Shape(r)
  BY <1>1, MeansShape
<1> HIDE DEF r
<1>3. Closed(r) = WithWay(r, way)
  BY DEF Closed, WithWay
<1>4. Closed(r).way = way /\ Closed(r).log = r.log /\ Closed(r).suppressed = r.suppressed
  <2> HIDE DEF way
  <2> QED
    BY <1>2, <1>3, FieldsAre
<1>5. Closed(r).way = Normally /\ Closed(r).log = lg /\ Closed(r).suppressed = Range(sp)
  BY DEF Ends, Tells, r
<1>6. /\ Shape(c) /\ c.way = way /\ c.log = r.log /\ c.suppressed = r.suppressed
      /\ \A j : j \notin c.lost
  BY <1>2, ConstructIs
<1> HIDE DEF c, way
<1>7. Tells(p, c, Normally, NoTags, of, lg, sp)
  BY <1>4, <1>5, <1>6 DEF Tells, NoTags
<1> QED
  BY <1>7 DEF c, r

\* A program or a block has ended.
LEMMA EndsClosed ==
  ASSUME NEW p, Known(p), NEW k, NEW l \in 1 .. (DepthOf(p) + 1), NEW lg, NEW sp,
         NEW way, way = Normally \/ way = Returning,
         Ends(p, Means(p, k, l), way, lg, sp)
  PROVE  Ends(p, Closed(Means(p, k, l)), Normally, lg, sp)
<1> DEFINE r == Means(p, k, l)
           w == IF r.way.how = "return" THEN Normally ELSE r.way
<1>1. Shape(r)
  BY MeansShape
<1>2. r.way = way /\ r.log = lg /\ r.suppressed = Range(sp)
  BY DEF Ends, Tells
<1> HIDE DEF r
<1>3. Closed(r) = WithWay(r, w)
  BY DEF Closed, WithWay
<1>4. w = Normally
  <2>1. Returning.how = "return" /\ Normally.how = "end"
    BY DEF Returning, Way, Normally
  <2> QED
    BY <1>2, <2>1
<1>5. Closed(r).way = Normally /\ Closed(r).log = r.log
      /\ Closed(r).suppressed = r.suppressed
  <2> HIDE DEF w
  <2> QED
    BY <1>1, <1>3, <1>4, FieldsAre
<1>6. Ends(p, Closed(r), Normally, lg, sp)
  BY <1>2, <1>5 DEF Ends, Tells, Known
<1> QED
  BY <1>6 DEF r

\* The act after a construct that has ended.
LEMMA ActTells ==
  ASSUME NEW p, Known(p), NEW k, NEW l \in 1 .. DepthOf(p), NEW lost, NEW of, NEW lg,
         NEW sp, Tells(p, Construct(p, Means(p, k, l + 1), l), Normally, lost, of, lg, sp)
  PROVE  Tells(p, Means(p, k, l), ActEnds(p, k, l), lost, of, lg, sp)
<1> DEFINE r == Means(p, k, l + 1)
           c == Construct(p, r, l)
<1>1. DepthOf(p) \in Nat /\ l + 1 \in 1 .. (DepthOf(p) + 1)
  BY DEF Known
<1>2. Shape(r)
  BY <1>1, MeansShape
<1>3. Means(p, k, l) = After(p, k, c, l)
  BY MeansIs
<1> HIDE DEF r
<1>4. Shape(c)
  BY <1>2, ConstructIs
<1>5. Tells(p, c, Normally, lost, of, lg, sp)
  BY DEF r
<1> HIDE DEF c
<1>6. c.way = Normally
  BY <1>5 DEF Tells
<1>7. /\ Means(p, k, l).way = ActEnds(p, k, l) /\ Means(p, k, l).log = c.log
      /\ Means(p, k, l).suppressed = c.suppressed /\ Means(p, k, l).lost = c.lost
  BY <1>3, <1>4, <1>6, AfterIs
<1> QED
  BY <1>5, <1>7 DEF Tells

LEMMA InnermostTells ==
  ASSUME NEW p, Known(p), NEW k, NEW of, NEW lg, NEW sp, Silent(lg, sp)
  PROVE  Tells(p, Means(p, k, DepthOf(p) + 1), ActEnds(p, k, DepthOf(p) + 1),
               NoTags, of, lg, sp)
<1> DEFINE r == Means(p, k, DepthOf(p) + 1)
<1>1. /\ r.log = <<>> /\ \A x : x \notin r.suppressed /\ x \notin r.lost
      /\ r.way = ActEnds(p, k, DepthOf(p) + 1)
  BY InnermostIs
<1> HIDE DEF r
<1>2. lg = <<>> /\ sp = <<>>
  BY DEF Silent
<1>3. r.suppressed = Range(sp)
  BY <1>1, <1>2 DEF Range
<1>4. Tells(p, r, ActEnds(p, k, DepthOf(p) + 1), NoTags, of, lg, sp)
  BY <1>1, <1>2, <1>3 DEF Tells, NoTags
<1> QED
  BY <1>4 DEF r

\* A construct that has not ended is left.
LEMMA LeftTells ==
  ASSUME NEW p, Known(p), NEW k, NEW l \in 1 .. DepthOf(p), NEW way, NEW lost, NEW of,
         NEW lg, NEW sp, way # Normally,
         Tells(p, Construct(p, Means(p, k, l + 1), l), way, lost, of, lg, sp)
  PROVE  Tells(p, Means(p, k, l), way, lost, of, lg, sp)
<1> DEFINE r == Means(p, k, l + 1)
           c == Construct(p, r, l)
<1>1. DepthOf(p) \in Nat /\ l + 1 \in 1 .. (DepthOf(p) + 1)
  BY DEF Known
<1>2. Shape(r)
  BY <1>1, MeansShape
<1>3. Means(p, k, l) = After(p, k, c, l)
  BY MeansIs
<1> HIDE DEF r
<1>4. Shape(c)
  BY <1>2, ConstructIs
<1>5. Tells(p, c, way, lost, of, lg, sp)
  BY DEF r
<1> HIDE DEF c
<1>6. c.way # Normally
  BY <1>5 DEF Tells
<1>7. Means(p, k, l) = c
  BY <1>3, <1>4, <1>6, AfterIs
<1> QED
  BY <1>5, <1>7

\* An ensure clause, run for the result q.
LEMMA EnsureTold ==
  ASSUME NEW p, Known(p), NEW l \in 1 .. DepthOf(p), NEW q, Shape(q), NEW way, NEW lost,
         NEW of, NEW lg, NEW sp, NEW sq, q.way = way, way.how # "fault",
         Tells(p, IF way.how = "raise" THEN Costs(p, q, l) ELSE q, way, lost, of, lg, sp),
         Range(sq) = IF FinallyIn(p, l).do = "raise" /\ way.how = "raise"
                     THEN Doubled(Range(sp), l, way.what) ELSE Range(sp)
  PROVE  Tells(p, EnsureMeans(p, q, l, Quirks),
               WayOut(FinallyIn(p, l), way, Site("finally", l)), lost, of,
               Logged(p, lg, "ensure", l), sq)
<1> DEFINE c == IF way.how = "raise" THEN Costs(p, q, l) ELSE q
           e == EnsureMeans(p, q, l, Quirks)
           act == FinallyIn(p, l)
<1>1. FinallyIn(p, l) \in Acts
  BY DEF Known
<1>2. Tells(p, c, way, lost, of, lg, sp)
  OBVIOUS
<1>3. /\ c.log = q.log /\ c.suppressed = q.suppressed /\ c.way = way
      /\ c.lost = IF way.how = "raise" THEN Costs(p, q, l).lost ELSE q.lost
  BY CostsIs
<1> HIDE DEF c
<1>4. /\ e.way = WayOut(act, way, Site("finally", l))
      /\ e.log = Logged(p, q.log, "ensure", l)
      /\ e.suppressed = IF act.do = "raise" /\ way.how = "raise"
                        THEN Doubled(q.suppressed, l, way.what) ELSE q.suppressed
      /\ e.lost = IF way.how = "raise" THEN Costs(p, q, l).lost ELSE q.lost
  <2>1. q.way.how # "fault"
    OBVIOUS
  <2> HIDE DEF act, e
  <2>2. /\ EnsureMeans(p, q, l, Quirks).way =
             WayOut(FinallyIn(p, l), q.way, Site("finally", l))
        /\ EnsureMeans(p, q, l, Quirks).log = Logged(p, q.log, "ensure", l)
        /\ EnsureMeans(p, q, l, Quirks).suppressed =
             IF FinallyIn(p, l).do = "raise" /\ q.way.how = "raise"
             THEN Doubled(q.suppressed, l, q.way.what) ELSE q.suppressed
        /\ EnsureMeans(p, q, l, Quirks).lost =
             IF q.way.how = "raise" THEN Costs(p, q, l).lost ELSE q.lost
    BY <1>1, <2>1, EnsureIs
  <2> QED
    BY <2>2 DEF act, e
<1> HIDE DEF e
<1>5. q.log = lg /\ q.suppressed = Range(sp) /\ e.lost = c.lost
  BY <1>2, <1>3, <1>4 DEF Tells
<1>6. e.suppressed = Range(sq)
  BY <1>4, <1>5
<1>7. Tells(p, e, WayOut(act, way, Site("finally", l)), lost, of,
            Logged(p, lg, "ensure", l), sq)
  BY <1>2, <1>4, <1>5, <1>6 DEF Tells
<1> QED
  BY <1>7 DEF e

\* A rescue clause, given what r has raised.
LEMMA RescueTold ==
  ASSUME NEW p, Known(p), NEW l \in 1 .. DepthOf(p), NEW r, Shape(r), NEW way, NEW lost,
         NEW of, NEW lg, NEW sp, r.way.how = "raise",
         Tells(p, Costs(p, r, l), way, lost, of, lg, sp)
  PROVE  /\ MatchesIn(p, l) =>
              Tells(p, RescueMeans(p, r, l),
                    WayOut(ClauseIn(p, l), Normally, Site("clause", l)), lost, of,
                    Logged(p, lg, "rescue", l), sp)
         /\ ~MatchesIn(p, l) => Tells(p, RescueMeans(p, r, l), way, lost, of, lg, sp)
<1> DEFINE c == Costs(p, r, l)
           e == RescueMeans(p, r, l)
           act == ClauseIn(p, l)
<1>1. ClauseIn(p, l) \in Acts /\ MatchesIn(p, l) \in BOOLEAN
  BY DEF Known
<1>2. c.log = r.log /\ c.suppressed = r.suppressed
  BY CostsIs
<1>3. CASE MatchesIn(p, l)
  <2> HIDE DEF c, e, act
  <2>1. /\ e.way = WayOut(act, Normally, Site("clause", l))
        /\ e.log = Logged(p, r.log, "rescue", l)
        /\ e.suppressed = r.suppressed /\ e.lost = c.lost
    <3>1. /\ RescueMeans(p, r, l).way =
               WayOut(ClauseIn(p, l), Normally, Site("clause", l))
          /\ RescueMeans(p, r, l).log = Logged(p, r.log, "rescue", l)
          /\ RescueMeans(p, r, l).suppressed = r.suppressed
          /\ RescueMeans(p, r, l).lost = Costs(p, r, l).lost
      BY <1>1, <1>3, RescueIs
    <3> QED
      BY <3>1 DEF e, act, c
  <2>2. Tells(p, c, way, lost, of, lg, sp)
    BY DEF c
  <2>3. Tells(p, e, WayOut(act, Normally, Site("clause", l)), lost, of,
              Logged(p, lg, "rescue", l), sp)
    BY <1>2, <2>1, <2>2 DEF Tells
  <2> QED
    BY <1>3, <2>3 DEF e, act
<1>4. CASE ~MatchesIn(p, l)
  BY <1>1, <1>4, RescueIs
<1> QED
  BY <1>3, <1>4

\* A catch, to which something is thrown.
LEMMA CatchTold ==
  ASSUME NEW p, Known(p), NEW k, NEW l \in 1 .. DepthOf(p), NEW way, NEW lost, NEW of,
         NEW lg, NEW sp, KindIn(p, l) = "catch", l > of,
         Tells(p, Means(p, k, l + 1), way, lost, of, lg, sp)
  PROVE  Tells(p, Construct(p, Means(p, k, l + 1), l),
               IF way = Thrown(l) /\ l \notin lost THEN Normally ELSE way,
               lost, of, lg, sp)
<1> DEFINE r == Means(p, k, l + 1)
           c == Construct(p, r, l)
<1>1. DepthOf(p) \in Nat /\ l + 1 \in 1 .. (DepthOf(p) + 1)
  BY DEF Known
<1>2. Shape(r)
  BY <1>1, MeansShape
<1>3. Tells(p, r, way, lost, of, lg, sp)
  OBVIOUS
<1> HIDE DEF r
<1>4. r.way = way /\ (l \in r.lost <=> l \in lost)
  BY <1>1, <1>3 DEF Tells
<1>5. KindIn(p, l) \notin Procedures
  BY KindsAre
<1>6. CASE way = Thrown(l) /\ l \notin lost
  <2>1. c = WithWay(r, Normally)
    BY <1>2, <1>4, <1>6, ConstructIs
  <2>2. /\ c.way = Normally /\ c.log = r.log /\ c.suppressed = r.suppressed
        /\ c.lost = r.lost
    BY <1>2, <2>1, FieldsAre
  <2> HIDE DEF c
  <2>3. Tells(p, c, Normally, lost, of, lg, sp)
    BY <1>3, <2>2 DEF Tells
  <2> QED
    BY <1>6, <2>3 DEF c, r
<1>7. CASE ~(way = Thrown(l) /\ l \notin lost)
  <2>1. c = r
    BY <1>2, <1>4, <1>7, ConstructIs
  <2> QED
    BY <1>3, <1>7, <2>1 DEF c, r
<1> QED
  BY <1>6, <1>7

\* A construct that has nothing to do for code that has ended.
LEMMA QuietTells ==
  ASSUME NEW p, Known(p), NEW k, NEW l \in 1 .. DepthOf(p), NEW lost, NEW of, NEW lg,
         NEW sp, KindIn(p, l) \notin Ensured, KindIn(p, l) \notin Procedures,
         Tells(p, Means(p, k, l + 1), Normally, lost, of, lg, sp)
  PROVE  Tells(p, Construct(p, Means(p, k, l + 1), l), Normally, lost, of, lg, sp)
<1> DEFINE r == Means(p, k, l + 1)
           c == Construct(p, r, l)
<1>1. /\ DepthOf(p) \in Nat /\ l + 1 \in 1 .. (DepthOf(p) + 1)
      /\ KindIn(p, l) \in Kinds
      /\ ClauseIn(p, l) \in Acts /\ MatchesIn(p, l) \in BOOLEAN
  BY DEF Known
<1>2. Shape(r)
  BY <1>1, MeansShape
<1>3. r.way = Normally
  BY DEF Tells
<1> HIDE DEF r
<1>4. Normally.how = "end" /\ Normally # Thrown(l)
  BY DEF Normally, Thrown, Way
<1>5. KindIn(p, l) = "rescue" \/ KindIn(p, l) = "catch"
  BY <1>1, KindsAre
<1>6. RescueMeans(p, r, l) = r
  <2>1. r.way.how # "raise"
    BY <1>3, <1>4
  <2> QED
    BY <1>1, <1>2, <2>1, RescueIs
<1>7. c = r
  BY <1>2, <1>3, <1>4, <1>5, <1>6, ConstructIs
<1> QED
  BY <1>7 DEF c, r

-----------------------------------------------------------------------------
(* What frames say of a program *)

LEMMA KnownIs ==
  /\ DepthOf(program) = Depth
  /\ \A l : /\ KindIn(program, l) = Kind(l) /\ AfterIn(program, l) = At(l).after
            /\ ClauseIn(program, l) = At(l).clause
            /\ FinallyIn(program, l) = At(l).finally
            /\ MatchesIn(program, l) = At(l).matches
BY DEF DepthOf, KindIn, AfterIn, ClauseIn, FinallyIn, MatchesIn, Depth, Kind, At

LEMMA GotoIs ==
  ASSUME NEW f \in FrameRecord, NEW step, NEW level
  PROVE  /\ Goto(f, step, level).code = f.code /\ Goto(f, step, level).of = f.of
         /\ Goto(f, step, level).step = step /\ Goto(f, step, level).level = level
         /\ Goto(f, step, level).exception = f.exception
         /\ Goto(f, step, level).pending = f.pending
         /\ Goto(f, step, level).lost = f.lost /\ Goto(f, step, level).kept = f.kept
         /\ Goto(f, step, level).scope = f.scope
BY DEF Goto, FrameRecord

\* The tags that are kept are those of the caller.
LostAfter(u, f, j) == IF j \in f.kept THEN j \in u.lost ELSE j \in f.lost

LEMMA MergedIs ==
  ASSUME NEW u \in FrameRecord, NEW f
  PROVE  /\ Merged(u, f).code = u.code /\ Merged(u, f).of = u.of
         /\ Merged(u, f).step = u.step /\ Merged(u, f).level = u.level
         /\ Merged(u, f).exception = u.exception
         /\ Merged(u, f).pending = u.pending
         /\ Merged(u, f).kept = u.kept /\ Merged(u, f).scope = u.scope
         /\ \A j : j \in Merged(u, f).lost <=> LostAfter(u, f, j)
<1> DEFINE lost == (f.lost \ f.kept) \cup (u.lost \cap f.kept)
<1>1. Merged(u, f) = [u EXCEPT !.lost = lost]
  BY DEF Merged
<1>2. \A j : j \in lost <=> LostAfter(u, f, j)
  BY DEF LostAfter
<1> HIDE DEF lost
<1> QED
  BY <1>1, <1>2 DEF FrameRecord

LEMMA TellFront ==
  ASSUME NEW fs \in Seq(FrameRecord), fs # <<>>, FramesTell(fs)
  PROVE  FramesTell(Front(fs))
<1> DEFINE t == Front(fs)
           n == Len(fs)
<1>1. /\ t \in Seq(FrameRecord) /\ Len(t) = n - 1 /\ \A i \in 1 .. (n - 1) : t[i] = fs[i]
      /\ n \in Nat \ {0}
  BY LastIs
<1>2. DOMAIN t = 1 .. (n - 1) /\ DOMAIN fs = 1 .. n
  BY <1>1, SeqDomain
<1> HIDE DEF t
<1>3. /\ \A j \in 1 .. n : FrameTells(fs[j])
      /\ \A j \in 1 .. (n - 1) : ClauseOn(fs[j], fs[j + 1])
  BY <1>2 DEF FramesTell
<1> HIDE DEF n
<1>4. \A j \in 1 .. (n - 1) : j \in 1 .. n
  BY <1>1
<1>5. \A j \in 1 .. ((n - 1) - 1) : j \in 1 .. (n - 1) /\ j + 1 \in 1 .. (n - 1)
  BY <1>1
<1>6. \A j \in DOMAIN t : FrameTells(t[j])
  BY <1>1, <1>2, <1>3, <1>4
<1>7. \A j \in 1 .. (Len(t) - 1) : ClauseOn(t[j], t[j + 1])
  BY <1>1, <1>3, <1>5
<1> QED
  BY <1>6, <1>7 DEF FramesTell, t

LEMMA TellPush ==
  ASSUME NEW fs \in Seq(FrameRecord), FramesTell(fs), NEW f \in FrameRecord,
         FrameTells(f), fs # <<>> => ClauseOn(Last(fs), f)
  PROVE  FramesTell(Append(fs, f))
<1> DEFINE t == Append(fs, f)
           n == Len(fs)
<1>1. /\ t \in Seq(FrameRecord) /\ n \in Nat /\ Len(t) = n + 1
      /\ \A i \in 1 .. n : t[i] = fs[i]
      /\ t[n + 1] = f
  BY AppendIs
<1>2. DOMAIN t = 1 .. (n + 1) /\ DOMAIN fs = 1 .. n
  BY <1>1, SeqDomain
<1>3. n # 0 => ClauseOn(fs[n], f)
  <2>1. n # 0 => fs # <<>>
    BY SeqDomain
  <2> QED
    BY <2>1, LastIs
<1> HIDE DEF t
<1>4. /\ \A j \in 1 .. n : FrameTells(fs[j])
      /\ \A j \in 1 .. (n - 1) : ClauseOn(fs[j], fs[j + 1])
  BY <1>2 DEF FramesTell
<1> HIDE DEF n
<1>5. \A j \in 1 .. (n + 1) : j \in 1 .. n \/ j = n + 1
  BY <1>1
<1>6. ASSUME NEW j \in 1 .. n PROVE ClauseOn(t[j], t[j + 1])
  <2>1. CASE j = n
    BY <1>1, <1>3, <2>1
  <2>2. CASE j # n
    <3>1. j \in 1 .. (n - 1) /\ j + 1 \in 1 .. n
      BY <1>1, <2>2
    <3> QED
      BY <1>1, <1>4, <3>1
  <2> QED
    BY <2>1, <2>2
<1>7. \A j \in DOMAIN t : FrameTells(t[j])
  BY <1>1, <1>2, <1>4, <1>5
<1>8. Len(t) - 1 = n
  BY <1>1
<1> QED
  BY <1>6, <1>7, <1>8 DEF FramesTell, t

LEMMA LastTells ==
  ASSUME NEW fs \in Seq(FrameRecord), FramesTell(fs), fs # <<>>
  PROVE  /\ FrameTells(Last(fs))
         /\ Front(fs) # <<>> => ClauseOn(Last(Front(fs)), Last(fs))
<1> DEFINE t == Front(fs)
           n == Len(fs)
<1>1. /\ t \in Seq(FrameRecord) /\ Len(t) = n - 1 /\ \A i \in 1 .. (n - 1) : t[i] = fs[i]
      /\ n \in Nat \ {0} /\ Last(fs) = fs[n]
  BY LastIs
<1>2. DOMAIN fs = 1 .. n
  BY SeqDomain
<1> HIDE DEF t
<1>3. FrameTells(Last(fs))
  BY <1>1, <1>2 DEF FramesTell
<1>4. ASSUME t # <<>> PROVE ClauseOn(Last(t), Last(fs))
  <2>1. Last(t) = t[Len(t)] /\ Len(t) \in Nat \ {0}
    BY <1>1, <1>4, LastIs
  <2>2. n - 1 \in 1 .. (n - 1) /\ (n - 1) + 1 = n
    BY <1>1, <2>1
  <2>3. ClauseOn(fs[n - 1], fs[n])
    BY <2>2 DEF FramesTell
  <2> QED
    BY <1>1, <2>1, <2>2, <2>3
<1> QED
  BY <1>3, <1>4 DEF t

LEMMA TellReplace ==
  ASSUME NEW fs \in Seq(FrameRecord), fs # <<>>, FramesTell(fs), NEW f \in FrameRecord,
         FrameTells(f), f.code = Last(fs).code, f.of = Last(fs).of
  PROVE  FramesTell(Append(Front(fs), f))
<1>1. Front(fs) \in Seq(FrameRecord) /\ FramesTell(Front(fs))
  BY LastIs, TellFront
<1>2. Front(fs) # <<>> => ClauseOn(Last(Front(fs)), f)
  BY LastTells DEF ClauseOn
<1> QED
  BY <1>1, <1>2, TellPush

\* What is left when the last frame is.
LEMMA BelowIs ==
  ASSUME NEW fs \in Seq(FrameRecord), FramesGood(fs), fs # <<>>
  PROVE  /\ Last(fs).code = "body" => Below(fs) = Front(fs)
         /\ Last(fs).code # "body" =>
              /\ Front(fs) # <<>> /\ Front(fs) \in Seq(FrameRecord)
              /\ Last(Front(fs)) \in FrameRecord /\ Last(Front(fs)).code # "ensure"
              /\ Last(Front(fs)).step # "down"
              /\ Below(fs) =
                   Append(Front(Front(fs)), Merged(Last(Front(fs)), Last(fs)))
<1> DEFINE t == Front(fs)
           n == Len(fs)
<1>1. CASE Last(fs).code = "body"
  BY <1>1 DEF Below
<1>2. CASE Last(fs).code # "body"
  <2>1. /\ t \in Seq(FrameRecord) /\ Len(t) = n - 1 /\ \A i \in 1 .. (n - 1) : t[i] = fs[i]
        /\ n \in Nat \ {0} /\ Last(fs) = fs[n]
    BY LastIs
  <2> HIDE DEF t
  <2>2. n # 1
    BY <1>2, <2>1 DEF FramesGood
  <2>3. t # <<>> /\ Last(t) = t[n - 1] /\ n - 1 \in 1 .. (n - 1) /\ Last(t) \in FrameRecord
    <3>1. Len(t) # 0
      BY <2>1, <2>2
    <3>2. t # <<>>
      BY <2>1, <3>1, SeqDomain
    <3> QED
      BY <2>1, <2>2, <3>2, LastIs
  <2>4. Carries(fs[n - 1], fs[(n - 1) + 1])
    BY <2>1, <2>3 DEF FramesGood
  <2>5. Last(t).code # "ensure" /\ Last(t).step # "down"
    <3>1. (n - 1) + 1 = n
      BY <2>1
    <3>2. Carries(Last(t), Last(fs))
      BY <2>1, <2>3, <2>4, <3>1
    <3> QED
      BY <1>2, <3>2 DEF Carries
  <2>6. Below(fs) = Append(Front(t), Merged(Last(t), Last(fs)))
    BY <1>2, <2>3 DEF Below, t
  <2> QED
    BY <1>2, <2>1, <2>3, <2>5, <2>6 DEF t
<1> QED
  BY <1>1, <1>2

LEMMA TellBelow ==
  ASSUME NEW fs \in Seq(FrameRecord), FramesGood(fs), fs # <<>>, FramesTell(fs)
  PROVE  FramesTell(Below(fs))
<1> DEFINE t == Front(fs)
           u == Last(t)
           g == Merged(u, Last(fs))
<1>1. CASE Last(fs).code = "body"
  BY <1>1, BelowIs, TellFront
<1>2. CASE Last(fs).code # "body"
  <2>1. /\ t # <<>> /\ t \in Seq(FrameRecord) /\ u \in FrameRecord
        /\ u.code # "ensure" /\ u.step # "down"
        /\ Below(fs) = Append(Front(t), g)
    BY <1>2, BelowIs
  <2>2. FramesTell(t) /\ Last(fs) \in FrameRecord
    BY TellFront, LastIs
  <2>3. FrameTells(u)
    BY <2>1, <2>2, LastTells
  <2>4. FrameGood(u)
    <3>1. FramesGood(t) /\ Len(t) \in DOMAIN t /\ u = t[Len(t)]
      BY <2>1, FrontFrames, SeqDomain, LastIs
    <3> QED
      BY <3>1 DEF FramesGood
  <2> HIDE DEF t
  <2>5. /\ g.code = u.code /\ g.of = u.of /\ g.step = u.step /\ g.level = u.level
        /\ g.pending = u.pending /\ g.kept = u.kept /\ g.scope = u.scope
    BY <2>1, MergedIs
  <2>6. g \in FrameRecord
    BY <2>1, <2>2, <2>4, MergedGood
  <2> HIDE DEF g, u
  <2>7. FrameTells(g)
    BY <2>1, <2>3, <2>5 DEF FrameTells
  <2>8. g.code = Last(t).code /\ g.of = Last(t).of
    BY <2>5 DEF u
  <2> QED
    BY <2>1, <2>2, <2>6, <2>7, <2>8, TellReplace
<1> QED
  BY <1>1, <1>2

-----------------------------------------------------------------------------
(* What a step has to keep *)

MeaningInv == Inv /\ ContextInv /\ CodeInv /\ ToldInv

LEMMA SameProgramTells ==
  ASSUME program' = program
  PROVE  /\ (\A i \in DOMAIN vms : FramesTell(vms[i].frames))' <=>
              \A i \in DOMAIN vms' : FramesTell(vms'[i].frames)
         /\ ScopesEntangled' <=> ScopesEntangled
<1>1. \A l : Kind(l)' = Kind(l)
  BY DEF Kind, At
<1>2. Levels' = Levels
  BY DEF Levels, Depth
<1>3. ScopesEntangled' <=> ScopesEntangled
  BY <1>2 DEF ScopesEntangled, Kind, At
<1>4. \A f : FrameTells(f)' <=> FrameTells(f)
  BY <1>1 DEF FrameTells
<1>5. \A fs : FramesTell(fs)' <=> FramesTell(fs)
  BY <1>1, <1>4 DEF FramesTell, ClauseOn
<1> QED
  BY <1>3, <1>5

LEMMA SetIs ==
  ASSUME VmsGood(vms), NEW v, SetVm(v)
  PROVE  vms'[Active] = v
<1>1. Active \in DOMAIN vms
  BY ActiveIs
<1> QED
  BY <1>1 DEF SetVm

LEMMA StaysActive ==
  ASSUME VmsGood(vms), NEW v, Follows(v), SetVm(v)
  PROVE  Active' = Active
<1>1. /\ Len(vms') = Len(vms) /\ vms'[Active] = v
      /\ \A i \in DOMAIN vms : i # Active => vms'[i] = vms[i]
      /\ VmsGood(vms')
  BY SetVmPlaces
<1>2. /\ Active = Len(vms) \/ (Active = Len(vms) - 1 /\ Last(vms).left)
      /\ vms[Len(vms)].left <=> Active < Len(vms)
      /\ Active \in DOMAIN vms
  BY ActiveIs
<1>3. /\ Last(vms) = vms[Len(vms)] /\ Last(vms') = vms'[Len(vms')]
      /\ Len(vms) \in Nat \ {0} /\ DOMAIN vms = 1 .. Len(vms)
  BY <1>1, VmsAre
<1>4. ~v.left
  BY DEF Follows
<1>5. Last(vms').left <=> Last(vms).left
  <2>1. CASE Active = Len(vms)
    BY <1>1, <1>2, <1>3, <1>4, <2>1
  <2>2. CASE Active # Len(vms)
    <3>1. Len(vms) \in DOMAIN vms
      BY <1>3
    <3>2. vms'[Len(vms)] = vms[Len(vms)]
      BY <1>1, <2>2, <3>1
    <3> QED
      BY <1>1, <1>3, <3>2
  <2> QED
    BY <2>1, <2>2
<1> QED
  BY <1>1, <1>3, <1>5 DEF Active

\* The step of one VM.
LEMMA TellsOn ==
  ASSUME Inv, CodeInv, NEW v, Follows(v), SetVm(v), task' = "running", program' = program,
         FramesTell(v.frames),
         ~ScopesEntangled => VmTells(program, v, Calls(vms, Active), log', suppressed')
  PROVE  CodeInv' /\ ToldInv'
<1> DEFINE a == Active
           n == Len(vms)
<1>1. /\ Len(vms') = n /\ vms'[a] = v
      /\ \A i \in DOMAIN vms : i # a => vms'[i] = vms[i]
      /\ VmsGood(vms') /\ VmsGood(vms)
  BY SetVmPlaces DEF Inv
<1>2. /\ a = n \/ (a = n - 1 /\ Last(vms).left)
      /\ vms[n].left <=> a < n
      /\ a \in DOMAIN vms /\ ~vms[a].left
  BY <1>1, ActiveIs
<1>3. /\ n \in Nat \ {0} /\ DOMAIN vms = 1 .. n /\ DOMAIN vms' = 1 .. n
  BY <1>1, VmsAre
<1>4. Active' = a
  BY <1>1, StaysActive
<1>5. Frames = vms[a].frames
  BY DEF Frames
<1> HIDE DEF a, n
<1>6. Calls(vms', a) = Calls(vms, a)
  <2>1. a # 1 => a - 1 \in DOMAIN vms /\ a - 1 # a
    BY <1>2, <1>3
  <2>2. a # 1 => vms'[a - 1] = vms[a - 1]
    BY <1>1, <2>1
  <2> QED
    BY <2>2 DEF Calls
<1>7. \A i \in DOMAIN vms' : FramesTell(vms'[i].frames)
  <2>1. \A i \in DOMAIN vms : FramesTell(vms[i].frames)
    BY DEF CodeInv
  <2> QED
    BY <1>1, <1>3, <2>1
<1>8. ASSUME NEW i \in DOMAIN vms', vms'[i].frames # <<>>, ~vms'[i].left
      PROVE  vms'[i].frames[1].of = Calls(vms', i)
  <2>1. i \in 1 .. n
    BY <1>3
  <2>2. CASE i = a
    <3>1. vms[a].frames # <<>> /\ v.frames[1].of = vms[a].frames[1].of
      BY <1>1, <1>5, <1>8, <2>2 DEF Follows, Based
    <3>2. vms[a].frames[1].of = Calls(vms, a)
      BY <1>2, <3>1 DEF CodeInv
    <3> QED
      BY <1>1, <1>6, <2>2, <3>1, <3>2
  <2>3. CASE i # a
    <3>1. vms'[i] = vms[i]
      BY <1>1, <1>3, <2>1, <2>3
    <3>2. vms[i].frames[1].of = Calls(vms, i)
      BY <1>3, <1>8, <2>1, <3>1 DEF CodeInv
    <3>3. i < a
      BY <1>2, <1>3, <1>8, <2>1, <2>3, <3>1
    <3>4. i # 1 => i - 1 \in DOMAIN vms /\ i - 1 # a
      BY <1>3, <1>2, <2>1, <3>3
    <3>5. i # 1 => vms'[i - 1] = vms[i - 1]
      BY <1>1, <3>4
    <3>6. Calls(vms', i) = Calls(vms, i)
      BY <3>5 DEF Calls
    <3> QED
      BY <3>1, <3>2, <3>6
  <2> QED
    BY <2>2, <2>3
<1>9. CodeInv'
  <2>2. (\A i \in DOMAIN vms : FramesTell(vms[i].frames))'
    BY <1>7, SameProgramTells
  <2>3. (\A i \in DOMAIN vms :
           vms[i].frames # <<>> /\ ~vms[i].left => vms[i].frames[1].of = Calls(vms, i))'
    BY <1>8 DEF Calls
  <2> QED
    BY <2>2, <2>3 DEF CodeInv
<1>10. ToldInv'
  <2>1. ~ScopesEntangled => VmTells(program, vms'[a], Calls(vms', a), log', suppressed')
    BY <1>1, <1>6 DEF a
  <2>2. ~ScopesEntangled' => ~ScopesEntangled
    BY SameProgramTells
  <2> QED
    BY <1>4, <2>1, <2>2 DEF ToldInv, Calls
<1> QED
  BY <1>9, <1>10

\* A clause lies on code that has left its construct: on a body, or on the rescue clause of
\* the same try.
LEMMA ClauseLies ==
  ASSUME NEW fs \in Seq(FrameRecord), FramesGood(fs), FramesTell(fs), fs # <<>>,
         Last(fs).code # "body"
  PROVE  LET u == fs[Len(fs) - 1]
             b == fs[Len(fs) - 2]
         IN  /\ Len(fs) \in Nat /\ Len(fs) > 1 /\ u \in FrameRecord /\ FrameTells(u)
             /\ FrameGood(u) /\ u.step = "after" /\ u.level = Last(fs).of
             /\ Last(fs).of \in Levels /\ Last(fs).level = Last(fs).of
             /\ u = Last(Front(fs))
             /\ u.code = "body" \/ u.code = "rescue"
             /\ Last(fs).code = "rescue" => u.code = "body"
             /\ Last(fs).code = "ensure" /\ u.code = "body" => Kind(Last(fs).of) = "ensure"
             /\ u.code = "rescue" =>
                  /\ Len(fs) > 2 /\ b \in FrameRecord /\ b.code = "body"
                  /\ b.level = Last(fs).of /\ u.of = Last(fs).of /\ b.step = "after"
                  /\ Kind(Last(fs).of) = "both" /\ Last(fs).code = "ensure"
                  /\ FrameGood(b) /\ FrameTells(b)
<1> DEFINE n == Len(fs)
           u == fs[n - 1]
           b == fs[n - 2]
           f == fs[n]
<1>1. /\ Last(fs) = f /\ DOMAIN fs = 1 .. n /\ n \in Nat \ {0}
      /\ \A j \in 1 .. n : fs[j] \in FrameRecord
      /\ Len(Front(fs)) = n - 1 /\ Front(fs) \in Seq(FrameRecord)
      /\ \A j \in 1 .. (n - 1) : Front(fs)[j] = fs[j]
  BY LastIs, SeqDomain
<1>2. f.code # "body"
  BY <1>1
<1> HIDE DEF n
<1>3. n # 1
  BY <1>1, <1>2 DEF FramesGood
<1>4. /\ n > 1 /\ n - 1 \in 1 .. n /\ n - 1 \in 1 .. (n - 1) /\ (n - 1) + 1 = n
      /\ n \in 1 .. n
  BY <1>1, <1>3
<1>5. /\ Carries(u, fs[(n - 1) + 1]) /\ FrameGood(u) /\ FrameGood(f)
      /\ \A j \in 1 .. (n - 1) : Carries(fs[j], fs[j + 1])
      /\ \A j \in 1 .. n : FrameGood(fs[j])
  BY <1>1, <1>4 DEF FramesGood, n
<1>6. /\ ClauseOn(u, fs[(n - 1) + 1]) /\ FrameTells(u) /\ FrameTells(f)
      /\ \A j \in 1 .. (n - 1) : ClauseOn(fs[j], fs[j + 1])
      /\ \A j \in 1 .. n : FrameTells(fs[j])
  BY <1>1, <1>4 DEF FramesTell, n
<1>7. u \in FrameRecord /\ f \in FrameRecord
  BY <1>1, <1>4
<1>8. u = Last(Front(fs))
  <2>1. Front(fs) # <<>>
    BY <1>1, <1>4, SeqDomain
  <2> QED
    BY <1>1, <1>4, <2>1, LastIs
<1>9. u.code # "ensure" /\ u.code \in {"body", "rescue", "ensure"}
  BY <1>2, <1>4, <1>5, <1>7 DEF Carries, FrameRecord, Codes
<1>10. /\ u.step = "after" /\ u.level = f.of
       /\ f.code = "rescue" => u.code = "body"
       /\ f.code = "ensure" /\ u.code = "body" => Kind(f.of) = "ensure"
  BY <1>2, <1>4, <1>6 DEF ClauseOn
<1>11. f.of \in Levels /\ f.level = f.of
  BY <1>2, <1>5 DEF FrameGood
<1>12. f.code \in {"rescue", "ensure"}
  BY <1>2, <1>7 DEF FrameRecord, Codes
<1>13. ASSUME u.code = "rescue"
       PROVE  /\ n > 2 /\ b \in FrameRecord /\ b.code = "body"
              /\ b.level = f.of /\ u.of = f.of /\ b.step = "after"
              /\ Kind(f.of) = "both" /\ f.code = "ensure"
              /\ FrameGood(b) /\ FrameTells(b)
  <2>1. u.of = f.of
    BY <1>5, <1>10, <1>13 DEF FrameGood
  <2>2. Kind(f.of) = "both"
    BY <1>6, <1>10, <1>13, <2>1 DEF FrameTells
  <2>3. f.code = "ensure"
    BY <1>10, <1>12, <1>13
  <2>4. n # 2
    <3>1. fs[1].code = "body"
      BY <1>1, <1>4, SeqDomain DEF FramesGood
    <3> QED
      BY <1>13, <3>1
  <2>5. n > 2 /\ n - 2 \in 1 .. n /\ n - 2 \in 1 .. (n - 1) /\ (n - 2) + 1 = n - 1
    BY <1>1, <1>4, <2>4
  <2>6. /\ ClauseOn(b, fs[(n - 2) + 1]) /\ FrameTells(b) /\ FrameGood(b)
        /\ b \in FrameRecord
    BY <1>1, <1>5, <1>6, <2>5
  <2>7. b.step = "after" /\ b.level = u.of /\ b.code = "body"
    BY <1>13, <2>5, <2>6 DEF ClauseOn
  <2> QED
    BY <2>1, <2>2, <2>3, <2>5, <2>6, <2>7
<1> QED
  BY <1>1, <1>4, <1>5, <1>6, <1>7, <1>8, <1>9, <1>10, <1>11, <1>13 DEF n

\* The body in which a VM is, below its clauses.
LEMMA StandsIn ==
  ASSUME NEW fs \in Seq(FrameRecord), FramesGood(fs), FramesTell(fs), fs # <<>>
  PROVE  \E m \in DOMAIN fs : /\ fs[m].code = "body" /\ fs[m].level = Last(fs).level
                              /\ \A j \in DOMAIN fs : fs[j].code = "body" => j <= m
<1> DEFINE n == Len(fs)
<1>1. Last(fs) = fs[n] /\ DOMAIN fs = 1 .. n /\ n \in Nat \ {0}
  BY LastIs, SeqDomain
<1>2. CASE Last(fs).code = "body"
  BY <1>1, <1>2
<1>3. CASE Last(fs).code # "body"
  <2>1. /\ n > 1 /\ fs[n - 1].level = Last(fs).of /\ Last(fs).level = Last(fs).of
        /\ fs[n - 1].code = "body" \/ fs[n - 1].code = "rescue"
        /\ fs[n - 1].code = "rescue" =>
             n > 2 /\ fs[n - 2].code = "body" /\ fs[n - 2].level = Last(fs).of
    BY <1>3, ClauseLies
  <2> HIDE DEF n
  <2>2. CASE fs[n - 1].code = "body"
    <3>1. n - 1 \in 1 .. n /\ \A j \in 1 .. n : j # n => j <= n - 1
      BY <1>1, <2>1
    <3> QED
      BY <1>1, <1>3, <2>1, <2>2, <3>1
  <2>3. CASE fs[n - 1].code = "rescue"
    <3>1. n - 2 \in 1 .. n /\ \A j \in 1 .. n : j # n /\ j # n - 1 => j <= n - 2
      BY <1>1, <2>1, <2>3
    <3>2. \A j \in 1 .. n : fs[j].code = "body" => j # n /\ j # n - 1
      BY <1>1, <1>3, <2>3
    <3> QED
      BY <1>1, <2>1, <2>3, <3>1, <3>2
  <2> QED
    BY <2>1, <2>2, <2>3
<1> QED
  BY <1>2, <1>3

\* The bodies that are executed are those of procedures around the code of the top.
LEMMA BodiesAround ==
  ASSUME Inv, CodeInv, Executes, NEW i \in DOMAIN vms, NEW j \in DOMAIN vms[i].frames,
         vms[i].frames[j].code = "body"
  PROVE  vms[i].frames[j].of < Top.level
<1>1. /\ VmsGood(vms) /\ Frames # <<>> /\ Active = Len(vms)
      /\ Frames = vms[Len(vms)].frames
  BY ExecutesIs DEF Inv, Frames
<1>2. /\ Top = Last(Frames) /\ Frames \in Seq(FrameRecord) /\ FramesGood(Frames)
      /\ FramesTell(Frames) /\ Active \in DOMAIN vms
  BY <1>1, TopIs, ActiveIs DEF CodeInv, Top, Frames
<1>3. PICK m \in DOMAIN Frames :
        /\ Frames[m].code = "body" /\ Frames[m].level = Top.level
        /\ \A k \in DOMAIN Frames : Frames[k].code = "body" => k <= m
  BY <1>1, <1>2, StandsIn
<1>4. Len(vms) \in Nat \ {0} /\ DOMAIN vms = 1 .. Len(vms)
  BY <1>1, VmsAre
<1>5. /\ DOMAIN Frames = 1 .. Len(Frames) /\ Len(Frames) \in Nat
      /\ \A k \in DOMAIN Frames : Frames[k] \in FrameRecord /\ FrameGood(Frames[k])
  BY <1>2, SeqDomain DEF FramesGood
<1>6. Frames[m].of < Frames[m].level /\ Frames[m].of \in Nat /\ Frames[m].level \in Nat
  <2>1. Depth \in Nat
    BY ProgramFacts DEF Inv
  <2> QED
    BY <1>3, <1>5, <2>1 DEF FrameGood, FrameRecord
<1>7. \A k \in DOMAIN Frames : Frames[k].code = "body" =>
        Frames[k].of <= Frames[m].of /\ Frames[k].of \in Nat
  <2> SUFFICES ASSUME NEW k \in DOMAIN Frames, Frames[k].code = "body"
               PROVE  Frames[k].of <= Frames[m].of /\ Frames[k].of \in Nat
    OBVIOUS
  <2>1. Depth \in Nat
    BY ProgramFacts DEF Inv
  <2>2. Frames[k].of \in Nat
    BY <1>5, <2>1 DEF FrameRecord
  <2>3. k = m \/ k < m
    BY <1>3, <1>5
  <2>4. k < m => Frames[k].of < Frames[m].of
    BY <1>2, <1>3 DEF FramesGood
  <2> QED
    BY <1>6, <2>2, <2>3, <2>4
<1>8. CASE i = Len(vms)
  BY <1>1, <1>3, <1>6, <1>7, <1>8
<1>9. CASE i # Len(vms)
  <2>1. i < Len(vms) /\ Len(vms) \in DOMAIN vms
    BY <1>4, <1>9
  <2>2. Inside(vms[i], vms[Len(vms)])
    BY <1>1, <2>1 DEF VmsGood
  <2>3. vms[i].frames[j].of \in Bodies(vms[i].frames)
    BY DEF Bodies
  <2>4. vms[i].frames[j].of < Frames[1].of
    BY <1>1, <2>2, <2>3 DEF Inside
  <2>5. 1 \in DOMAIN Frames /\ Frames[1].code = "body"
    BY <1>1, <1>2, <1>5, SeqDomain DEF FramesGood
  <2>6. vms[i].frames[j] \in FrameRecord
    <3>1. vms[i].frames \in Seq(FrameRecord)
      BY <1>1, VmsAre DEF VmRecord
    <3> QED
      BY <3>1, SeqDomain
  <2>7. vms[i].frames[j].of \in Nat
    <3>1. Depth \in Nat
      BY ProgramFacts DEF Inv
    <3> QED
      BY <2>6, <3>1 DEF FrameRecord
  <2>8. Frames[1].of <= Frames[m].of /\ Frames[1].of \in Nat
    BY <1>7, <2>5
  <2> QED
    BY <1>3, <1>6, <2>4, <2>7, <2>8
<1> QED
  BY <1>8, <1>9

\* The body that follows a body that is not the one in which the program is.
LEMMA NextBody ==
  ASSUME Inv, CodeInv, Executes, NEW i \in DOMAIN vms, NEW j \in DOMAIN vms[i].frames,
         vms[i].frames[j].code = "body"
  PROVE  \/ vms[i].frames[j].level = Top.level
         \/ \E h \in DOMAIN vms : \E k \in DOMAIN vms[h].frames :
              /\ vms[h].frames[k].code = "body"
              /\ vms[h].frames[k].of = vms[i].frames[j].level
<1> DEFINE fs == vms[i].frames
           n == Len(fs)
<1>1. /\ VmsGood(vms) /\ Frames # <<>> /\ Active = Len(vms)
      /\ Frames = vms[Len(vms)].frames /\ ~vms[Active].left
  BY ExecutesIs DEF Inv, Frames
<1>2. /\ Len(vms) \in Nat \ {0} /\ DOMAIN vms = 1 .. Len(vms)
      /\ vms[i] \in VmRecord /\ VmGood(vms[i])
  BY <1>1, VmsAre
<1>3. /\ fs \in Seq(FrameRecord) /\ FramesGood(fs) /\ FramesTell(fs)
  BY <1>2 DEF VmRecord, VmGood, CodeInv
<1>4. DOMAIN fs = 1 .. n /\ n \in Nat /\ (fs = <<>> <=> n = 0)
  BY <1>3, SeqDomain
<1>5. fs # <<>>
  BY <1>4
<1>6. PICK m \in DOMAIN fs :
        /\ fs[m].code = "body" /\ fs[m].level = Last(fs).level
        /\ \A k \in DOMAIN fs : fs[k].code = "body" => k <= m
  BY <1>3, <1>5, StandsIn
<1> HIDE DEF n
<1>7. CASE j # m
  <2>1. j \in 1 .. n /\ m \in 1 .. n /\ j < m /\ j + 1 \in 1 .. n /\ j + 1 <= m
        /\ j \in 1 .. (n - 1)
    BY <1>4, <1>6, <1>7
  <2>2. Carries(fs[j], fs[j + 1])
    BY <1>3, <2>1 DEF FramesGood, n
  <2>3. fs[j + 1].code = "body"
    <3>1. CASE j + 1 = m
      BY <1>6, <3>1
    <3>2. CASE j + 1 # m
      <4>1. j + 1 < m
        BY <2>1, <3>2
      <4> QED
        BY <1>3, <1>4, <1>6, <2>1, <4>1 DEF FramesGood
    <3> QED
      BY <3>1, <3>2
  <2>4. fs[j + 1].of = fs[j].level
    BY <2>2, <2>3 DEF Carries
  <2> QED
    BY <1>4, <2>1, <2>3, <2>4
<1>8. CASE j = m /\ i = Len(vms)
  BY <1>1, <1>6, <1>8 DEF Top
<1>9. CASE j = m /\ i # Len(vms)
  <2>1. /\ i \in 1 .. (Len(vms) - 1) /\ i + 1 \in DOMAIN vms /\ i + 1 # 1
        /\ (i + 1) - 1 = i
    BY <1>2, <1>9
  <2>2. ParentGood(vms[i], vms[i + 1])
    BY <1>1, <2>1 DEF VmsGood
  <2>3. vms[i + 1].frames # <<>> /\ ~vms[i + 1].left
    <3>1. CASE i + 1 = Len(vms)
      BY <1>1, <3>1
    <3>2. CASE i + 1 # Len(vms)
      <4>1. i + 1 \in 1 .. (Len(vms) - 1)
        BY <1>2, <2>1, <3>2
      <4>2. ParentGood(vms[i + 1], vms[(i + 1) + 1])
        BY <1>1, <4>1 DEF VmsGood
      <4> QED
        BY <4>2 DEF ParentGood
    <3> QED
      BY <3>1, <3>2
  <2>4. vms[i + 1].frames[1].of = Last(fs).level
    BY <2>1, <2>3 DEF CodeInv, Calls
  <2>5. /\ vms[i + 1].frames \in Seq(FrameRecord) /\ FramesGood(vms[i + 1].frames)
    BY <1>1, <2>1, VmsAre DEF VmRecord, VmGood
  <2>6. 1 \in DOMAIN vms[i + 1].frames /\ vms[i + 1].frames[1].code = "body"
    <3>1. 1 \in 1 .. Len(vms[i + 1].frames)
      BY <2>3, <2>5, SeqDomain
    <3> QED
      BY <2>3, <2>5, <3>1, SeqDomain DEF FramesGood
  <2>7. vms[i].frames[j].level = Last(fs).level
    BY <1>6, <1>9
  <2> QED
    BY <2>1, <2>4, <2>6, <2>7
<1> QED
  BY <1>7, <1>8, <1>9

\* Every scope around the code is open.
LEMMA Covered ==
  ASSUME Inv, CodeInv, Executes, NEW w \in Levels, w < Top.level, Kind(w) = "with"
  PROVE  w \in ScopesOf(vms)
<1> DEFINE Below0 == {v \in 0 .. w : \E i \in DOMAIN vms : \E j \in DOMAIN vms[i].frames :
                        vms[i].frames[j].code = "body" /\ vms[i].frames[j].of = v}
           g == Max(Below0)
<1>1. Depth \in Nat /\ w \in Nat /\ w # 0 /\ VmsGood(vms) /\ Frames # <<>>
      /\ Active = Len(vms) /\ ~vms[Active].left
  BY ProgramFacts, ExecutesIs DEF Inv, Levels
<1>2. /\ Len(vms) \in Nat \ {0} /\ DOMAIN vms = 1 .. Len(vms)
      /\ \A i \in DOMAIN vms : vms[i].frames \in Seq(FrameRecord) /\ FramesGood(vms[i].frames)
  BY <1>1, VmsAre DEF VmRecord, VmGood
<1>3. \A i \in DOMAIN vms : \A j \in DOMAIN vms[i].frames :
        /\ vms[i].frames[j] \in FrameRecord /\ FrameTells(vms[i].frames[j])
        /\ FrameGood(vms[i].frames[j])
  BY <1>2, SeqDomain DEF FramesGood, CodeInv, FramesTell
<1>4. 0 \in Below0
  <2>1. 1 \in DOMAIN vms
    BY <1>2
  <2>2. vms[1].frames # <<>> /\ ~vms[1].left
    <3>1. CASE Len(vms) = 1
      BY <1>1, <3>1 DEF Frames
    <3>2. CASE Len(vms) # 1
      <4>1. 1 \in 1 .. (Len(vms) - 1)
        BY <1>2, <3>2
      <4>2. ParentGood(vms[1], vms[1 + 1])
        BY <1>1, <4>1 DEF VmsGood
      <4> QED
        BY <4>2 DEF ParentGood
    <3> QED
      BY <3>1, <3>2
  <2>3. vms[1].frames[1].of = 0
    BY <2>1, <2>2 DEF CodeInv, Calls
  <2>4. 1 \in DOMAIN vms[1].frames /\ vms[1].frames[1].code = "body"
    <3>1. 1 \in 1 .. Len(vms[1].frames)
      BY <1>2, <2>1, <2>2, SeqDomain
    <3> QED
      BY <1>2, <2>1, <2>2, <3>1, SeqDomain DEF FramesGood
  <2>5. 0 \in 0 .. w
    BY <1>1
  <2> QED
    BY <2>1, <2>3, <2>4, <2>5
<1>5. g \in Below0 /\ \A v \in Below0 : v <= g
  <2>1. Below0 \subseteq 0 .. w /\ Below0 # {}
    BY <1>4
  <2> HIDE DEF Below0
  <2> QED
    BY <1>1, <2>1, GreatestNatural
<1> HIDE DEF g
<1>6. PICK i \in DOMAIN vms : \E j \in DOMAIN vms[i].frames :
        vms[i].frames[j].code = "body" /\ vms[i].frames[j].of = g
  BY <1>5
<1>12. PICK j \in DOMAIN vms[i].frames :
        vms[i].frames[j].code = "body" /\ vms[i].frames[j].of = g
  BY <1>6
<1> DEFINE f == vms[i].frames[j]
<1>7. /\ f.level \in Nat /\ f.of < f.level /\ f.of = g /\ g \in Nat /\ g <= w
      /\ f.scope \in Nat /\ FrameTells(f) /\ f.code = "body"
  BY <1>1, <1>3, <1>5, <1>12 DEF FrameGood, FrameRecord
<1>8. w < f.level
  <2> SUFFICES ASSUME f.level <= w PROVE FALSE
    BY <1>1, <1>7
  <2>1. f.level # Top.level
    BY <1>1, <1>7
  <2>2. \E h \in DOMAIN vms : \E k \in DOMAIN vms[h].frames :
          vms[h].frames[k].code = "body" /\ vms[h].frames[k].of = f.level
    BY <1>12, <2>1, NextBody
  <2>3. f.level \in 0 .. w
    BY <1>1, <1>7
  <2>4. f.level \in Below0
    BY <2>2, <2>3
  <2> QED
    BY <1>5, <1>7, <2>4
<1>9. g = w
  <2> SUFFICES ASSUME g # w PROVE FALSE
    OBVIOUS
  <2>1. w \in (f.of + 1) .. (f.level - 1)
    BY <1>1, <1>7, <1>8
  <2>2. Kind(w) \notin Procedures
    BY <1>7, <2>1 DEF FrameTells
  <2> QED
    BY <2>2 DEF Procedures
<1>10. f.scope = w
  BY <1>1, <1>7, <1>9 DEF FrameTells
<1>11. f.scope \in Scopes(vms[i].frames)
  <2>1. f \in Range(vms[i].frames)
    BY DEF Range
  <2> QED
    BY <1>1, <1>10, <2>1 DEF Scopes
<1> QED
  BY <1>10, <1>11 DEF ScopesOf

\* The binding in force is that of the innermost scope around the code.
LEMMA BoundAt ==
  ASSUME Inv, CodeInv, ContextInv, ~ScopesEntangled, Executes, Top.level \in Levels,
         NEW clause
  PROVE  Append(log, <<clause, Top.level, context.bound>>) =
           Logged(program, log, clause, Top.level)
<1> DEFINE l == Top.level
           out == Outside(program, l, "with")
           S == ScopesOf(vms)
<1>1. Depth \in Nat /\ program \in Programs /\ VmsGood(vms)
  BY ProgramFacts DEF Inv
<1>2. \A w : w \in out <=> w \in 1 .. (l - 1) /\ Kind(w) = "with"
  BY DEF Outside, Kind, At
<1>3. l \in Nat /\ l - 1 <= Depth /\ 1 .. (l - 1) \subseteq Levels
  BY <1>1 DEF Levels
<1>4. ASSUME NEW w, w \in out PROVE w \in S
  <2>1. w \in Levels /\ w < l /\ Kind(w) = "with"
    BY <1>2, <1>3, <1>4
  <2> QED
    BY <2>1, Covered
<1>5. ASSUME NEW w, w \in S PROVE w \in out
  <2>1. PICK i \in DOMAIN vms : w \in Scopes(vms[i].frames)
    BY <1>5 DEF ScopesOf
  <2>2. vms[i] \in VmRecord /\ VmGood(vms[i])
    BY <1>1, VmsAre
  <2>3. w \in Levels /\ Kind(w) = "with" /\ w \in Bodies(vms[i].frames)
    BY <1>1, <2>1, <2>2, ScopeIs
  <2>4. w < l
    BY <2>3, BodiesAround DEF Bodies
  <2> QED
    BY <1>2, <1>3, <2>3, <2>4 DEF Levels
<1>6. \A w : w \in out <=> w \in S
  BY <1>4, <1>5
<1>7. ScopesAre(context, S)
  BY DEF ContextInv
<1> DEFINE open == context.scopes
           token == [i \in DOMAIN open |-> open[i].token]
<1>8. /\ open \in Seq([token : Levels, previous : 0 .. Depth])
      /\ \A w : w \in S <=> \E i \in DOMAIN open : open[i].token = w
      /\ \A i, j \in DOMAIN open : i < j => open[i].token < open[j].token
      /\ context.bound = IF open = <<>> THEN 0 ELSE Last(open).token
  BY <1>7 DEF ScopesAre
<1>9. /\ DOMAIN open = 1 .. Len(open) /\ Len(open) \in Nat /\ (open = <<>> <=> Len(open) = 0)
      /\ \A i \in DOMAIN open : open[i] \in [token : Levels, previous : 0 .. Depth]
  BY <1>8, SeqDomain
<1> DEFINE T == {0} \cup out
<1>10. T \subseteq 0 .. Depth /\ T # {}
  BY <1>1, <1>2, <1>3 DEF Levels
<1>11. Max(T) \in T /\ \A i \in T : i <= Max(T)
  <2> HIDE DEF T
  <2> QED
    BY <1>1, <1>10, GreatestNatural
<1>12. context.bound \in T /\ \A i \in T : i <= context.bound
  <2>1. CASE open = <<>>
    BY <1>6, <1>8, <1>9, <2>1
  <2>2. CASE open # <<>>
    <3>1. Last(open) = open[Len(open)]
      BY <1>8, <2>2, LastIs
    <3>2. Len(open) \in DOMAIN open
      BY <1>9, <2>2
    <3>3. context.bound = open[Len(open)].token
      BY <1>8, <2>2, <3>1
    <3>4. context.bound \in T
      BY <1>6, <1>8, <3>2, <3>3
    <3>5. ASSUME NEW i \in out PROVE i <= context.bound
      <4>1. PICK j \in DOMAIN open : open[j].token = i
        BY <1>6, <1>8
      <4>2. j = Len(open) \/ j < Len(open)
        BY <1>9
      <4>3. j < Len(open) => open[j].token < open[Len(open)].token
        BY <1>8, <3>2
      <4>4. open[j].token \in Nat /\ open[Len(open)].token \in Nat
        BY <1>1, <1>9, <3>2 DEF Levels
      <4> QED
        BY <3>3, <4>1, <4>2, <4>3, <4>4
    <3>6. context.bound \in Nat
      BY <1>1, <1>9, <3>2, <3>3 DEF Levels
    <3> QED
      BY <3>4, <3>5, <3>6
  <2> QED
    BY <2>1, <2>2
<1>13. context.bound = Max(T)
  <2>1. \A i \in T : i \in Nat
    BY <1>1, <1>10
  <2> HIDE DEF T
  <2>2. Max(T) <= context.bound /\ context.bound <= Max(T)
    BY <1>11, <1>12
  <2> QED
    BY <1>11, <1>12, <2>1, <2>2
<1> QED
  BY <1>13 DEF Logged, Entry

LEMMA MovesAre ==
  ASSUME MeaningInv, Moves, NEW v, SetVm(v), FramesTell(v.frames),
         ~ScopesEntangled => VmTells(program, v, Calls(vms, Active), log', suppressed')
  PROVE  CodeInv' /\ ToldInv'
<1>1. PICK u : Follows(u) /\ SetVm(u)
  BY DEF Moves
<1>2. u = v
  BY <1>1, SetIs DEF MeaningInv, Inv
<1>3. task' = "running" /\ program' = program
  BY DEF Moves
<1> QED
  BY <1>1, <1>2, <1>3, TellsOn DEF MeaningInv

LEMMA MovesTell ==
  ASSUME MeaningInv, Moves, NEW v, SetVm(v), FramesTell(v.frames),
         v.way.how # "fault", ~v.escaped, v.frames # <<>>,
         ~ScopesEntangled => TopTells(program, v.frames, v.way, log', suppressed')
  PROVE  CodeInv' /\ ToldInv'
<1>1. ~ScopesEntangled => VmTells(program, v, Calls(vms, Active), log', suppressed')
  BY DEF VmTells
<1> QED
  BY <1>1, MovesAre

\* What is known where a program executes.
LEMMA TopKnown ==
  ASSUME MeaningInv, Frames # <<>>
  PROVE  /\ Known(program) /\ program \in Programs /\ Depth \in Nat
         /\ FramesTell(Frames) /\ FrameTells(Top)
         /\ Top \in FrameRecord /\ FrameGood(Top) /\ Top = Last(Frames)
         /\ Top = Frames[Len(Frames)]
         /\ Frames \in Seq(FrameRecord) /\ FramesGood(Frames)
         /\ VmsGood(vms) /\ Active \in DOMAIN vms /\ vms[Active] \in VmRecord
         /\ Frames = vms[Active].frames
         /\ Top.of \in Nat /\ Top.level \in 1 .. (Depth + 1) /\ Top.level \in Nat
<1>1. program \in Programs /\ VmsGood(vms) /\ CodeInv
  BY DEF MeaningInv, Inv
<1>2. Known(program) /\ Depth \in Nat
  BY <1>1, ProgramKnown, ProgramFacts
<1>3. Active \in DOMAIN vms /\ vms[Active] \in VmRecord
  BY <1>1, ActiveIs
<1>4. FramesTell(Frames)
  BY <1>1, <1>3 DEF CodeInv, Frames
<1>5. /\ Top \in FrameRecord /\ FrameGood(Top) /\ Top = Frames[Len(Frames)]
      /\ Frames \in Seq(FrameRecord) /\ FramesGood(Frames)
  BY <1>1, TopIs
<1>6. FrameTells(Top)
  BY <1>4, <1>5, LastTells DEF Top
<1>7. Top.of \in 0 .. Depth /\ Top.level \in 1 .. (Depth + 1)
  BY <1>5 DEF FrameRecord
<1> QED
  BY <1>1, <1>2, <1>3, <1>4, <1>5, <1>6, <1>7 DEF Top, Frames

\* The first frame of a VM is that of what it was leased for.
LEMMA FirstIs ==
  ASSUME MeaningInv, Frames # <<>>
  PROVE  Frames[1].of = Calls(vms, Active)
<1>1. Active \in DOMAIN vms /\ ~vms[Active].left
  BY ActiveIs DEF MeaningInv, Inv
<1> QED
  BY <1>1 DEF MeaningInv, CodeInv, Frames

LEMMA NormallyIs ==
  /\ Normally.how = "end" /\ Returning.how = "return" /\ Faulted.how = "fault"
  /\ Returning # Normally /\ Faulted # Normally
  /\ \A x : /\ Way("raise", x).how = "raise" /\ Way("raise", x).what = x
            /\ Thrown(x).how = "throw" /\ Way("raise", x) # Normally
            /\ Thrown(x) # Normally
BY DEF Normally, Returning, Faulted, Thrown, Way

LEMMA ExecutesTells ==
  ASSUME MeaningInv, Executes \/ task = "parked", ~ScopesEntangled
  PROVE  TopTells(program, Frames, Normally, log, suppressed)
<1>1. /\ task # "done" /\ Frames # <<>> /\ vms[Active].way = Normally
      /\ ~vms[Active].escaped
  BY ExecutesIs DEF MeaningInv
<1>2. VmTells(program, vms[Active], Calls(vms, Active), log, suppressed)
  BY <1>1 DEF MeaningInv, ToldInv
<1> QED
  BY <1>1, <1>2, NormallyIs DEF VmTells, Frames

\* A body that the program goes on in.
LEMMA BodyGoes ==
  ASSUME MeaningInv, Executes \/ task = "parked", Top.code = "body", Moves,
         NEW step \in {"down", "after", "ensure", "return"},
         NEW level \in 1 .. (Depth + 1), MoveTo(step, level),
         \A l \in (Top.of + 1) .. (level - 1) : Kind(l) \notin Procedures,
         step = "down" => Top.step = "down",
         step \in {"ensure", "return"} => Kind(level) \in Ensured,
         ~ScopesEntangled =>
           BodyTells(program, Goto(Top, step, level), Normally, log', suppressed')
  PROVE  CodeInv' /\ ToldInv'
<1> DEFINE f == Goto(Top, step, level)
           gs == Replaced(f)
           v == [vms[Active] EXCEPT !.frames = gs]
<1>1. /\ Frames # <<>> /\ vms[Active].way = Normally /\ ~vms[Active].escaped
  BY ExecutesIs DEF MeaningInv
<1>2. /\ FramesTell(Frames) /\ FrameTells(Top) /\ Top \in FrameRecord
      /\ Frames \in Seq(FrameRecord) /\ vms[Active] \in VmRecord /\ Top = Last(Frames)
  BY <1>1, TopKnown
<1>3. /\ f.code = Top.code /\ f.of = Top.of /\ f.step = step /\ f.level = level
      /\ f.exception = Top.exception /\ f.pending = Top.pending
      /\ f.lost = Top.lost /\ f.kept = Top.kept /\ f.scope = Top.scope
  BY <1>2, GotoIs
<1>4. f \in FrameRecord
  BY <1>2 DEF FrameRecord, Goto
<1> HIDE DEF f
<1>5. FrameTells(f)
  BY <1>2, <1>3 DEF FrameTells
<1>6. gs = Append(Front(Frames), f)
  BY DEF Replaced
<1>7. FramesTell(gs) /\ gs # <<>> /\ Last(gs) = f /\ gs[Len(gs)] = f
  <2>1. FramesTell(gs)
    BY <1>1, <1>2, <1>3, <1>4, <1>5, <1>6, TellReplace
  <2>2. gs # <<>> /\ gs[Len(gs)] = f
    BY <1>1, <1>2, <1>4, <1>6, ReplacedIs
  <2> QED
    BY <2>1, <2>2, <1>1, <1>2, <1>4, <1>6, ReplacedIs
<1>8. SetVm(v)
  BY DEF MoveTo, SetFrames, f
<1> HIDE DEF gs
<1>9. v.frames = gs /\ v.way = Normally /\ ~v.escaped
  BY <1>1, <1>2 DEF VmRecord
<1>10. ~ScopesEntangled => TopTells(program, gs, Normally, log', suppressed')
  <2>1. ~ScopesEntangled => BodyTells(program, f, Normally, log', suppressed')
    BY DEF f
  <2> QED
    BY <1>3, <1>7, <2>1 DEF TopTells
<1> HIDE DEF v
<1> QED
  BY <1>7, <1>8, <1>9, <1>10, MovesTell, NormallyIs

\* An act has been reached: the code up to it means what has happened.
LEMMA ActTold ==
  ASSUME MeaningInv, Executes \/ task = "parked", Top.code = "body",
         Innermost \/ Top.step = "after", ~ScopesEntangled, NEW k \in 0 .. Top.level
  PROVE  Tells(program, Means(program, k, Top.level), ActEnds(program, k, Top.level),
               Top.lost, Top.of, log, suppressed)
<1>1. Frames # <<>>
  BY ExecutesIs DEF MeaningInv
<1>2. /\ Known(program) /\ FrameTells(Top) /\ Top \in FrameRecord /\ FrameGood(Top)
      /\ Top = Frames[Len(Frames)] /\ Depth \in Nat /\ Top.level \in 1 .. (Depth + 1)
  BY <1>1, TopKnown
<1>3. BodyTells(program, Top, Normally, log, suppressed)
  <2>1. TopTells(program, Frames, Normally, log, suppressed)
    BY ExecutesTells
  <2> QED
    BY <1>2, <2>1 DEF TopTells
<1>4. CASE Innermost
  <2>1. Top.step = "down" /\ Top.level = DepthOf(program) + 1
    BY <1>4, KnownIs DEF Innermost
  <2>2. Silent(log, suppressed) /\ Top.lost = NoTags
    BY <1>2, <1>3, <2>1 DEF BodyTells, FrameTells
  <2> QED
    BY <1>2, <2>1, <2>2, InnermostTells
<1>5. CASE Top.step = "after"
  <2>1. Top.level \in 1 .. DepthOf(program)
    BY <1>2, <1>5, KnownIs DEF FrameGood
  <2>2. Tells(program, Construct(program, Means(program, k, Top.level + 1), Top.level),
              Normally, Top.lost, Top.of, log, suppressed)
    BY <1>3, <1>5 DEF BodyTells
  <2> QED
    BY <1>2, <2>1, <2>2, ActTells
<1> QED
  BY <1>4, <1>5

\* What an act does that is not the sleep that is cancelled.
LEMMA ActEndsIs ==
  ASSUME MeaningInv, Executes \/ task = "parked", Top.code = "body",
         Innermost \/ Top.step = "after"
  PROVE  /\ Here = ActOf(program, Top.level) /\ Here \in Acts
         /\ \A k : k # Top.level \/ Here.do # "sleep" =>
              ActEnds(program, k, Top.level) =
                WayOut(Here, Normally, Site("act", Top.level))
         /\ Here.do = "sleep" => ActEnds(program, Top.level, Top.level) = Faulted
         /\ Here.do = "return" => WayOut(Here, Normally, Site("act", Top.level)) = Returning
         /\ Here.do = "end" \/ Here.do = "sleep" =>
              WayOut(Here, Normally, Site("act", Top.level)) = Normally
<1>1. Frames # <<>>
  BY ExecutesIs DEF MeaningInv
<1>2. /\ Known(program) /\ Top \in FrameRecord /\ FrameGood(Top)
      /\ Depth \in Nat /\ Top.level \in 1 .. (Depth + 1)
  BY <1>1, TopKnown
<1>3. Here = ActOf(program, Top.level)
  <2>1. CASE Innermost
    <3>1. Top.level > DepthOf(program)
      BY <1>2, <2>1, KnownIs DEF Innermost
    <3> QED
      BY <2>1, <3>1 DEF Here, ActOf
  <2>2. CASE ~Innermost
    <3>1. ~(Top.level > DepthOf(program))
      BY <1>2, <2>2, KnownIs DEF FrameGood
    <3>2. Here = At(Top.level).after
      BY <2>2 DEF Here
    <3> QED
      BY <3>1, <3>2, KnownIs DEF ActOf
  <2> QED
    BY <2>1, <2>2
<1>4. ActOf(program, Top.level) \in Acts
  BY <1>2, KnownIs DEF ActOf, Known
<1> QED
  BY <1>3, <1>4 DEF ActEnds, WayOut

\* The frames without that of a body.
LEMMA BodyFinishes ==
  ASSUME MeaningInv, Executes \/ task = "parked", Top.code = "body", Moves, FinishReturn,
         ~ScopesEntangled =>
           \A k \in 0 .. Top.of :
             Ends(program, Closed(Means(program, k, Top.of + 1)), Normally, log', suppressed')
  PROVE  CodeInv' /\ ToldInv'
<1> DEFINE rest == Below(Frames)
           g == Last(rest)
           f == Goto(g, "after", g.level)
           gs == IF rest = <<>> THEN rest ELSE Append(Front(rest), Resumed(g, Top))
           v == [vms[Active] EXCEPT !.way = Top.pending, !.frames = gs]
           n == Len(Frames)
<1>1. /\ Frames # <<>> /\ vms[Active].way = Normally /\ ~vms[Active].escaped
  BY ExecutesIs DEF MeaningInv
<1>2. /\ FramesTell(Frames) /\ FrameTells(Top) /\ Top \in FrameRecord /\ FrameGood(Top)
      /\ Frames \in Seq(FrameRecord) /\ FramesGood(Frames) /\ vms[Active] \in VmRecord
      /\ Top = Last(Frames) /\ Known(program) /\ Depth \in Nat
  BY <1>1, TopKnown
<1>3. rest = Front(Frames)
  BY <1>1, <1>2, BelowIs
<1>4. SetVm(v)
  BY DEF FinishReturn
<1>5. Top.pending = Normally
  <2>1. Top.pending \in Reasons /\ Top.pending.how = "end"
    BY <1>2 DEF FrameGood, FrameRecord
  <2> QED
    BY <2>1, ReasonsAre
<1>6. /\ rest \in Seq(FrameRecord) /\ Len(rest) = n - 1 /\ n \in Nat \ {0}
      /\ \A j \in 1 .. (n - 1) : rest[j] = Frames[j]
      /\ Top = Frames[n] /\ DOMAIN Frames = 1 .. n
  BY <1>1, <1>2, <1>3, LastIs, SeqDomain
<1>7. CASE rest = <<>>
  <2>1. gs = <<>>
    BY <1>7
  <2>2. FramesTell(gs)
    <3>1. DOMAIN gs = {} /\ Len(gs) = 0
      BY <2>1
    <3> QED
      BY <3>1 DEF FramesTell
  <2>3. Top.of = Calls(vms, Active)
    <3>1. n = 1
      BY <1>6, <1>7, SeqDomain
    <3>2. Top = Frames[1]
      BY <1>6, <3>1
    <3>3. Frames[1].of = Calls(vms, Active)
      BY <1>1, FirstIs
    <3> QED
      BY <3>2, <3>3
  <2> HIDE DEF gs
  <2>4. v.frames = <<>> /\ v.way = Normally /\ ~v.escaped
    BY <1>1, <1>2, <1>5, <2>1 DEF VmRecord
  <2> HIDE DEF v
  <2>5. ~ScopesEntangled => VmTells(program, v, Calls(vms, Active), log', suppressed')
    BY <2>3, <2>4, NormallyIs DEF VmTells
  <2> QED
    BY <1>4, <2>1, <2>2, <2>4, <2>5, MovesAre
<1>8. CASE rest # <<>>
  <2>1. /\ g \in FrameRecord /\ g = rest[n - 1] /\ n - 1 \in 1 .. (n - 1) /\ (n - 1) + 1 = n
        /\ n - 1 \in 1 .. n
    BY <1>6, <1>8, LastIs, SeqDomain
  <2>2. FramesTell(rest) /\ FrameTells(g)
    BY <1>1, <1>2, <1>3, <1>6, <1>8, TellFront, LastTells
  <2>3. g = Frames[n - 1] /\ Carries(Frames[n - 1], Frames[(n - 1) + 1])
    BY <1>2, <1>6, <2>1 DEF FramesGood
  <2>4. g.code = "body" /\ g.step = "down" /\ g.level = Top.of
    BY <1>6, <2>1, <2>3 DEF Carries
  <2>5. FrameGood(g)
    BY <1>2, <1>6, <2>1, <2>3 DEF FramesGood
  <2>6. g.of < g.level /\ g.of \in Nat /\ g.level \in 1 .. Depth
    <3>1. Top.of \in 0 .. Depth
      BY <1>2 DEF FrameRecord
    <3> HIDE DEF g
    <3>2. g.of \in 0 .. Depth
      BY <2>1 DEF FrameRecord
    <3>3. g.of < g.level
      BY <2>4, <2>5 DEF FrameGood
    <3> QED
      BY <1>2, <2>4, <3>1, <3>2, <3>3
  <2>7. Kind(g.level) \in Procedures
    BY <1>2, <2>4, <2>6 DEF FrameTells
  <2>8. /\ f.code = g.code /\ f.of = g.of /\ f.step = "after" /\ f.level = g.level
        /\ f.exception = g.exception /\ f.pending = g.pending
        /\ f.lost = g.lost /\ f.kept = g.kept /\ f.scope = g.scope
    BY <2>1, GotoIs
  <2>9. f \in FrameRecord
    BY <2>1 DEF FrameRecord, Goto
  <2>10. gs = Append(Front(rest), f)
    BY <1>8 DEF Resumed
  <2> HIDE DEF f
  <2>11. FrameTells(f)
    BY <2>2, <2>4, <2>8 DEF FrameTells
  <2>12. f.lost = NoTags
    BY <2>2, <2>4, <2>8 DEF FrameTells
  <2> HIDE DEF g, rest
  <2>13. g.code = "body" /\ g = Last(rest)
    BY <2>4 DEF g
  <2>14. FramesTell(Append(Front(rest), f))
    BY <1>6, <1>8, <2>2, <2>8, <2>9, <2>11, <2>13, TellReplace
  <2>15. /\ Append(Front(rest), f) # <<>>
         /\ Append(Front(rest), f)[Len(Append(Front(rest), f))] = f
    BY <1>6, <1>8, <2>9, ReplacedIs
  <2>16. ~ScopesEntangled => BodyTells(program, f, Normally, log', suppressed')
    <3> SUFFICES ASSUME ~ScopesEntangled, NEW k \in 0 .. f.level
                 PROVE  Tells(program,
                          Construct(program, Means(program, k, f.level + 1), f.level),
                          Normally, f.lost, f.of, log', suppressed')
      BY <2>8 DEF BodyTells
    <3>1. Ends(program, Closed(Means(program, k, f.level + 1)), Normally, log', suppressed')
      BY <2>4, <2>8
    <3>2. f.level \in 1 .. DepthOf(program) /\ KindIn(program, f.level) \in Procedures
      BY <2>6, <2>7, <2>8, KnownIs
    <3> QED
      BY <1>2, <2>12, <3>1, <3>2, CallComesBack
  <2> HIDE DEF gs
  <2>17. FramesTell(gs) /\ gs # <<>> /\ gs[Len(gs)] = f
    BY <2>10, <2>14, <2>15
  <2>18. v.frames = gs /\ v.way = Normally /\ ~v.escaped
    BY <1>1, <1>2, <1>5 DEF VmRecord
  <2>19. ~ScopesEntangled => TopTells(program, gs, Normally, log', suppressed')
    BY <2>8, <2>13, <2>16, <2>17 DEF TopTells
  <2> HIDE DEF v
  <2> QED
    BY <1>4, <2>17, <2>18, <2>19, MovesTell, NormallyIs
<1> QED
  BY <1>7, <1>8

LEMMA CompleteBodyTells ==
  ASSUME MeaningInv, Executes \/ task = "parked", Top.code = "body", Moves, CompleteBody,
         ~ScopesEntangled =>
           \A k \in 0 .. (Top.level - 1) :
             Tells(program, Means(program, k, Top.level), Normally, Top.lost, Top.of,
                   log', suppressed')
  PROVE  CodeInv' /\ ToldInv'
<1> DEFINE outer == Top.level - 1
<1>1. Frames # <<>>
  BY ExecutesIs DEF MeaningInv
<1>2. /\ FrameTells(Top) /\ Top \in FrameRecord /\ FrameGood(Top)
      /\ Known(program) /\ Depth \in Nat /\ Top.of \in Nat
      /\ Top.level \in 1 .. (Depth + 1)
  BY <1>1, TopKnown
<1>3. Top.of < Top.level
  BY <1>2 DEF FrameGood
<1>4. outer \in 0 .. Depth /\ outer + 1 = Top.level /\ outer \in Nat
  BY <1>2
<1>5. \/ outer = Top.of /\ FinishReturn
      \/ outer # Top.of /\ MoveTo(IF Kind(outer) \in Ensured THEN "ensure" ELSE "after", outer)
  BY DEF CompleteBody
<1> HIDE DEF outer
<1>6. ASSUME ~ScopesEntangled, NEW k \in 0 .. outer
      PROVE  Tells(program, Means(program, k, outer + 1), Normally, Top.lost, Top.of,
                   log', suppressed')
  BY <1>4, <1>6 DEF outer
<1>7. CASE outer = Top.of /\ FinishReturn
  <2>1. ASSUME ~ScopesEntangled, NEW k \in 0 .. Top.of
        PROVE  Ends(program, Closed(Means(program, k, Top.of + 1)), Normally, log', suppressed')
    <3>1. Ends(program, Means(program, k, outer + 1), Normally, log', suppressed')
      BY <1>2, <1>6, <1>7, <2>1, TellsEnds
    <3>2. outer + 1 \in 1 .. (DepthOf(program) + 1)
      BY <1>2, <1>4, KnownIs
    <3>3. Ends(program, Closed(Means(program, k, outer + 1)), Normally, log', suppressed')
      BY <1>2, <3>1, <3>2, EndsClosed
    <3> QED
      BY <1>7, <3>3
  <2> QED
    BY <1>7, <2>1, BodyFinishes
<1>8. CASE /\ outer # Top.of
           /\ MoveTo(IF Kind(outer) \in Ensured THEN "ensure" ELSE "after", outer)
  <2> DEFINE step == IF Kind(outer) \in Ensured THEN "ensure" ELSE "after"
             f == Goto(Top, step, outer)
  <2>1. outer \in (Top.of + 1) .. (Top.level - 1) /\ outer \in 1 .. Depth
        /\ outer \in 1 .. (Depth + 1)
    BY <1>2, <1>3, <1>4, <1>8
  <2>2. Kind(outer) \notin Procedures
    BY <1>2, <2>1 DEF FrameTells
  <2>3. \A l \in (Top.of + 1) .. (outer - 1) : Kind(l) \notin Procedures
    <3>1. \A l \in (Top.of + 1) .. (outer - 1) : l \in (Top.of + 1) .. (Top.level - 1)
      BY <1>2, <1>4
    <3> QED
      BY <1>2, <3>1 DEF FrameTells
  <2>4. /\ step \in {"down", "after", "ensure", "return"} /\ step # "down" /\ step # "return"
        /\ step \in {"ensure", "return"} => Kind(outer) \in Ensured
        /\ step = "after" => Kind(outer) \notin Ensured
    OBVIOUS
  <2>5. MoveTo(step, outer)
    BY <1>8
  <2> HIDE DEF step
  <2>6. f.step = step /\ f.level = outer /\ f.lost = Top.lost /\ f.of = Top.of
    BY <1>2, GotoIs
  <2> HIDE DEF f
  <2>7. ~ScopesEntangled => BodyTells(program, f, Normally, log', suppressed')
    <3> SUFFICES ASSUME ~ScopesEntangled
                 PROVE  BodyTells(program, f, Normally, log', suppressed')
      OBVIOUS
    <3>1. step = "after" => \A k \in 0 .. outer :
            Tells(program, Construct(program, Means(program, k, outer + 1), outer),
                  Normally, Top.lost, Top.of, log', suppressed')
      <4> SUFFICES ASSUME step = "after", NEW k \in 0 .. outer
                   PROVE  Tells(program,
                            Construct(program, Means(program, k, outer + 1), outer),
                            Normally, Top.lost, Top.of, log', suppressed')
        OBVIOUS
      <4>1. outer \in 1 .. DepthOf(program) /\ KindIn(program, outer) \notin Ensured
            /\ KindIn(program, outer) \notin Procedures
        BY <2>1, <2>2, <2>4, KnownIs
      <4> QED
        BY <1>2, <1>6, <4>1, QuietTells
    <3>2. f.step # "return" /\ f.step # "down"
      BY <2>4, <2>6
    <3> QED
      BY <1>6, <2>6, <3>1, <3>2 DEF BodyTells
  <2> QED
    BY <2>1, <2>3, <2>4, <2>5, <2>7, BodyGoes DEF f
<1> QED
  BY <1>5, <1>7, <1>8

LEMMA ReturnTells ==
  ASSUME MeaningInv, Executes, Top.code = "body", Moves, Return,
         ~ScopesEntangled =>
           \A k \in 0 .. (Top.level - 1) :
             Tells(program, Means(program, k, Top.level), Returning, Top.lost, Top.of,
                   log', suppressed')
  PROVE  CodeInv' /\ ToldInv'
<1> DEFINE e == Max(EnsuresOnReturn)
           L == Top.level
<1>1. Frames # <<>>
  BY ExecutesIs DEF MeaningInv
<1>2. /\ FrameTells(Top) /\ Top \in FrameRecord /\ FrameGood(Top)
      /\ Known(program) /\ Depth \in Nat /\ Top.of \in Nat
      /\ L \in 1 .. (Depth + 1) /\ L \in Nat
  BY <1>1, TopKnown
<1>3. Top.of < L
  BY <1>2 DEF FrameGood
<1>4. \A l : l \in EnsuresOnReturn <=>
        l \in (Top.of + 1) .. (L - 1) /\ Kind(l) \in Ensured
  BY DEF EnsuresOnReturn, Enclosing
<1>5. \A l \in (Top.of + 1) .. (L - 1) : Kind(l) \notin Procedures
  BY <1>2 DEF FrameTells
<1>6. DepthOf(program) = Depth /\ \A l : KindIn(program, l) = Kind(l)
  BY KnownIs
<1>7. \A l : l \in (Top.of + 1) .. (L - 1) /\ l \notin EnsuresOnReturn =>
        Passing(Returning.how, KindIn(program, l)) /\ KindIn(program, l) \notin Procedures
  BY <1>4, <1>5, <1>6, NormallyIs DEF Passing
<1>8. ASSUME ~ScopesEntangled, NEW low \in (Top.of + 1) .. L, NEW k \in 0 .. (low - 1),
             \A l \in low .. (L - 1) : l \notin EnsuresOnReturn
      PROVE  Tells(program, Means(program, k, low), Returning, Top.lost, Top.of,
                   log', suppressed')
  <2>1. k \in 0 .. (L - 1) /\ low \in 1 .. L
    BY <1>2, <1>8
  <2>2. Tells(program, Means(program, k, L), Returning, Top.lost, Top.of, log', suppressed')
    BY <1>8, <2>1
  <2>3. \A l \in low .. (L - 1) :
          Passing(Returning.how, KindIn(program, l)) /\ KindIn(program, l) \notin Procedures
    <3>1. \A l \in low .. (L - 1) : l \in (Top.of + 1) .. (L - 1)
      BY <1>2, <1>8
    <3> QED
      BY <1>7, <1>8, <3>1
  <2> HIDE DEF L
  <2> QED
    BY <1>2, <1>6, <2>1, <2>2, <2>3, PassesDown
<1>9. CASE EnsuresOnReturn = {}
  <2>1. FinishReturn
    BY <1>9 DEF Return
  <2>2. ASSUME ~ScopesEntangled, NEW k \in 0 .. Top.of
        PROVE  Ends(program, Closed(Means(program, k, Top.of + 1)), Normally, log', suppressed')
    <3>1. Top.of + 1 \in (Top.of + 1) .. L /\ (Top.of + 1) - 1 = Top.of
      BY <1>2, <1>3
    <3>2. Tells(program, Means(program, k, Top.of + 1), Returning, Top.lost, Top.of,
                log', suppressed')
      BY <1>8, <1>9, <2>2, <3>1
    <3>3. Ends(program, Means(program, k, Top.of + 1), Returning, log', suppressed')
      BY <1>2, <3>2, TellsEnds
    <3>4. Top.of + 1 \in 1 .. (DepthOf(program) + 1)
      BY <1>2, <1>3, <1>6
    <3> QED
      BY <1>2, <3>3, <3>4, EndsClosed
  <2> QED
    BY <2>1, <2>2, BodyFinishes
<1>10. CASE EnsuresOnReturn # {}
  <2>1. MoveTo("return", e)
    BY <1>10 DEF Return
  <2>2. e \in EnsuresOnReturn /\ \A l \in EnsuresOnReturn : l <= e
    <3>1. EnsuresOnReturn \subseteq 0 .. Depth
      BY <1>2, <1>4
    <3> QED
      BY <1>2, <1>10, <3>1, GreatestNatural
  <2> HIDE DEF e
  <2>3. /\ e \in (Top.of + 1) .. (L - 1) /\ Kind(e) \in Ensured
        /\ e \in 1 .. (Depth + 1) /\ e \in Nat
    BY <1>2, <1>4, <2>2
  <2>4. \A l \in (Top.of + 1) .. (e - 1) : Kind(l) \notin Procedures
    <3>1. \A l \in (Top.of + 1) .. (e - 1) : l \in (Top.of + 1) .. (L - 1)
      BY <1>2, <2>3
    <3> QED
      BY <1>5, <3>1
  <2>5. ASSUME ~ScopesEntangled, NEW k \in 0 .. e
        PROVE  Tells(program, Means(program, k, e + 1), Returning, Top.lost, Top.of,
                     log', suppressed')
    <3>1. e + 1 \in (Top.of + 1) .. L /\ k \in 0 .. ((e + 1) - 1)
      BY <1>2, <2>3
    <3>2. \A l \in (e + 1) .. (L - 1) : l \notin EnsuresOnReturn
      BY <1>2, <2>2, <2>3
    <3> QED
      BY <1>8, <2>5, <3>1, <3>2
  <2> DEFINE f == Goto(Top, "return", e)
  <2>6. f.step = "return" /\ f.level = e /\ f.lost = Top.lost /\ f.of = Top.of
    BY <1>2, GotoIs
  <2> HIDE DEF f
  <2>7. ~ScopesEntangled => BodyTells(program, f, Normally, log', suppressed')
    BY <2>5, <2>6 DEF BodyTells
  <2>8. ~ScopesEntangled =>
          BodyTells(program, Goto(Top, "return", e), Normally, log', suppressed')
    BY <2>7 DEF f
  <2>9. "return" \in {"down", "after", "ensure", "return"}
    OBVIOUS
  <2> QED
    BY <2>1, <2>3, <2>4, <2>8, <2>9, BodyGoes
<1> QED
  BY <1>9, <1>10

\* The top code of a VM is left.
LEMMA WayTells ==
  ASSUME MeaningInv, Frames # <<>>, ~vms[Active].escaped, Moves, NEW way,
         SetVm([vms[Active] EXCEPT !.way = way]), way.how # "fault",
         ~ScopesEntangled => TopTells(program, Frames, way, log', suppressed')
  PROVE  CodeInv' /\ ToldInv'
<1> DEFINE v == [vms[Active] EXCEPT !.way = way]
<1>1. vms[Active] \in VmRecord /\ FramesTell(Frames) /\ Frames = vms[Active].frames
  BY TopKnown
<1>2. v.frames = Frames /\ v.way = way /\ ~v.escaped
  BY <1>1 DEF VmRecord
<1>3. SetVm(v)
  OBVIOUS
<1> HIDE DEF v
<1> QED
  BY <1>1, <1>2, <1>3, MovesTell

LEMMA LeavesIs ==
  ASSUME NEW act, NEW site, Leaves(act, site)
  PROVE  /\ act.do = "raise" \/ act.do = "throw"
         /\ SetVm([vms[Active] EXCEPT !.way = WayOut(act, Normally, site)])
         /\ act.do = "raise" /\ Top.pending.how = "raise" =>
              suppressed' = Append(suppressed, <<site, Top.pending.what>>)
         /\ act.do # "raise" \/ Top.pending.how # "raise" => suppressed' = suppressed
         /\ WayOut(act, Normally, site).how = act.do
         /\ act.do = "raise" => WayOut(act, Normally, site).what = site
         /\ WayOut(act, Normally, site) # Normally
         /\ \A way : WayOut(act, way, site) = WayOut(act, Normally, site)
BY DEF Leaves, Raise, WayOut, Way, Normally

LEMMA BodyLeaves ==
  ASSUME MeaningInv, Executes, Top.code = "body", Moves, NEW act, NEW site,
         Leaves(act, site),
         ~ScopesEntangled =>
           \A k \in 0 .. (Top.level - 1) :
             Tells(program, Means(program, k, Top.level), WayOut(act, Normally, site),
                   Top.lost, Top.of, log', suppressed')
  PROVE  CodeInv' /\ ToldInv'
<1> DEFINE way == WayOut(act, Normally, site)
<1>1. Frames # <<>> /\ ~vms[Active].escaped
  BY ExecutesIs DEF MeaningInv
<1>2. Top = Frames[Len(Frames)]
  BY <1>1, TopKnown
<1>3. SetVm([vms[Active] EXCEPT !.way = way]) /\ way # Normally
  BY LeavesIs
<1>4. way.how = act.do /\ (act.do = "raise" \/ act.do = "throw")
  BY LeavesIs
<1>5. way.how # "fault"
  BY <1>4
<1> HIDE DEF way
<1>6. ~ScopesEntangled => BodyTells(program, Top, way, log', suppressed')
  BY <1>3 DEF BodyTells, way
<1>7. ~ScopesEntangled => TopTells(program, Frames, way, log', suppressed')
  BY <1>2, <1>6 DEF TopTells
<1> QED
  BY <1>1, <1>3, <1>5, <1>7, WayTells

LEMMA ExecuteActTells == MeaningInv /\ ExecuteAct => CodeInv' /\ ToldInv'
<1> SUFFICES ASSUME MeaningInv, ExecuteAct PROVE CodeInv' /\ ToldInv'
  OBVIOUS
<1>1. /\ AtAct /\ log' = log
      /\ \/ Here.do = "end" /\ CompleteBody /\ suppressed' = suppressed
         \/ Here.do = "return" /\ Return /\ suppressed' = suppressed
         \/ Leaves(Here, <<"act", Top.level>>)
  BY DEF ExecuteAct
<1>2. Executes /\ Top.code = "body" /\ (Innermost \/ Top.step = "after")
  BY <1>1 DEF AtAct
<1>3. Moves
  BY MovingSteps DEF MovingStep, MeaningInv
<1>4. Top.level \in Nat
  BY <1>2, ExecutesIs, TopKnown DEF MeaningInv
<1> DEFINE way == WayOut(Here, Normally, Site("act", Top.level))
<1>5. ASSUME ~ScopesEntangled, NEW k \in 0 .. (Top.level - 1)
      PROVE  Tells(program, Means(program, k, Top.level), way, Top.lost, Top.of,
                   log, suppressed)
  <2>1. k \in 0 .. Top.level /\ k # Top.level
    BY <1>4
  <2>2. ActEnds(program, k, Top.level) = way
    BY <1>2, <2>1, ActEndsIs
  <2>3. Tells(program, Means(program, k, Top.level), ActEnds(program, k, Top.level),
              Top.lost, Top.of, log, suppressed)
    BY <1>2, <1>5, <2>1, ActTold
  <2> QED
    BY <2>2, <2>3
<1>6. /\ Here.do = "return" => way = Returning
      /\ Here.do = "end" => way = Normally
  BY <1>2, ActEndsIs
<1> HIDE DEF way
<1>7. CASE Here.do = "end" /\ CompleteBody /\ suppressed' = suppressed
  BY <1>1, <1>2, <1>3, <1>5, <1>6, <1>7, CompleteBodyTells
<1>8. CASE Here.do = "return" /\ Return /\ suppressed' = suppressed
  BY <1>1, <1>2, <1>3, <1>5, <1>6, <1>8, ReturnTells
<1>9. CASE Leaves(Here, <<"act", Top.level>>)
  <2>1. Leaves(Here, Site("act", Top.level))
    BY <1>9 DEF Site
  <2>2. Here.do = "raise" \/ Here.do = "throw"
    BY <2>1, LeavesIs
  <2>3. suppressed' = suppressed
    <3>1. Frames # <<>>
      BY <1>2, ExecutesIs DEF MeaningInv
    <3>2. FrameGood(Top)
      BY <3>1, TopKnown
    <3>3. Top.pending.how # "raise"
      BY <1>2, <3>2 DEF FrameGood
    <3> QED
      BY <2>1, <3>3, LeavesIs
  <2>4. ~ScopesEntangled =>
           \A k \in 0 .. (Top.level - 1) :
             Tells(program, Means(program, k, Top.level),
                   WayOut(Here, Normally, Site("act", Top.level)),
                   Top.lost, Top.of, log', suppressed')
    BY <1>1, <1>5, <2>3 DEF way
  <2> QED
    BY <1>2, <1>3, <2>1, <2>4, BodyLeaves
<1> QED
  BY <1>1, <1>7, <1>8, <1>9

\* A program that sleeps stands at a sleep.
LEMMA SleepsAt ==
  ASSUME MeaningInv, task = "parked" \/ (AtAct /\ Here.do = "sleep")
  PROVE  /\ Top.code = "body" /\ (Innermost \/ Top.step = "after") /\ Here.do = "sleep"
         /\ Executes \/ task = "parked"
<1>1. CASE AtAct /\ Here.do = "sleep"
  BY <1>1 DEF AtAct
<1>2. CASE task = "parked"
  <2>1. (Innermost \/ Top.step = "after") /\ Here.do = "sleep"
    BY <1>2 DEF MeaningInv, CodeInv
  <2>2. Last(vms[1].frames).code = "body" /\ Len(vms) = 1
    BY <1>2 DEF MeaningInv, Inv, TaskGood
  <2>3. Active = Len(vms)
    BY <1>2, ExecutesIs DEF MeaningInv
  <2> QED
    BY <1>2, <2>1, <2>2, <2>3 DEF Top, Frames
<1> QED
  BY <1>1, <1>2

LEMMA SleepEndsTells == MeaningInv /\ SleepEnds => CodeInv' /\ ToldInv'
<1> SUFFICES ASSUME MeaningInv, SleepEnds PROVE CodeInv' /\ ToldInv'
  OBVIOUS
<1>1. /\ task = "parked" \/ (AtAct /\ Here.do = "sleep")
      /\ CompleteBody /\ log' = log /\ suppressed' = suppressed
  BY DEF SleepEnds
<1>2. /\ Executes \/ task = "parked"
      /\ Top.code = "body" /\ (Innermost \/ Top.step = "after") /\ Here.do = "sleep"
  BY <1>1, SleepsAt
<1>3. Moves
  BY MovingSteps DEF MovingStep, MeaningInv
<1>4. Top.level \in Nat
  BY <1>2, ExecutesIs, TopKnown DEF MeaningInv
<1>5. ASSUME ~ScopesEntangled, NEW k \in 0 .. (Top.level - 1)
      PROVE  Tells(program, Means(program, k, Top.level), Normally, Top.lost, Top.of,
                   log, suppressed)
  <2>1. k \in 0 .. Top.level /\ k # Top.level
    BY <1>4
  <2>2. ActEnds(program, k, Top.level) = Normally
    BY <1>2, <2>1, ActEndsIs
  <2>3. Tells(program, Means(program, k, Top.level), ActEnds(program, k, Top.level),
              Top.lost, Top.of, log, suppressed)
    BY <1>2, <1>5, <2>1, ActTold
  <2> QED
    BY <2>2, <2>3
<1> QED
  BY <1>1, <1>2, <1>3, <1>5, CompleteBodyTells

LEMMA SleepIsCancelledTells == MeaningInv /\ SleepIsCancelled => CodeInv' /\ ToldInv'
<1> SUFFICES ASSUME MeaningInv, SleepIsCancelled PROVE CodeInv' /\ ToldInv'
  OBVIOUS
<1> DEFINE v == [vms[Active] EXCEPT !.way = Way("fault", <<>>), !.escaped = TRUE]
<1>1. /\ AtAct /\ Here.do = "sleep" /\ log' = log /\ suppressed' = suppressed
      /\ SetVm(v)
  BY DEF SleepIsCancelled
<1>2. Executes /\ Top.code = "body" /\ (Innermost \/ Top.step = "after")
  BY <1>1 DEF AtAct
<1>3. Moves
  BY MovingSteps DEF MovingStep, MeaningInv
<1>4. Frames # <<>>
  BY <1>2, ExecutesIs DEF MeaningInv
<1>5. /\ vms[Active] \in VmRecord /\ FramesTell(Frames) /\ Frames = vms[Active].frames
      /\ Known(program) /\ Depth \in Nat /\ Top.level \in 1 .. (Depth + 1)
  BY <1>4, TopKnown
<1>6. v.frames = Frames /\ v.way = Faulted /\ v.escaped
  BY <1>5 DEF VmRecord, Faulted
<1>7. ASSUME ~ScopesEntangled
      PROVE  Ends(program, Means(program, Top.level, 1), Faulted, log, suppressed)
  <2>1. Top.level \in 0 .. Top.level /\ Top.level \in 1 .. (DepthOf(program) + 1)
        /\ 1 \in 1 .. Top.level
    BY <1>5, KnownIs
  <2>2. Tells(program, Means(program, Top.level, Top.level),
              ActEnds(program, Top.level, Top.level), Top.lost, Top.of, log, suppressed)
    BY <1>2, <1>7, <2>1, ActTold
  <2>3. ActEnds(program, Top.level, Top.level) = Faulted
    BY <1>1, <1>2, ActEndsIs
  <2>4. Ends(program, Means(program, Top.level, Top.level), Faulted, log, suppressed)
    BY <1>5, <2>2, <2>3, TellsEnds
  <2>5. \A l \in 1 .. (Top.level - 1) : Passing(Faulted.how, KindIn(program, l))
    BY NormallyIs DEF Passing
  <2> QED
    BY <1>5, <2>1, <2>4, <2>5, PassesToEnd
<1> HIDE DEF v
<1>8. ~ScopesEntangled => VmTells(program, v, Calls(vms, Active), log', suppressed')
  <2>1. Top.level \in 1 .. (DepthOf(program) + 1)
    BY <1>5, KnownIs
  <2> QED
    BY <1>1, <1>6, <1>7, <2>1, NormallyIs DEF VmTells
<1> QED
  BY <1>1, <1>3, <1>5, <1>6, <1>8, MovesAre

LEMMA ParkTells == MeaningInv /\ Park => CodeInv' /\ ToldInv'
<1> SUFFICES ASSUME MeaningInv, Park PROVE CodeInv' /\ ToldInv'
  OBVIOUS
<1>1. /\ AtAct /\ Here.do = "sleep" /\ task' = "parked" /\ program' = program
      /\ vms' = vms /\ log' = log /\ suppressed' = suppressed
  BY DEF Park
<1>2. Innermost \/ Top.step = "after"
  BY <1>1 DEF AtAct
<1>3. task # "done"
  BY <1>1, ExecutesIs DEF AtAct, MeaningInv
<1>4. Frames' = Frames /\ Top' = Top /\ Active' = Active
  BY <1>1 DEF Frames, Top, Active
<1>5. (Innermost' <=> Innermost) /\ Here' = Here
  BY <1>1, <1>4 DEF Innermost, Here, At, Depth
<1>6. CodeInv'
  <2>1. (\A i \in DOMAIN vms : FramesTell(vms[i].frames))'
    BY <1>1, SameProgramTells DEF MeaningInv, CodeInv
  <2>2. (\A i \in DOMAIN vms :
           vms[i].frames # <<>> /\ ~vms[i].left => vms[i].frames[1].of = Calls(vms, i))'
    BY <1>1 DEF MeaningInv, CodeInv, Calls
  <2>3. (task = "parked" => (Innermost \/ Top.step = "after") /\ Here.do = "sleep")'
    BY <1>1, <1>2, <1>4, <1>5
  <2> QED
    BY <2>1, <2>2, <2>3 DEF CodeInv
<1>7. ToldInv'
  <2>1. ~ScopesEntangled => VmTells(program, vms[Active], Calls(vms, Active), log, suppressed)
    BY <1>3 DEF MeaningInv, ToldInv
  <2>2. ~ScopesEntangled' => ~ScopesEntangled
    BY <1>1, SameProgramTells
  <2> QED
    BY <1>1, <1>4, <2>1, <2>2 DEF ToldInv, Calls
<1> QED
  BY <1>6, <1>7

\* Any step of a program that goes on.
LEMMA OthersTell ==
  ASSUME program' = program, task' = "running",
         \A i \in DOMAIN vms' : FramesTell(vms'[i].frames),
         \A i \in DOMAIN vms' :
           vms'[i].frames # <<>> /\ ~vms'[i].left =>
             vms'[i].frames[1].of = Calls(vms', i),
         NEW a, Active' = a,
         ~ScopesEntangled => VmTells(program, vms'[a], Calls(vms', a), log', suppressed')
  PROVE  CodeInv' /\ ToldInv'
<1>1. CodeInv'
  <2>1. (\A i \in DOMAIN vms : FramesTell(vms[i].frames))'
    BY SameProgramTells
  <2>2. (\A i \in DOMAIN vms :
           vms[i].frames # <<>> /\ ~vms[i].left => vms[i].frames[1].of = Calls(vms, i))'
    BY DEF Calls
  <2> QED
    BY <2>1, <2>2 DEF CodeInv
<1>2. ToldInv'
  <2>1. ~ScopesEntangled' => ~ScopesEntangled
    BY SameProgramTells
  <2> QED
    BY <2>1 DEF ToldInv, Calls
<1> QED
  BY <1>1, <1>2

\* A procedure that is entered.
LEMMA EnteredTells ==
  ASSUME MeaningInv, NEW kinds, kinds \subseteq Kinds, Enters(kinds)
  PROVE  /\ FramesTell(Frames) /\ Top.level \in Nat /\ Top.level \in Levels
         /\ Frames \in Seq(FrameRecord) /\ Frames # <<>> /\ vms[Active] \in VmRecord
         /\ Frames = vms[Active].frames /\ Top = Last(Frames)
         /\ ~vms[Active].escaped /\ vms[Active].way = Normally
         /\ Body(Top.level) \in FrameRecord
         /\ Body(Top.level).code = "body" /\ Body(Top.level).step = "down"
         /\ Body(Top.level).of = Top.level /\ Body(Top.level).level = Top.level + 1
         /\ Body(Top.level).lost = NoTags /\ Body(Top.level).scope = 0
         /\ Kind(Top.level) \in kinds
         /\ ~ScopesEntangled => Silent(log, suppressed)
<1>1. /\ Executes /\ Frames # <<>> /\ Top.code = "body" /\ Top.step = "down"
      /\ Top.level \in Levels /\ Top.level \in 0 .. Depth /\ Kind(Top.level) \in kinds
  BY EntersIs DEF MeaningInv
<1>2. /\ FramesTell(Frames) /\ Frames \in Seq(FrameRecord) /\ vms[Active] \in VmRecord
      /\ Top.level \in Nat /\ program \in Programs /\ Top = Frames[Len(Frames)]
      /\ Frames = vms[Active].frames /\ Top = Last(Frames)
  BY <1>1, TopKnown
<1>3. /\ Body(Top.level) \in FrameRecord
      /\ Body(Top.level).code = "body" /\ Body(Top.level).of = Top.level
      /\ Body(Top.level).scope = 0
  BY <1>1, <1>2, BodyIs
<1>4. /\ Body(Top.level).step = "down" /\ Body(Top.level).level = Top.level + 1
      /\ Body(Top.level).lost = NoTags
  BY DEF Body, Frame, NoTags
<1>5. ~vms[Active].escaped /\ vms[Active].way = Normally
  BY <1>1, ExecutesIs DEF MeaningInv
<1>6. ~ScopesEntangled => Silent(log, suppressed)
  <2>1. ~ScopesEntangled => TopTells(program, Frames, Normally, log, suppressed)
    BY <1>1, ExecutesTells
  <2> QED
    BY <1>1, <1>2, <2>1 DEF TopTells, BodyTells
<1> QED
  BY <1>1, <1>2, <1>3, <1>4, <1>5, <1>6

\* The frame of a procedure that was entered.
LEMMA NewBodyTells ==
  ASSUME MeaningInv, NEW f, f.code = "body", f.step = "down", f.of \in Nat,
         f.level = f.of + 1, f.lost = NoTags, Kind(f.of) \in Procedures,
         f.scope = IF f.of # 0 /\ Kind(f.of) = "with" THEN f.of ELSE 0
  PROVE  /\ FrameTells(f)
         /\ \A lg, sp : Silent(lg, sp) => BodyTells(program, f, Normally, lg, sp)
<1>1. \A l \in (f.of + 1) .. (f.level - 1) : FALSE
  OBVIOUS
<1> QED
  BY <1>1 DEF FrameTells, BodyTells

LEMMA CallMethodTells == MeaningInv /\ CallMethod => CodeInv' /\ ToldInv'
<1> SUFFICES ASSUME MeaningInv, CallMethod PROVE CodeInv' /\ ToldInv'
  OBVIOUS
<1> DEFINE f == Body(Top.level)
           gs == Append(Frames, f)
           v == [vms[Active] EXCEPT !.frames = gs]
           call == {"call"}
<1>1. /\ SetVm(v) /\ log' = log /\ suppressed' = suppressed
  BY DEF CallMethod, SetFrames
<1>2. Enters(call) /\ call \subseteq Kinds
  BY KindsAre DEF CallMethod
<1>3. \A kind \in call : kind \in Procedures /\ kind # "with"
  BY KindsAre
<1> HIDE DEF call
<1>4. Moves
  BY MovingSteps DEF MovingStep, MeaningInv
<1>5. /\ FramesTell(Frames) /\ Top.level \in Nat /\ Top.level \in Levels
      /\ Frames \in Seq(FrameRecord) /\ Frames # <<>> /\ vms[Active] \in VmRecord
      /\ ~vms[Active].escaped /\ vms[Active].way = Normally
      /\ f \in FrameRecord /\ f.code = "body" /\ f.step = "down"
      /\ f.of = Top.level /\ f.level = Top.level + 1
      /\ f.lost = NoTags /\ f.scope = 0
      /\ Kind(Top.level) \in call
      /\ ~ScopesEntangled => Silent(log, suppressed)
  BY <1>2, EnteredTells
<1> HIDE DEF f
<1>6. /\ FrameTells(f)
      /\ \A lg, sp : Silent(lg, sp) => BodyTells(program, f, Normally, lg, sp)
  BY <1>3, <1>5, NewBodyTells
<1>7. FramesTell(gs)
  BY <1>5, <1>6, TellPush DEF ClauseOn
<1>8. gs # <<>> /\ Last(gs) = f /\ gs[Len(gs)] = f
  BY <1>5, AppendIs
<1> HIDE DEF gs
<1>9. v.frames = gs /\ v.way = Normally /\ ~v.escaped
  BY <1>5 DEF VmRecord
<1>10. ~ScopesEntangled => TopTells(program, gs, Normally, log', suppressed')
  BY <1>1, <1>5, <1>6, <1>8 DEF TopTells
<1> HIDE DEF v
<1> QED
  BY <1>1, <1>4, <1>7, <1>8, <1>9, <1>10, MovesTell, NormallyIs

LEMMA OpenScopeTells == MeaningInv /\ OpenScope => CodeInv' /\ ToldInv'
<1> SUFFICES ASSUME MeaningInv, OpenScope PROVE CodeInv' /\ ToldInv'
  OBVIOUS
<1> DEFINE f == [Body(Top.level) EXCEPT !.scope = Top.level]
           gs == Append(Frames, f)
           v == [vms[Active] EXCEPT !.frames = gs]
           with == {"with"}
<1>1. /\ SetVm(v) /\ log' = log /\ suppressed' = suppressed
  BY DEF OpenScope, SetFrames
<1>2. Enters(with) /\ with \subseteq Kinds
  BY KindsAre DEF OpenScope
<1>3. \A kind \in with : kind \in Procedures /\ kind = "with"
  BY KindsAre
<1> HIDE DEF with
<1>4. PICK u : Follows(u) /\ SetVm(u) /\ task = "running" /\ Around
  BY OpenScopeIs DEF MeaningInv
<1> DEFINE b == Body(Top.level)
<1>5. /\ FramesTell(Frames) /\ Top.level \in Nat /\ Top.level \in Levels
      /\ Frames \in Seq(FrameRecord) /\ Frames # <<>> /\ vms[Active] \in VmRecord
      /\ ~vms[Active].escaped /\ vms[Active].way = Normally
      /\ b \in FrameRecord /\ b.code = "body" /\ b.step = "down"
      /\ b.of = Top.level /\ b.level = Top.level + 1
      /\ b.lost = NoTags /\ b.scope = 0
      /\ Kind(Top.level) \in with
      /\ ~ScopesEntangled => Silent(log, suppressed)
  BY <1>2, EnteredTells
<1>6. f = [b EXCEPT !.scope = Top.level]
  OBVIOUS
<1> HIDE DEF f, b
<1>7. /\ f.code = "body" /\ f.step = "down" /\ f.of = Top.level /\ f.level = Top.level + 1
      /\ f.lost = NoTags /\ f.scope = Top.level
  BY <1>5, <1>6 DEF FrameRecord
<1>8. f \in FrameRecord
  <2>1. Top.level \in 0 .. Depth
    BY <1>5 DEF Levels
  <2> QED
    BY <1>5, <1>6, <2>1 DEF FrameRecord
<1>9. Top.level # 0
  BY <1>5 DEF Levels
<1>10. /\ FrameTells(f)
       /\ \A lg, sp : Silent(lg, sp) => BodyTells(program, f, Normally, lg, sp)
  BY <1>3, <1>5, <1>7, <1>9, NewBodyTells
<1>11. FramesTell(gs)
  BY <1>5, <1>7, <1>8, <1>10, TellPush DEF ClauseOn
<1>12. gs # <<>> /\ Last(gs) = f /\ gs[Len(gs)] = f
  BY <1>5, <1>8, AppendIs
<1> HIDE DEF gs
<1>13. v.frames = gs /\ v.way = Normally /\ ~v.escaped
  BY <1>5 DEF VmRecord
<1>14. ~ScopesEntangled => TopTells(program, gs, Normally, log', suppressed')
  BY <1>1, <1>5, <1>7, <1>10, <1>12 DEF TopTells
<1>15. ~ScopesEntangled => VmTells(program, v, Calls(vms, Active), log', suppressed')
  <2> HIDE DEF v
  <2> QED
    BY <1>12, <1>13, <1>14, NormallyIs DEF VmTells
<1>16. u = v
  BY <1>1, <1>4, SetIs DEF MeaningInv, Inv
<1> HIDE DEF v
<1>17. task' = "running" /\ program' = program
  BY <1>4 DEF Around
<1> QED
  BY <1>1, <1>4, <1>11, <1>13, <1>15, <1>16, <1>17, TellsOn DEF MeaningInv

LEMMA EnterTryTells == MeaningInv /\ EnterTry => CodeInv' /\ ToldInv'
<1> SUFFICES ASSUME MeaningInv, EnterTry PROVE CodeInv' /\ ToldInv'
  OBVIOUS
<1> DEFINE level == Top.level + 1
           f == Goto(Top, "down", level)
           tries == Kinds \ Procedures
<1>1. /\ MoveTo("down", level) /\ log' = log /\ suppressed' = suppressed
  BY DEF EnterTry
<1>2. Enters(tries) /\ tries \subseteq Kinds
  BY DEF EnterTry
<1>3. \A kind \in tries : kind \notin Procedures
  OBVIOUS
<1> HIDE DEF tries
<1>4. Moves
  BY MovingSteps DEF MovingStep, MeaningInv
<1>5. Executes /\ Frames # <<>> /\ Top.code = "body" /\ Top.step = "down"
  BY <1>2, EntersIs DEF MeaningInv
<1>6. /\ Top.level \in Nat /\ Top.level \in Levels /\ Kind(Top.level) \in tries
      /\ ~ScopesEntangled => Silent(log, suppressed)
  BY <1>2, EnteredTells
<1>7. /\ FrameTells(Top) /\ Top \in FrameRecord /\ Depth \in Nat /\ Top.of \in Nat
  BY <1>5, TopKnown
<1>8. level \in 1 .. (Depth + 1)
  BY <1>6, <1>7 DEF Levels
<1>9. \A l \in (Top.of + 1) .. (level - 1) : Kind(l) \notin Procedures
  <2>1. \A l \in (Top.of + 1) .. (level - 1) :
          l = Top.level \/ l \in (Top.of + 1) .. (Top.level - 1)
    BY <1>6, <1>7
  <2>2. \A l \in (Top.of + 1) .. (Top.level - 1) : Kind(l) \notin Procedures
    BY <1>5, <1>7 DEF FrameTells
  <2> QED
    BY <1>3, <1>6, <2>1, <2>2
<1>10. f.step = "down"
  BY <1>7, GotoIs
<1> HIDE DEF level
<1>11. ~ScopesEntangled => BodyTells(program, f, Normally, log', suppressed')
  <2> HIDE DEF f
  <2> QED
    BY <1>1, <1>6, <1>10 DEF BodyTells
<1>12. "down" \in {"down", "after", "ensure", "return"} /\ "down" \notin {"ensure", "return"}
  OBVIOUS
<1> QED
  BY <1>1, <1>4, <1>5, <1>8, <1>9, <1>11, <1>12, BodyGoes

\* The last VM is the one that is active, unless it is one that is left.
LEMMA LastIsActive ==
  ASSUME VmsGood(vms'), ~vms'[Len(vms')].left
  PROVE  Active' = Len(vms')
<1>1. Last(vms') = vms'[Len(vms')]
  BY VmsAre
<1> QED
  BY <1>1 DEF Active

LEMMA CallBlockTells == MeaningInv /\ CallBlock => CodeInv' /\ ToldInv'
<1> SUFFICES ASSUME MeaningInv, CallBlock PROVE CodeInv' /\ ToldInv'
  OBVIOUS
<1> DEFINE f == Body(Top.level)
           w == NewVm(f)
           n == Len(vms)
           blocks == {"block"}
<1>1. /\ vms' = Append(vms, w) /\ log' = log /\ suppressed' = suppressed
      /\ program' = program /\ task' = task
  BY DEF CallBlock
<1>2. Enters(blocks) /\ blocks \subseteq Kinds
  BY KindsAre DEF CallBlock
<1>3. \A kind \in blocks : kind \in Procedures /\ kind # "with"
  BY KindsAre
<1> HIDE DEF blocks
<1>4. /\ Executes /\ Active = n /\ task = "running"
  BY <1>2, EntersIs DEF MeaningInv
<1>5. /\ FramesTell(Frames) /\ Top.level \in Nat /\ Top.level \in Levels
      /\ Frames \in Seq(FrameRecord) /\ Frames # <<>> /\ Frames = vms[Active].frames
      /\ Top = Last(Frames)
      /\ f \in FrameRecord /\ f.code = "body" /\ f.step = "down"
      /\ f.of = Top.level /\ f.level = Top.level + 1
      /\ f.lost = NoTags /\ f.scope = 0
      /\ Kind(Top.level) \in blocks
      /\ ~ScopesEntangled => Silent(log, suppressed)
  BY <1>2, EnteredTells
<1> HIDE DEF f
<1>6. /\ FrameTells(f)
      /\ \A lg, sp : Silent(lg, sp) => BodyTells(program, f, Normally, lg, sp)
  BY <1>3, <1>5, NewBodyTells
<1>7. /\ w.frames = <<f>> /\ w.way = Normally /\ ~w.escaped /\ ~w.left
  BY DEF NewVm
<1>8. FramesTell(<<f>>) /\ <<f>> # <<>> /\ <<f>>[Len(<<f>>)] = f
  BY <1>6 DEF FramesTell
<1>9. /\ VmsGood(vms') /\ VmsGood(vms)
  <2>1. Inv' /\ Inv
    BY CallBlockKeeps DEF MeaningInv
  <2>2. VmsGood(vms)'
    BY <2>1 DEF Inv
  <2> QED
    BY <1>1, <2>1, <2>2, SameProgram DEF Inv
<1>10. /\ n \in Nat \ {0} /\ DOMAIN vms = 1 .. n /\ vms \in Seq(VmRecord)
  BY <1>9, VmsAre DEF VmsGood
<1>11. /\ Len(vms') = n + 1 /\ vms'[n + 1] = w /\ \A i \in 1 .. n : vms'[i] = vms[i]
       /\ DOMAIN vms' = 1 .. (n + 1)
  BY <1>1, <1>10 DEF w
<1>12. Active' = n + 1
  BY <1>7, <1>9, <1>11, LastIsActive
<1> HIDE DEF w, n
<1>13. \A i \in 1 .. n : FramesTell(vms'[i].frames)
  BY <1>10, <1>11 DEF MeaningInv, CodeInv
<1>14. \A i \in DOMAIN vms' : FramesTell(vms'[i].frames)
  BY <1>7, <1>8, <1>10, <1>11, <1>13
<1>15. \A i \in 1 .. n : Calls(vms', i) = Calls(vms, i)
  <2> SUFFICES ASSUME NEW i \in 1 .. n PROVE Calls(vms', i) = Calls(vms, i)
    OBVIOUS
  <2>1. i # 1 => i - 1 \in 1 .. n
    BY <1>10
  <2> QED
    BY <1>11, <2>1 DEF Calls
<1>16. Calls(vms', n + 1) = Top.level
  <2>1. n + 1 # 1 /\ (n + 1) - 1 = n /\ n \in 1 .. n
    BY <1>10
  <2>2. vms'[n].frames = Frames
    BY <1>4, <1>5, <1>11, <2>1
  <2> QED
    BY <1>5, <2>1, <2>2 DEF Calls
<1>17. ASSUME NEW i \in DOMAIN vms', vms'[i].frames # <<>>, ~vms'[i].left
       PROVE  vms'[i].frames[1].of = Calls(vms', i)
  <2>1. CASE i = n + 1
    <3>1. vms'[i].frames[1] = f
      BY <1>7, <1>11, <2>1
    <3> QED
      BY <1>5, <1>16, <2>1, <3>1
  <2>2. CASE i # n + 1
    <3>1. i \in 1 .. n
      BY <1>10, <1>11, <2>2
    <3>2. vms'[i] = vms[i] /\ i \in DOMAIN vms
      BY <1>10, <1>11, <3>1
    <3>3. vms[i].frames[1].of = Calls(vms, i)
      BY <1>17, <3>2 DEF MeaningInv, CodeInv
    <3> QED
      BY <1>15, <3>1, <3>2, <3>3
  <2> QED
    BY <2>1, <2>2
<1>18. ~ScopesEntangled => VmTells(program, w, Calls(vms', n + 1), log', suppressed')
  <2>1. ~ScopesEntangled => TopTells(program, <<f>>, Normally, log', suppressed')
    BY <1>1, <1>5, <1>6, <1>8 DEF TopTells
  <2> QED
    BY <1>7, <1>8, <2>1, NormallyIs DEF VmTells
<1> QED
  BY <1>1, <1>4, <1>11, <1>12, <1>14, <1>17, <1>18, OthersTell

LEMMA FrontAndLast ==
  ASSUME NEW D, NEW s \in Seq(D), s # <<>>
  PROVE  Append(Front(s), Last(s)) = s
<1> DEFINE t == Append(Front(s), Last(s))
<1>1. Last(s) \in D /\ Last(s) = s[Len(s)] /\ Len(s) \in Nat \ {0}
  BY LastIs
<1>2. /\ t \in Seq(D) /\ Len(t) = Len(s)
      /\ \A i \in 1 .. (Len(s) - 1) : t[i] = s[i]
      /\ t[Len(s)] = Last(s)
  BY <1>1, ReplacedIs
<1> HIDE DEF t
<1>3. \A i \in 1 .. Len(t) : t[i] = s[i]
  <2>1. \A i \in 1 .. Len(t) : i \in 1 .. (Len(s) - 1) \/ i = Len(s)
    BY <1>1, <1>2
  <2> QED
    BY <1>1, <1>2, <2>1
<1>4. t = s
  BY <1>2, <1>3, SeqEqual
<1> QED
  BY <1>4 DEF t

LEMMA TellsLost ==
  ASSUME NEW p, NEW r, NEW way, NEW lost, NEW other, NEW of, NEW lg, NEW sp,
         \A j : j \in other <=> j \in lost,
         Tells(p, r, way, lost, of, lg, sp)
  PROVE  Tells(p, r, way, other, of, lg, sp)
BY DEF Tells

\* The frames below a clause.
LEMMA ClauseBelow ==
  ASSUME program \in Programs,
         NEW fs \in Seq(FrameRecord), FramesGood(fs), FramesTell(fs), fs # <<>>,
         Last(fs).code # "body"
  PROVE  LET rest == Below(fs)
             m == Merged(fs[Len(fs) - 1], Last(fs))
         IN  /\ rest \in Seq(FrameRecord) /\ rest # <<>> /\ FramesTell(rest)
             /\ Last(rest) = m /\ rest[Len(rest)] = m /\ m \in FrameRecord
             /\ fs[Len(fs) - 1].code = "rescue" =>
                  rest[Len(rest) - 1].of = ProcedureOf(fs)
             /\ fs[Len(fs) - 1].code = "body" => ProcedureOf(fs) = m.of
<1> DEFINE u == fs[Len(fs) - 1]
           b == fs[Len(fs) - 2]
           m == Merged(u, Last(fs))
           rest == Below(fs)
           n == Len(fs)
<1>1. /\ n \in Nat /\ n > 1 /\ u \in FrameRecord /\ FrameGood(u)
      /\ u = Last(Front(fs))
      /\ u.code = "rescue" => n > 2
  BY ClauseLies
<1>2. Last(fs) \in FrameRecord
  BY LastIs
<1>3. m \in FrameRecord
  <2> HIDE DEF u
  <2> QED
    BY <1>1, <1>2, MergedGood
<1>4. m.of = u.of
  <2> HIDE DEF u
  <2> QED
    BY <1>1, MergedIs
<1>5. /\ rest \in Seq(FrameRecord) /\ Len(rest) = n - 1
      /\ \A j \in 1 .. (n - 1) : \E lost : rest[j] = [fs[j] EXCEPT !.lost = lost]
  BY BelowFrames
<1>6. FramesTell(rest)
  BY TellBelow
<1>7. /\ Front(fs) # <<>> /\ Front(fs) \in Seq(FrameRecord)
      /\ rest = Append(Front(Front(fs)), m)
  BY <1>1, BelowIs
<1> HIDE DEF m
<1>8. rest # <<>> /\ Last(rest) = m
  <2> HIDE DEF rest
  <2> QED
    BY <1>3, <1>7, ReplacedIs
<1>9. rest[Len(rest)] = m
  <2> HIDE DEF rest
  <2> QED
    BY <1>5, <1>8, LastIs
<1>10. u.code = "rescue" => rest[Len(rest) - 1].of = ProcedureOf(fs)
  <2> SUFFICES ASSUME u.code = "rescue" PROVE rest[Len(rest) - 1].of = ProcedureOf(fs)
    OBVIOUS
  <2>1. Len(rest) - 1 = n - 2 /\ n - 2 \in 1 .. (n - 1) /\ n - 2 \in 1 .. n
    BY <1>1, <1>5
  <2>2. ProcedureOf(fs) = b.of
    BY DEF ProcedureOf
  <2>3. b \in FrameRecord
    BY <2>1, SeqDomain
  <2> HIDE DEF rest, b
  <2>4. PICK lost : rest[n - 2] = [b EXCEPT !.lost = lost]
    BY <1>5, <2>1 DEF b
  <2>5. rest[n - 2].of = b.of
    BY <2>3, <2>4 DEF FrameRecord
  <2> QED
    BY <2>1, <2>2, <2>5
<1>11. u.code = "body" => ProcedureOf(fs) = u.of
  BY DEF ProcedureOf
<1> QED
  BY <1>3, <1>4, <1>5, <1>6, <1>8, <1>9, <1>10, <1>11 DEF m

\* A clause that has been run, or left, leaves the construct to the code below.
LEMMA UnderTells ==
  ASSUME program \in Programs,
         NEW fs \in Seq(FrameRecord), FramesGood(fs), FramesTell(fs), fs # <<>>,
         Last(fs).code # "body", NEW way, NEW lg, NEW sp,
         \A k \in 0 .. Last(fs).of :
           Tells(program, Construct(program, Means(program, k, Last(fs).of + 1), Last(fs).of),
                 way, Merged(fs[Len(fs) - 1], Last(fs)).lost, ProcedureOf(fs), lg, sp),
         fs[Len(fs) - 1].code = "rescue" =>
           /\ way # Normally
           /\ \A k \in 0 .. Last(fs).of :
                Means(program, k, Last(fs).of + 1).way.how = "raise"
  PROVE  TopTells(program, Below(fs), way, lg, sp)
<1> DEFINE u == fs[Len(fs) - 1]
           m == Merged(u, Last(fs))
           rest == Below(fs)
           l == Last(fs).of
<1>1. /\ u \in FrameRecord /\ u.step = "after" /\ u.level = l
      /\ u.code = "rescue" => u.of = l
      /\ l \in Levels
      /\ u.code = "body" \/ u.code = "rescue"
  BY ClauseLies
<1>2. /\ rest \in Seq(FrameRecord) /\ rest # <<>>
      /\ rest[Len(rest)] = m
      /\ u.code = "rescue" => rest[Len(rest) - 1].of = ProcedureOf(fs)
      /\ u.code = "body" => ProcedureOf(fs) = m.of
  BY ClauseBelow
<1> HIDE DEF rest, u
<1>3. m.code = u.code /\ m.of = u.of /\ m.step = u.step /\ m.level = u.level
  BY <1>1, MergedIs
<1>4. Known(program) /\ Depth \in Nat /\ DepthOf(program) = Depth
  BY ProgramKnown, ProgramFacts, KnownIs
<1>5. \A k \in 0 .. l :
        Tells(program, Construct(program, Means(program, k, l + 1), l), way, m.lost,
              ProcedureOf(fs), lg, sp)
  BY DEF u
<1>6. u.code = "rescue" =>
        way # Normally /\ \A k \in 0 .. l : Means(program, k, l + 1).way.how = "raise"
  BY DEF u
<1> HIDE DEF m, l
<1>7. l \in 1 .. DepthOf(program) /\ l \in Nat
  BY <1>1, <1>4 DEF Levels
<1>8. CASE u.code = "body"
  <2>1. ASSUME way # Normally, NEW k \in 0 .. (l - 1)
        PROVE  Tells(program, Means(program, k, l), way, m.lost, m.of, lg, sp)
    <3>1. k \in 0 .. l
      BY <1>7
    <3>2. Tells(program, Construct(program, Means(program, k, l + 1), l), way, m.lost,
                m.of, lg, sp)
      BY <1>2, <1>5, <1>8, <3>1
    <3> QED
      BY <1>4, <1>7, <2>1, <3>2, LeftTells
  <2>2. m.step # "down" /\ m.step # "ensure" /\ m.step # "return" /\ m.level = l
    BY <1>1, <1>3
  <2>3. BodyTells(program, m, way, lg, sp)
    BY <1>2, <1>5, <1>8, <2>1, <2>2 DEF BodyTells
  <2>4. m.code = "body"
    BY <1>3, <1>8
  <2> QED
    BY <1>2, <2>3, <2>4 DEF TopTells, rest
<1>9. CASE u.code = "rescue"
  <2>1. m.step = "after" /\ m.of = l /\ m.code = "rescue" /\ way # Normally
    BY <1>1, <1>3, <1>6, <1>9
  <2>2. \A k \in 0 .. l :
          Tells(program, Construct(program, Means(program, k, l + 1), l), way, m.lost,
                rest[Len(rest) - 1].of, lg, sp)
    BY <1>2, <1>5, <1>9
  <2>3. RescueTells(program, m, rest[Len(rest) - 1].of, way, lg, sp)
    BY <1>6, <1>9, <2>1, <2>2 DEF RescueTells
  <2>4. rest[Len(rest)].code = "rescue"
    BY <1>2, <2>1
  <2>5. RescueTells(program, rest[Len(rest)], rest[Len(rest) - 1].of, way, lg, sp)
    BY <1>2, <2>3
  <2> QED
    BY <2>4, <2>5 DEF TopTells, rest
<1> QED
  BY <1>1, <1>8, <1>9

\* A clause comes to its end.
LEMMA ClauseFinishes ==
  ASSUME MeaningInv, Executes, Top.code # "body", Moves, FinishReturn,
         ~ScopesEntangled =>
           /\ \A k \in 0 .. Top.of :
                Tells(program, Construct(program, Means(program, k, Top.of + 1), Top.of),
                      Top.pending, Merged(Frames[Len(Frames) - 1], Top).lost,
                      ProcedureOf(Frames), log', suppressed')
           /\ Frames[Len(Frames) - 1].code = "rescue" =>
                \A k \in 0 .. Top.of : Means(program, k, Top.of + 1).way.how = "raise"
  PROVE  CodeInv' /\ ToldInv'
<1> DEFINE rest == Below(Frames)
           gs == IF rest = <<>> THEN rest ELSE Append(Front(rest), Resumed(Last(rest), Top))
           v == [vms[Active] EXCEPT !.way = Top.pending, !.frames = gs]
           u == Frames[Len(Frames) - 1]
<1>1. /\ Frames # <<>> /\ vms[Active].way = Normally /\ ~vms[Active].escaped
  BY ExecutesIs DEF MeaningInv
<1>2. /\ FramesTell(Frames) /\ FrameTells(Top) /\ Top \in FrameRecord /\ FrameGood(Top)
      /\ Frames \in Seq(FrameRecord) /\ FramesGood(Frames) /\ vms[Active] \in VmRecord
      /\ Top = Last(Frames) /\ program \in Programs
  BY <1>1, TopKnown
<1>3. SetVm(v)
  BY DEF FinishReturn
<1>4. Top.pending.how # "fault"
  BY <1>2 DEF FrameGood
<1>5. rest \in Seq(FrameRecord) /\ rest # <<>> /\ FramesTell(rest)
  BY <1>1, <1>2, ClauseBelow
<1>6. gs = rest
  <2>1. Resumed(Last(rest), Top) = Last(rest)
    BY DEF Resumed
  <2> HIDE DEF rest
  <2> QED
    BY <1>5, <2>1, FrontAndLast
<1> HIDE DEF gs
<1>7. v.frames = rest /\ v.way = Top.pending /\ ~v.escaped
  BY <1>1, <1>2, <1>6 DEF VmRecord
<1>8. u.code = "rescue" => Top.pending # Normally
  <2>1. u.code = "rescue" => Top.code = "ensure"
    BY <1>1, <1>2, ClauseLies
  <2> HIDE DEF u
  <2> QED
    BY <1>2, <2>1 DEF FrameTells
<1>9. ASSUME ~ScopesEntangled
      PROVE  TopTells(program, rest, Top.pending, log', suppressed')
  <2> DEFINE way == Top.pending
  <2>1. \A k \in 0 .. Last(Frames).of :
          Tells(program,
                Construct(program, Means(program, k, Last(Frames).of + 1), Last(Frames).of),
                way, Merged(Frames[Len(Frames) - 1], Last(Frames)).lost,
                ProcedureOf(Frames), log', suppressed')
    BY <1>2, <1>9
  <2>2. Frames[Len(Frames) - 1].code = "rescue" =>
           /\ way # Normally
           /\ \A k \in 0 .. Last(Frames).of :
                Means(program, k, Last(Frames).of + 1).way.how = "raise"
    BY <1>2, <1>8, <1>9
  <2>3. Last(Frames).code # "body"
    BY <1>2
  <2> HIDE DEF way
  <2>4. TopTells(program, Below(Frames), way, log', suppressed')
    BY <1>1, <1>2, <2>1, <2>2, <2>3, UnderTells
  <2> QED
    BY <2>4 DEF way
<1> HIDE DEF rest, v
<1> QED
  BY <1>3, <1>4, <1>5, <1>7, <1>9, MovesTell

\* The ensure of a body that has come to its end, or to a return.
LEMMA ConstructEnsures ==
  ASSUME NEW p, Known(p), NEW r, Shape(r), NEW l \in 1 .. DepthOf(p), KindIn(p, l) \in Ensured,
         r.way.how # "raise", r.way.how # "throw"
  PROVE  Construct(p, r, l) = EnsureMeans(p, r, l, Quirks)
<1>1. ClauseIn(p, l) \in Acts /\ (KindIn(p, l) = "ensure" \/ KindIn(p, l) = "both")
  BY KindsAre DEF Known
<1>2. RescueMeans(p, r, l) = r
  BY <1>1, RescueIs
<1>3. CASE KindIn(p, l) = "ensure"
  BY <1>3, ConstructIs
<1>4. CASE KindIn(p, l) = "both"
  <2>1. Construct(p, r, l) = EnsureMeans(p, RescueMeans(p, r, l), l, Quirks)
    BY <1>4, ConstructIs
  <2> QED
    BY <1>2, <2>1
<1> QED
  BY <1>1, <1>3, <1>4


LEMMA EnsureOfBody ==
  ASSUME MeaningInv, Executes, Top.code = "body", ~ScopesEntangled, NEW way,
         \/ way = Normally /\ Top.step = "ensure"
         \/ way = Returning /\ Top.step = "return",
         NEW k \in 0 .. Top.level
  PROVE  Tells(program, Construct(program, Means(program, k, Top.level + 1), Top.level),
               WayOut(FinallyIn(program, Top.level), way, Site("finally", Top.level)),
               Top.lost, Top.of, Logged(program, log, "ensure", Top.level), suppressed)
<1> DEFINE l == Top.level
           q == Means(program, k, l + 1)
<1>1. Frames # <<>>
  BY ExecutesIs DEF MeaningInv
<1>2. /\ Known(program) /\ FrameTells(Top) /\ Top \in FrameRecord /\ FrameGood(Top)
      /\ Top = Frames[Len(Frames)] /\ Depth \in Nat /\ l \in 1 .. (Depth + 1)
  BY <1>1, TopKnown
<1>3. BodyTells(program, Top, Normally, log, suppressed)
  <2>1. TopTells(program, Frames, Normally, log, suppressed)
    BY ExecutesTells
  <2> QED
    BY <1>2, <2>1 DEF TopTells
<1>4. l \in 1 .. DepthOf(program) /\ l + 1 \in 1 .. (DepthOf(program) + 1)
  BY <1>2, KnownIs DEF FrameGood
<1>5. KindIn(program, l) \in Ensured
  <2>1. Kind(l) \in Ensured
    BY <1>2 DEF FrameTells
  <2> QED
    BY <2>1, KnownIs
<1>6. Tells(program, q, way, Top.lost, Top.of, log, suppressed)
  BY <1>3 DEF BodyTells
<1>7. way.how # "fault" /\ way.how # "raise" /\ way.how # "throw"
  BY NormallyIs
<1>8. q.way = way
  BY <1>6 DEF Tells
<1> HIDE DEF l
<1>9. Shape(q)
  BY <1>2, <1>4, MeansShape
<1> HIDE DEF q
<1>10. Construct(program, q, l) = EnsureMeans(program, q, l, Quirks)
  BY <1>2, <1>4, <1>5, <1>7, <1>8, <1>9, ConstructEnsures
<1>11. Tells(program, IF way.how = "raise" THEN Costs(program, q, l) ELSE q, way, Top.lost,
             Top.of, log, suppressed)
  BY <1>6, <1>7
<1>12. Range(suppressed) =
         IF FinallyIn(program, l).do = "raise" /\ way.how = "raise"
         THEN Doubled(Range(suppressed), l, way.what) ELSE Range(suppressed)
  BY <1>7
<1>13. Tells(program, EnsureMeans(program, q, l, Quirks),
             WayOut(FinallyIn(program, l), way, Site("finally", l)),
             Top.lost, Top.of, Logged(program, log, "ensure", l), suppressed)
  BY <1>2, <1>4, <1>7, <1>8, <1>9, <1>11, <1>12, EnsureTold
<1> QED
  BY <1>10, <1>13 DEF l, q

\* The ensure of a try whose rescue clause has come to its end.
LEMMA EnsureOfRescue ==
  ASSUME MeaningInv, Executes, Top.code = "rescue", Top.step = "ensure", ~ScopesEntangled,
         NEW k \in 0 .. Top.of
  PROVE  /\ Means(program, k, Top.of + 1).way.how = "raise"
         /\ Tells(program, Construct(program, Means(program, k, Top.of + 1), Top.of),
                  WayOut(FinallyIn(program, Top.of), Normally, Site("finally", Top.of)),
                  Top.lost, Frames[Len(Frames) - 1].of,
                  Logged(program, log, "ensure", Top.of), suppressed)
<1> DEFINE l == Top.of
           r == Means(program, k, l + 1)
           q == RescueMeans(program, r, l)
           of == Frames[Len(Frames) - 1].of
           way == Normally
<1>1. Frames # <<>>
  BY ExecutesIs DEF MeaningInv
<1>2. /\ Known(program) /\ FrameTells(Top) /\ Top \in FrameRecord /\ FrameGood(Top)
      /\ Top = Frames[Len(Frames)] /\ Depth \in Nat
  BY <1>1, TopKnown
<1>3. RescueTells(program, Top, of, Normally, log, suppressed)
  <2>1. TopTells(program, Frames, Normally, log, suppressed)
    BY ExecutesTells
  <2> QED
    BY <1>2, <2>1 DEF TopTells
<1>4. l \in 1 .. DepthOf(program) /\ l + 1 \in 1 .. (DepthOf(program) + 1)
  BY <1>2, KnownIs DEF FrameGood, Levels
<1>5. KindIn(program, l) = "both"
  BY <1>2, KnownIs DEF FrameTells
<1> HIDE DEF of
<1>6. r.way.how = "raise" /\ Tells(program, q, way, Top.lost, of, log, suppressed)
  BY <1>3 DEF RescueTells
<1>7. way.how # "fault" /\ way.how # "raise"
  BY NormallyIs
<1>8. q.way = way
  BY <1>6 DEF Tells
<1> HIDE DEF l, way
<1>9. Shape(r) /\ ClauseIn(program, l) \in Acts
  BY <1>2, <1>4, MeansShape DEF Known
<1> HIDE DEF r
<1>10. Shape(q)
  BY <1>9, RescueIs
<1>11. Construct(program, r, l) = EnsureMeans(program, q, l, Quirks)
  BY <1>2, <1>4, <1>5, <1>6, <1>9, ConstructIs
<1> HIDE DEF q
<1>12. Tells(program, IF way.how = "raise" THEN Costs(program, q, l) ELSE q, way, Top.lost,
             of, log, suppressed)
  BY <1>6, <1>7
<1>13. Range(suppressed) =
         IF FinallyIn(program, l).do = "raise" /\ way.how = "raise"
         THEN Doubled(Range(suppressed), l, way.what) ELSE Range(suppressed)
  BY <1>7
<1>14. Tells(program, EnsureMeans(program, q, l, Quirks),
             WayOut(FinallyIn(program, l), way, Site("finally", l)),
             Top.lost, of, Logged(program, log, "ensure", l), suppressed)
  BY <1>2, <1>4, <1>7, <1>8, <1>10, <1>12, <1>13, EnsureTold
<1> QED
  BY <1>6, <1>11, <1>14 DEF l, r, of, way

LEMMA WayOutEnds ==
  ASSUME NEW act, act.do = "end", NEW way, NEW site
  PROVE  WayOut(act, way, site) = way
BY DEF WayOut

\* A rescue or ensure clause is left.
LEMMA ClauseLeaves ==
  ASSUME MeaningInv, Executes, Top.code # "body", Moves, NEW act, NEW site,
         Leaves(act, site),
         ~ScopesEntangled => TopTells(program, Frames, WayOut(act, Normally, site),
                                      log', suppressed')
  PROVE  CodeInv' /\ ToldInv'
<1> DEFINE way == WayOut(act, Normally, site)
<1>1. Frames # <<>> /\ ~vms[Active].escaped
  BY ExecutesIs DEF MeaningInv
<1>2. SetVm([vms[Active] EXCEPT !.way = way])
  BY LeavesIs
<1>3. way.how = act.do /\ (act.do = "raise" \/ act.do = "throw")
  BY LeavesIs
<1>4. way.how # "fault"
  BY <1>3
<1> HIDE DEF way
<1>5. ~ScopesEntangled => TopTells(program, Frames, way, log', suppressed')
  BY DEF way
<1> QED
  BY <1>1, <1>2, <1>4, <1>5, WayTells

\* A frame other than that of an ensure clause has nothing pending.
LEMMA LeavesQuietly ==
  ASSUME MeaningInv, Executes, Top.code # "ensure", NEW act, NEW site, Leaves(act, site)
  PROVE  suppressed' = suppressed
<1>1. Frames # <<>>
  BY ExecutesIs DEF MeaningInv
<1>2. FrameGood(Top)
  BY <1>1, TopKnown
<1>3. Top.pending.how # "raise"
  BY <1>2 DEF FrameGood
<1> QED
  BY <1>3, LeavesIs

\* A rescue clause, and the ensure of its try, come to their end.
LEMMA RescueFinishes ==
  ASSUME MeaningInv, Executes, Top.code = "rescue", Moves, FinishReturn,
         ~ScopesEntangled =>
           \A k \in 0 .. Top.of :
             Tells(program, Construct(program, Means(program, k, Top.of + 1), Top.of),
                   Normally, Top.lost, Frames[Len(Frames) - 1].of, log', suppressed')
  PROVE  CodeInv' /\ ToldInv'
<1> DEFINE u == Frames[Len(Frames) - 1]
           of == u.of
<1>1. Frames # <<>>
  BY ExecutesIs DEF MeaningInv
<1>2. /\ FrameTells(Top) /\ Top \in FrameRecord /\ FrameGood(Top)
      /\ FramesTell(Frames) /\ FramesGood(Frames)
      /\ Frames \in Seq(FrameRecord) /\ Top = Last(Frames)
  BY <1>1, TopKnown
<1>3. u.code = "body" /\ u \in FrameRecord
  BY <1>1, <1>2, ClauseLies
<1>4. Top.pending = Normally
  <2>1. Top.pending \in Reasons /\ Top.pending.how = "end"
    BY <1>2 DEF FrameGood, FrameRecord
  <2> QED
    BY <2>1, ReasonsAre
<1>5. Top.kept = NoTags
  BY <1>2 DEF FrameTells
<1> HIDE DEF u
<1>6. \A j : j \in Merged(u, Top).lost <=> j \in Top.lost
  BY <1>3, <1>5, MergedIs DEF LostAfter, NoTags
<1>7. ProcedureOf(Frames) = of
  BY <1>3 DEF ProcedureOf, u
<1> HIDE DEF of
<1>8. ASSUME ~ScopesEntangled, NEW k \in 0 .. Top.of
      PROVE  Tells(program, Construct(program, Means(program, k, Top.of + 1), Top.of),
                   Top.pending, Merged(u, Top).lost, ProcedureOf(Frames), log',
                   suppressed')
  <2> DEFINE other == Merged(u, Top).lost
  <2>1. Tells(program, Construct(program, Means(program, k, Top.of + 1), Top.of),
              Normally, Top.lost, of, log', suppressed')
    BY <1>8 DEF of, u
  <2>2. \A j : j \in other <=> j \in Top.lost
    BY <1>6
  <2> HIDE DEF other
  <2>3. Tells(program, Construct(program, Means(program, k, Top.of + 1), Top.of),
              Normally, other, of, log', suppressed')
    BY <2>1, <2>2, TellsLost
  <2> QED
    BY <1>4, <1>7, <2>3 DEF other
<1>9. u.code # "rescue" /\ Top.code # "body"
  BY <1>3
<1> QED
  BY <1>8, <1>9, ClauseFinishes DEF u

LEMMA EnsureInLineTells == MeaningInv /\ EnsureInLine => CodeInv' /\ ToldInv'
<1> SUFFICES ASSUME MeaningInv, EnsureInLine PROVE CodeInv' /\ ToldInv'
  OBVIOUS
<1> DEFINE l == Top.level
           act == At(l).finally
           site == Site("finally", l)
<1>1. /\ Executes /\ (Top.step = "ensure" \/ Top.step = "return")
      /\ log' = Append(log, <<"ensure", l, context.bound>>)
      /\ \/ /\ act.do = "end" /\ suppressed' = suppressed
            /\ \/ Top.step = "return" /\ Return
               \/ Top.step = "ensure" /\ Top.code = "rescue" /\ FinishReturn
               \/ /\ Top.step = "ensure" /\ Top.code = "body"
                  /\ MoveTo("after", l)
         \/ Leaves(act, site)
  BY DEF EnsureInLine, Site
<1>2. Frames # <<>>
  BY <1>1, ExecutesIs DEF MeaningInv
<1>3. /\ Known(program) /\ FrameTells(Top) /\ Top \in FrameRecord /\ FrameGood(Top)
      /\ Top = Frames[Len(Frames)] /\ Depth \in Nat /\ l \in 1 .. (Depth + 1)
      /\ Top.of \in Nat /\ FramesTell(Frames) /\ FramesGood(Frames)
      /\ Frames \in Seq(FrameRecord) /\ Top = Last(Frames)
  BY <1>2, TopKnown
<1>4. Moves
  BY MovingSteps DEF MovingStep, MeaningInv
<1>5. act = FinallyIn(program, l)
  BY KnownIs
<1>6. l \in Levels /\ l \in 1 .. DepthOf(program) /\ l \in Nat
  BY <1>1, <1>3, KnownIs DEF FrameGood, Levels
<1>7. ~ScopesEntangled => log' = Logged(program, log, "ensure", l)
  BY <1>1, <1>6, BoundAt DEF MeaningInv
<1>8. Top.code = "body" \/ Top.code = "rescue"
  <2>1. Top.code = "ensure" => Top.step = "down"
    BY <1>3 DEF FrameTells
  <2>2. Top.code \in {"body", "rescue", "ensure"}
    BY <1>3 DEF FrameRecord, Codes
  <2> QED
    BY <1>1, <2>1, <2>2
<1>9. CASE Top.code = "body"
  <2> DEFINE way == IF Top.step = "ensure" THEN Normally ELSE Returning
  <2>1. \/ way = Normally /\ Top.step = "ensure"
        \/ way = Returning /\ Top.step = "return"
    BY <1>1
  <2> HIDE DEF way
  <2>2. ASSUME ~ScopesEntangled, NEW k \in 0 .. l
        PROVE  Tells(program, Construct(program, Means(program, k, l + 1), l),
                     WayOut(act, way, site), Top.lost, Top.of, log', suppressed)
    <3>1. Tells(program, Construct(program, Means(program, k, l + 1), l),
                WayOut(FinallyIn(program, l), way, site), Top.lost, Top.of,
                Logged(program, log, "ensure", l), suppressed)
      BY <1>1, <1>9, <2>1, <2>2, EnsureOfBody
    <3> QED
      BY <1>5, <1>7, <2>2, <3>1
  <2> HIDE DEF act, site, l
  <2>3. ASSUME ~ScopesEntangled, WayOut(act, way, site) # Normally, NEW k \in 0 .. (l - 1)
        PROVE  Tells(program, Means(program, k, l), WayOut(act, way, site), Top.lost,
                     Top.of, log', suppressed)
    <3> DEFINE out == WayOut(act, way, site)
    <3>1. k \in 0 .. l
      BY <1>6
    <3>2. Tells(program, Construct(program, Means(program, k, l + 1), l), out,
                Top.lost, Top.of, log', suppressed) /\ out # Normally
      BY <2>2, <2>3, <3>1
    <3> HIDE DEF out
    <3>3. Tells(program, Means(program, k, l), out, Top.lost, Top.of, log', suppressed)
      BY <1>3, <1>6, <3>2, LeftTells
    <3> QED
      BY <3>3 DEF out
  <2>4. CASE act.do = "end" /\ suppressed' = suppressed /\ Top.step = "return" /\ Return
    <3>1. WayOut(act, way, site) = Returning /\ Returning # Normally
      BY <2>1, <2>4, WayOutEnds, NormallyIs
    <3>2. ~ScopesEntangled =>
            \A k \in 0 .. (Top.level - 1) :
              Tells(program, Means(program, k, Top.level), Returning, Top.lost, Top.of,
                    log', suppressed')
      BY <2>3, <2>4, <3>1 DEF l
    <3> QED
      BY <1>1, <1>4, <1>9, <2>4, <3>2, ReturnTells
  <2>5. CASE /\ act.do = "end" /\ suppressed' = suppressed /\ Top.step = "ensure"
             /\ MoveTo("after", l)
    <3> DEFINE f == Goto(Top, "after", l)
    <3>1. WayOut(act, way, site) = Normally
      BY <2>1, <2>5, WayOutEnds
    <3>2. f.step = "after" /\ f.level = l /\ f.lost = Top.lost /\ f.of = Top.of
      BY <1>3, GotoIs
    <3>3. \A i \in (Top.of + 1) .. (l - 1) : Kind(i) \notin Procedures
      BY <1>3, <1>9 DEF FrameTells, l
    <3> HIDE DEF f
    <3>4. ~ScopesEntangled => BodyTells(program, f, Normally, log', suppressed')
      BY <2>2, <2>5, <3>1, <3>2 DEF BodyTells
    <3>5. "after" \in {"down", "after", "ensure", "return"} /\ "after" \notin {"ensure", "return"}
      OBVIOUS
    <3> QED
      BY <1>1, <1>3, <1>4, <1>9, <2>5, <3>3, <3>4, <3>5, BodyGoes DEF f
  <2>6. CASE Leaves(act, site)
    <3>1. WayOut(act, way, site) = WayOut(act, Normally, site)
          /\ WayOut(act, Normally, site) # Normally
      BY <2>6, LeavesIs
    <3>2. suppressed' = suppressed
      BY <1>1, <1>9, <2>6, LeavesQuietly
    <3>3. ~ScopesEntangled =>
            \A k \in 0 .. (Top.level - 1) :
              Tells(program, Means(program, k, Top.level), WayOut(act, Normally, site),
                    Top.lost, Top.of, log', suppressed')
      BY <2>3, <3>1, <3>2 DEF l
    <3> QED
      BY <1>1, <1>4, <1>9, <2>6, <3>3, BodyLeaves
  <2> QED
    BY <1>1, <1>9, <2>4, <2>5, <2>6
<1>10. CASE Top.code = "rescue"
  <2>1. l = Top.of /\ Top.step = "ensure"
    <3>1. l = Top.of
      BY <1>3, <1>10 DEF FrameGood
    <3>2. Top.step # "return"
      BY <1>3, <1>10 DEF FrameTells
    <3> QED
      BY <1>1, <3>1, <3>2
  <2> DEFINE u == Frames[Len(Frames) - 1]
             of == u.of
             out == WayOut(act, Normally, site)
  <2>2. u.code = "body" /\ u \in FrameRecord
    BY <1>2, <1>3, <1>10, ClauseLies
  <2>3. ASSUME ~ScopesEntangled, NEW k \in 0 .. Top.of
        PROVE  /\ Means(program, k, Top.of + 1).way.how = "raise"
               /\ Tells(program, Construct(program, Means(program, k, Top.of + 1), Top.of),
                        out, Top.lost, of, log', suppressed)
    <3>1. Tells(program, Construct(program, Means(program, k, Top.of + 1), Top.of),
                WayOut(FinallyIn(program, Top.of), Normally, Site("finally", Top.of)),
                Top.lost, of, Logged(program, log, "ensure", Top.of), suppressed)
      BY <1>1, <1>10, <2>1, <2>3, EnsureOfRescue
    <3>2. Means(program, k, Top.of + 1).way.how = "raise"
      BY <1>1, <1>10, <2>1, <2>3, EnsureOfRescue
    <3> QED
      BY <1>5, <1>7, <2>1, <2>3, <3>1, <3>2
  <2>4. CASE act.do = "end" /\ suppressed' = suppressed /\ FinishReturn
    <3>1. out = Normally
      BY <2>4, WayOutEnds
    <3>2. ~ScopesEntangled =>
            \A k \in 0 .. Top.of :
              Tells(program, Construct(program, Means(program, k, Top.of + 1), Top.of),
                    Normally, Top.lost, Frames[Len(Frames) - 1].of, log', suppressed')
      BY <2>3, <2>4, <3>1
    <3> QED
      BY <1>1, <1>4, <1>10, <2>4, <3>2, RescueFinishes
  <2>5. CASE Leaves(act, site)
    <3>1. out # Normally
      BY <2>5, LeavesIs
    <3>2. suppressed' = suppressed
      BY <1>1, <1>10, <2>5, LeavesQuietly
    <3> HIDE DEF out, of
    <3>3. ~ScopesEntangled => RescueTells(program, Top, of, out, log', suppressed')
      BY <2>1, <2>3, <3>1, <3>2 DEF RescueTells
    <3>4. ~ScopesEntangled => TopTells(program, Frames, out, log', suppressed')
      BY <1>3, <1>10, <3>3 DEF TopTells, of
    <3>5. Top.code # "body"
      BY <1>10
    <3> QED
      BY <1>1, <1>4, <2>5, <3>4, <3>5, ClauseLeaves DEF out
  <2> QED
    BY <1>1, <1>10, <2>1, <2>4, <2>5
<1> QED
  BY <1>8, <1>9, <1>10

\* What a rescue clause that is begun was run for.
LEMMA RescueStands ==
  ASSUME MeaningInv, Executes, Top.code = "rescue", Top.step = "down"
  PROVE  LET of == Frames[Len(Frames) - 1].of IN
           /\ Known(program) /\ Top.of \in 1 .. DepthOf(program) /\ Top.of \in Levels
           /\ Top.level = Top.of /\ Kind(Top.of) \in Rescued
           /\ ~ScopesEntangled =>
                \A k \in 0 .. Top.of :
                  /\ Means(program, k, Top.of + 1).way.how = "raise"
                  /\ Shape(Means(program, k, Top.of + 1))
                  /\ MatchesIn(program, Top.of) =>
                       Tells(program, RescueMeans(program, Means(program, k, Top.of + 1), Top.of),
                             WayOut(ClauseIn(program, Top.of), Normally, Site("clause", Top.of)),
                             Top.lost, of, Logged(program, log, "rescue", Top.of), suppressed)
                  /\ ~MatchesIn(program, Top.of) =>
                       Tells(program, RescueMeans(program, Means(program, k, Top.of + 1), Top.of),
                             Way("raise", Top.exception), Top.lost, of, log, suppressed)
<1> DEFINE of == Frames[Len(Frames) - 1].of
           l == Top.of
<1>1. Frames # <<>>
  BY ExecutesIs DEF MeaningInv
<1>2. /\ Known(program) /\ FrameTells(Top) /\ Top \in FrameRecord /\ FrameGood(Top)
      /\ Top = Frames[Len(Frames)] /\ Depth \in Nat
  BY <1>1, TopKnown
<1>3. l \in 1 .. DepthOf(program) /\ l \in Levels /\ Top.level = l /\ l \in Nat
      /\ l + 1 \in 1 .. (DepthOf(program) + 1)
  BY <1>2, KnownIs DEF FrameGood, Levels
<1>4. Kind(l) \in Rescued
  BY <1>2 DEF FrameTells
<1> HIDE DEF of, l
<1>5. ASSUME ~ScopesEntangled, NEW k \in 0 .. l
      PROVE  /\ Means(program, k, l + 1).way.how = "raise"
             /\ Shape(Means(program, k, l + 1))
             /\ MatchesIn(program, l) =>
                  Tells(program, RescueMeans(program, Means(program, k, l + 1), l),
                        WayOut(ClauseIn(program, l), Normally, Site("clause", l)),
                        Top.lost, of, Logged(program, log, "rescue", l), suppressed)
             /\ ~MatchesIn(program, l) =>
                  Tells(program, RescueMeans(program, Means(program, k, l + 1), l),
                        Way("raise", Top.exception), Top.lost, of, log, suppressed)
  <2> DEFINE r == Means(program, k, l + 1)
             way == Way("raise", Top.exception)
  <2>1. RescueTells(program, Top, of, Normally, log, suppressed)
    <3>1. TopTells(program, Frames, Normally, log, suppressed)
      BY <1>5, ExecutesTells
    <3> QED
      BY <1>2, <3>1 DEF TopTells, of
  <2>2. r.way.how = "raise" /\ Tells(program, Costs(program, r, l), way, Top.lost, of,
                                     log, suppressed)
    BY <1>5, <2>1 DEF RescueTells, l
  <2>3. Shape(r)
    BY <1>2, <1>3, MeansShape
  <2> HIDE DEF r, way
  <2>4. /\ MatchesIn(program, l) =>
             Tells(program, RescueMeans(program, r, l),
                   WayOut(ClauseIn(program, l), Normally, Site("clause", l)), Top.lost, of,
                   Logged(program, log, "rescue", l), suppressed)
        /\ ~MatchesIn(program, l) =>
             Tells(program, RescueMeans(program, r, l), way, Top.lost, of, log, suppressed)
    BY <1>2, <1>3, <2>2, <2>3, RescueTold
  <2> QED
    BY <2>2, <2>3, <2>4 DEF r, way
<1> QED
  BY <1>2, <1>3, <1>4, <1>5 DEF of, l

LEMMA RescueDoesNotMatchTells == MeaningInv /\ RescueDoesNotMatch => CodeInv' /\ ToldInv'
<1> SUFFICES ASSUME MeaningInv, RescueDoesNotMatch PROVE CodeInv' /\ ToldInv'
  OBVIOUS
<1> DEFINE way == Way("raise", Top.exception)
           of == Frames[Len(Frames) - 1].of
<1>1. /\ Executes /\ Top.code = "rescue" /\ Top.step = "down" /\ ~At(Top.of).matches
      /\ SetVm([vms[Active] EXCEPT !.way = way]) /\ log' = log
      /\ suppressed' = IF Top.pending.how = "raise"
                       THEN Append(suppressed, <<Top.exception, Top.pending.what>>)
                       ELSE suppressed
  BY DEF RescueDoesNotMatch, Raise
<1>2. Frames # <<>> /\ ~vms[Active].escaped
  BY <1>1, ExecutesIs DEF MeaningInv
<1>3. FrameGood(Top) /\ Top = Frames[Len(Frames)]
  BY <1>2, TopKnown
<1>4. suppressed' = suppressed
  BY <1>1, <1>3 DEF FrameGood
<1>5. Moves
  BY MovingSteps DEF MovingStep, MeaningInv
<1>6. ~MatchesIn(program, Top.of)
  BY <1>1, KnownIs
<1>7. way.how = "raise" /\ way # Normally
  BY NormallyIs
<1>8. way.how # "fault"
  BY <1>7
<1>9. ~ScopesEntangled =>
        \A k \in 0 .. Top.of :
          /\ Means(program, k, Top.of + 1).way.how = "raise"
          /\ Tells(program, RescueMeans(program, Means(program, k, Top.of + 1), Top.of),
                   way, Top.lost, of, log, suppressed)
  BY <1>1, <1>6, RescueStands
<1> HIDE DEF way, of
<1>10. ~ScopesEntangled => RescueTells(program, Top, of, way, log', suppressed')
  BY <1>1, <1>4, <1>7, <1>9 DEF RescueTells
<1>11. ~ScopesEntangled => TopTells(program, Frames, way, log', suppressed')
  BY <1>1, <1>3, <1>10 DEF TopTells, of
<1> QED
  BY <1>1, <1>2, <1>5, <1>8, <1>11, WayTells

LEMMA RescueClauseTells == MeaningInv /\ RescueClause => CodeInv' /\ ToldInv'
<1> SUFFICES ASSUME MeaningInv, RescueClause PROVE CodeInv' /\ ToldInv'
  OBVIOUS
<1> DEFINE l == Top.of
           act == At(l).clause
           site == Site("clause", l)
           of == Frames[Len(Frames) - 1].of
           out == WayOut(act, Normally, site)
<1>1. /\ Executes /\ Top.code = "rescue" /\ Top.step = "down" /\ At(l).matches
      /\ log' = Append(log, <<"rescue", l, context.bound>>)
      /\ \/ /\ act.do = "end" /\ suppressed' = suppressed
            /\ \/ Kind(l) = "rescue" /\ FinishReturn
               \/ Kind(l) = "both" /\ MoveTo("ensure", l)
         \/ Leaves(act, site)
  BY DEF RescueClause, Site
<1>2. Frames # <<>> /\ ~vms[Active].escaped /\ vms[Active].way = Normally
  BY <1>1, ExecutesIs DEF MeaningInv
<1>3. /\ FrameTells(Top) /\ Top \in FrameRecord /\ FrameGood(Top)
      /\ Top = Frames[Len(Frames)] /\ Depth \in Nat /\ vms[Active] \in VmRecord
      /\ FramesTell(Frames) /\ FramesGood(Frames)
      /\ Frames \in Seq(FrameRecord) /\ Top = Last(Frames)
  BY <1>2, TopKnown
<1>4. Moves
  BY MovingSteps DEF MovingStep, MeaningInv
<1>5. /\ Known(program) /\ l \in 1 .. DepthOf(program) /\ l \in Levels
      /\ Top.level = l /\ Kind(l) \in Rescued
  BY <1>1, RescueStands
<1>6. MatchesIn(program, l) /\ act = ClauseIn(program, l) /\ KindIn(program, l) = Kind(l)
  BY <1>1, KnownIs
<1>7. ~ScopesEntangled => log' = Logged(program, log, "rescue", l)
  BY <1>1, <1>5, BoundAt DEF MeaningInv
<1>8. ASSUME ~ScopesEntangled, NEW k \in 0 .. l
      PROVE  /\ Means(program, k, l + 1).way.how = "raise"
             /\ Shape(Means(program, k, l + 1))
             /\ Tells(program, RescueMeans(program, Means(program, k, l + 1), l), out,
                      Top.lost, of, log', suppressed)
  <2>1. /\ Means(program, k, l + 1).way.how = "raise"
        /\ Shape(Means(program, k, l + 1))
        /\ Tells(program, RescueMeans(program, Means(program, k, l + 1), l),
                 WayOut(ClauseIn(program, l), Normally, Site("clause", l)),
                 Top.lost, of, Logged(program, log, "rescue", l), suppressed)
    BY <1>1, <1>6, <1>8, RescueStands
  <2> QED
    BY <1>6, <1>7, <1>8, <2>1
<1>9. CASE act.do = "end" /\ suppressed' = suppressed /\ Kind(l) = "rescue" /\ FinishReturn
  <2>1. out = Normally
    BY <1>9, WayOutEnds
  <2>2. ASSUME ~ScopesEntangled, NEW k \in 0 .. Top.of
        PROVE  Tells(program, Construct(program, Means(program, k, Top.of + 1), Top.of),
                     Normally, Top.lost, of, log', suppressed')
    <3> DEFINE r == Means(program, k, l + 1)
    <3>1. Shape(r) /\ Tells(program, RescueMeans(program, r, l), Normally, Top.lost, of,
                            log', suppressed)
      BY <1>8, <2>1, <2>2
    <3> HIDE DEF r, l, of
    <3>2. Construct(program, r, l) = RescueMeans(program, r, l)
      BY <1>5, <1>6, <1>9, <3>1, ConstructIs
    <3> QED
      BY <1>9, <3>1, <3>2 DEF r, l
  <2> QED
    BY <1>1, <1>4, <1>9, <2>2, RescueFinishes DEF of
<1>10. CASE act.do = "end" /\ suppressed' = suppressed /\ Kind(l) = "both" /\ MoveTo("ensure", l)
  <2> DEFINE f == Goto(Top, "ensure", l)
             gs == Replaced(f)
             v == [vms[Active] EXCEPT !.frames = gs]
  <2>1. out = Normally
    BY <1>10, WayOutEnds
  <2>2. /\ f.code = "rescue" /\ f.of = l /\ f.step = "ensure" /\ f.level = l
        /\ f.lost = Top.lost /\ f.kept = Top.kept
    BY <1>1, <1>3, GotoIs
  <2>3. f \in FrameRecord
    <3>1. l \in 1 .. (Depth + 1)
      BY <1>3, <1>5 DEF Levels
    <3> QED
      BY <1>3, <3>1 DEF FrameRecord, Goto
  <2>4. gs = Append(Front(Frames), f)
    BY DEF Replaced
  <2>5. SetVm(v)
    BY <1>10 DEF MoveTo, SetFrames
  <2> HIDE DEF f
  <2>6. FrameTells(f)
    BY <1>1, <1>3, <1>5, <1>10, <2>2 DEF FrameTells
  <2> HIDE DEF gs
  <2>7. FramesTell(gs)
    BY <1>1, <1>2, <1>3, <2>2, <2>3, <2>4, <2>6, TellReplace
  <2>8. /\ gs # <<>> /\ Len(gs) = Len(Frames) /\ gs[Len(gs)] = f
        /\ \A i \in 1 .. (Len(Frames) - 1) : gs[i] = Frames[i]
    BY <1>2, <1>3, <2>3, <2>4, ReplacedIs
  <2>9. Len(Frames) \in Nat /\ Len(Frames) > 1
    BY <1>1, <1>2, <1>3, ClauseLies
  <2>10. gs[Len(gs) - 1].of = of
    <3>1. Len(Frames) - 1 \in 1 .. (Len(Frames) - 1)
      BY <2>9
    <3> QED
      BY <2>8, <3>1
  <2>11. v.frames = gs /\ v.way = Normally /\ ~v.escaped
    BY <1>2, <1>3 DEF VmRecord
  <2> HIDE DEF of, out, v
  <2>12. ~ScopesEntangled => RescueTells(program, f, of, Normally, log', suppressed')
    BY <1>8, <1>10, <2>1, <2>2 DEF RescueTells
  <2>13. ~ScopesEntangled => TopTells(program, gs, Normally, log', suppressed')
    BY <2>2, <2>8, <2>10, <2>12 DEF TopTells
  <2> QED
    BY <1>4, <2>5, <2>7, <2>8, <2>11, <2>13, MovesTell, NormallyIs
<1>11. CASE Leaves(act, site)
  <2>1. out # Normally
    BY <1>11, LeavesIs
  <2>2. suppressed' = suppressed
    BY <1>1, <1>11, LeavesQuietly
  <2> HIDE DEF out, of
  <2>3. ~ScopesEntangled => RescueTells(program, Top, of, out, log', suppressed')
    BY <1>1, <1>8, <2>1, <2>2 DEF RescueTells
  <2>4. ~ScopesEntangled => TopTells(program, Frames, out, log', suppressed')
    BY <1>1, <1>3, <2>3 DEF TopTells, of
  <2>5. Top.code # "body"
    BY <1>1
  <2> QED
    BY <1>1, <1>4, <1>11, <2>4, <2>5, ClauseLeaves DEF out
<1> QED
  BY <1>1, <1>9, <1>10, <1>11

\* The construct of an ensure clause, for what it was run for.
LEMMA ConstructOfEnsure ==
  ASSUME NEW p, Known(p), NEW l \in 1 .. DepthOf(p), NEW k, NEW u,
         u.code = "body" => KindIn(p, l) = "ensure",
         u.code # "body" => KindIn(p, l) = "both" /\ Means(p, k, l + 1).way.how = "raise"
  PROVE  /\ Shape(RunFor(p, k, l, u))
         /\ Construct(p, Means(p, k, l + 1), l) =
              EnsureMeans(p, RunFor(p, k, l, u), l, Quirks)
<1> DEFINE r == Means(p, k, l + 1)
<1>1. l + 1 \in 1 .. (DepthOf(p) + 1) /\ ClauseIn(p, l) \in Acts
  BY DEF Known
<1>2. Shape(r)
  BY <1>1, MeansShape
<1> HIDE DEF r
<1>3. CASE u.code = "body"
  <2>1. RunFor(p, k, l, u) = r
    BY <1>3 DEF RunFor, r
  <2>2. Construct(p, r, l) = EnsureMeans(p, r, l, Quirks)
    BY <1>2, <1>3, ConstructIs
  <2> QED
    BY <1>2, <2>1, <2>2 DEF r
<1>4. CASE u.code # "body"
  <2>1. RunFor(p, k, l, u) = RescueMeans(p, r, l)
    BY <1>4 DEF RunFor, r
  <2>2. r.way.how = "raise" /\ r.way.how # "throw"
    BY <1>4 DEF r
  <2>3. Construct(p, r, l) = EnsureMeans(p, RescueMeans(p, r, l), l, Quirks)
    BY <1>2, <1>4, <2>2, ConstructIs
  <2>4. Shape(RescueMeans(p, r, l))
    BY <1>1, <1>2, RescueIs
  <2> QED
    BY <2>1, <2>3, <2>4 DEF r
<1> QED
  BY <1>3, <1>4

\* An ensure clause that is about to run.
LEMMA EnsureRuns ==
  ASSUME MeaningInv, Executes, Top.code = "ensure", ~ScopesEntangled,
         NEW k \in 0 .. Top.of, NEW sq,
         Range(sq) = IF FinallyIn(program, Top.of).do = "raise" /\ Top.pending.how = "raise"
                     THEN Doubled(Range(suppressed), Top.of, Top.pending.what)
                     ELSE Range(suppressed)
  PROVE  /\ Frames[Len(Frames) - 1].code # "body" =>
              Means(program, k, Top.of + 1).way.how = "raise"
         /\ Tells(program, Construct(program, Means(program, k, Top.of + 1), Top.of),
                  WayOut(FinallyIn(program, Top.of), Top.pending, Site("finally", Top.of)),
                  Merged(Frames[Len(Frames) - 1], Top).lost, ProcedureOf(Frames),
                  Logged(program, log, "ensure", Top.of), sq)
<1> DEFINE u == Frames[Len(Frames) - 1]
           l == Top.of
           way == Top.pending
           lost == Merged(u, Top).lost
           of == ProcedureOf(Frames)
           q == RunFor(program, k, l, u)
<1>1. Frames # <<>>
  BY ExecutesIs DEF MeaningInv
<1>2. /\ Known(program) /\ FrameTells(Top) /\ FrameGood(Top) /\ Depth \in Nat
      /\ FramesTell(Frames) /\ FramesGood(Frames) /\ Frames \in Seq(FrameRecord)
      /\ Top = Last(Frames) /\ Top = Frames[Len(Frames)]
  BY <1>1, TopKnown
<1>3. /\ l \in Levels
      /\ u.code = "body" \/ u.code = "rescue"
      /\ u.code = "body" => Kind(l) = "ensure"
      /\ u.code = "rescue" => Kind(l) = "both"
  BY <1>1, <1>2, ClauseLies
<1>4. l \in 1 .. DepthOf(program) /\ KindIn(program, l) = Kind(l)
  BY <1>2, <1>3, KnownIs DEF Levels
<1>5. way.how = "raise" \/ way.how = "throw"
  <2>1. Top \in FrameRecord
    BY <1>1, TopKnown
  <2>2. way \in Reasons
    BY <2>1 DEF FrameRecord
  <2>3. way.how # "fault"
    BY <1>2 DEF FrameGood
  <2>4. way # Normally
    BY <1>2 DEF FrameTells
  <2> QED
    BY <2>2, <2>3, <2>4, ReasonsAre
<1>6. EnsureTells(program, Top, u, of, Normally, log, suppressed)
  BY <1>2, ExecutesTells DEF TopTells
<1>7. /\ u.code # "body" => Means(program, k, l + 1).way.how = "raise"
      /\ Tells(program, IF way.how = "raise" THEN Costs(program, q, l) ELSE q,
               way, lost, of, log, suppressed)
  BY <1>6 DEF EnsureTells
<1> HIDE DEF u, lost, of, way, l
<1>8. Shape(q) /\ Construct(program, Means(program, k, l + 1), l) =
                    EnsureMeans(program, q, l, Quirks)
  BY <1>2, <1>3, <1>4, <1>7, ConstructOfEnsure
<1> HIDE DEF q
<1>9. q.way = way
  <2>1. Costs(program, q, l).way = q.way
    BY <1>8, CostsIs
  <2> QED
    BY <1>7, <2>1 DEF Tells
<1>10. way.how # "fault"
  BY <1>5
<1>11. Range(sq) = IF FinallyIn(program, l).do = "raise" /\ way.how = "raise"
                   THEN Doubled(Range(suppressed), l, way.what) ELSE Range(suppressed)
  BY DEF way, l
<1>12. Tells(program, EnsureMeans(program, q, l, Quirks),
             WayOut(FinallyIn(program, l), way, Site("finally", l)), lost, of,
             Logged(program, log, "ensure", l), sq)
  BY <1>2, <1>4, <1>7, <1>8, <1>9, <1>10, <1>11, EnsureTold
<1>13. Tells(program, Construct(program, Means(program, k, l + 1), l),
             WayOut(FinallyIn(program, l), way, Site("finally", l)), lost, of,
             Logged(program, log, "ensure", l), sq)
  BY <1>8, <1>12
<1> QED
  BY <1>7, <1>13 DEF l, way, lost, of, u

\* The exceptions that were suppressed, with one more.
LEMMA RangeOfAppend ==
  ASSUME NEW D, NEW sp \in Seq(D), NEW l, NEW what, NEW e \in D,
         e = <<Site("finally", l), what>>
  PROVE  /\ Range(Append(sp, e)) = Doubled(Range(sp), l, what)
         /\ Replaces(Append(sp, e), Site("finally", l), what)
<1> DEFINE sq == Append(sp, e)
<1>1. /\ DOMAIN sq = 1 .. (Len(sp) + 1) /\ sq[Len(sp) + 1] = e
      /\ \A i \in 1 .. Len(sp) : sq[i] = sp[i]
  OBVIOUS
<1> HIDE DEF sq
<1>2. Range(sq) = Range(sp) \cup {e}
  <2>1. \A i \in 1 .. (Len(sp) + 1) : i \in 1 .. Len(sp) \/ i = Len(sp) + 1
    OBVIOUS
  <2>2. DOMAIN sp = 1 .. Len(sp) /\ Len(sp) \in Nat
    OBVIOUS
  <2>3. 1 .. Len(sp) \subseteq 1 .. (Len(sp) + 1) /\ Len(sp) + 1 \in 1 .. (Len(sp) + 1)
    BY <2>2
  <2>4. ASSUME NEW x PROVE x \in Range(sq) <=> x \in Range(sp) \/ x = e
    BY <1>1, <2>1, <2>2, <2>3 DEF Range
  <2> QED
    BY <2>4
<1> QED
  BY <1>2 DEF sq, Doubled, Site, Replaces

LEMMA EnsureClauseTells == MeaningInv /\ EnsureClause => CodeInv' /\ ToldInv'
<1> SUFFICES ASSUME MeaningInv, EnsureClause PROVE CodeInv' /\ ToldInv'
  OBVIOUS
<1> DEFINE l == Top.of
           act == At(l).finally
           site == Site("finally", l)
           u == Frames[Len(Frames) - 1]
           of == ProcedureOf(Frames)
           lost == Merged(u, Top).lost
           pending == Top.pending
           out == WayOut(act, Normally, site)
<1>1. /\ Executes /\ Top.code = "ensure"
      /\ log' = Append(log, <<"ensure", l, context.bound>>)
      /\ \/ act.do = "end" /\ FinishReturn /\ suppressed' = suppressed
         \/ Leaves(act, site)
  BY DEF EnsureClause, Site
<1>2. Frames # <<>>
  BY <1>1, ExecutesIs DEF MeaningInv
<1>3. /\ Known(program) /\ FrameTells(Top) /\ FrameGood(Top) /\ Top \in FrameRecord
      /\ Top = Frames[Len(Frames)] /\ program \in Programs
  BY <1>2, TopKnown
<1>4. Moves
  BY MovingSteps DEF MovingStep, MeaningInv
<1>5. l \in Levels /\ Top.level = l
  BY <1>1, <1>3 DEF FrameGood
<1>6. act = FinallyIn(program, l)
  BY KnownIs
<1>7. ~ScopesEntangled => log' = Logged(program, log, "ensure", l)
  BY <1>1, <1>5, BoundAt DEF MeaningInv
<1>8. ASSUME ~ScopesEntangled, NEW k \in 0 .. l,
             Range(suppressed') =
               IF act.do = "raise" /\ pending.how = "raise"
               THEN Doubled(Range(suppressed), l, pending.what) ELSE Range(suppressed)
      PROVE  /\ u.code # "body" => Means(program, k, l + 1).way.how = "raise"
             /\ Tells(program, Construct(program, Means(program, k, l + 1), l),
                      WayOut(act, pending, site), lost, of, log', suppressed')
  <2>1. /\ u.code # "body" => Means(program, k, l + 1).way.how = "raise"
        /\ Tells(program, Construct(program, Means(program, k, l + 1), l),
                 WayOut(FinallyIn(program, l), pending, Site("finally", l)), lost, of,
                 Logged(program, log, "ensure", l), suppressed')
    BY <1>1, <1>6, <1>8, EnsureRuns
  <2> QED
    BY <1>6, <1>7, <1>8, <2>1
<1>9. CASE act.do = "end" /\ FinishReturn /\ suppressed' = suppressed
  <2>1. WayOut(act, pending, site) = pending /\ act.do # "raise"
    BY <1>9, WayOutEnds
  <2>2. Range(suppressed') =
           IF act.do = "raise" /\ pending.how = "raise"
           THEN Doubled(Range(suppressed), l, pending.what) ELSE Range(suppressed)
    BY <1>9, <2>1
  <2>3. ASSUME ~ScopesEntangled, NEW k \in 0 .. Top.of
        PROVE  /\ Tells(program, Construct(program, Means(program, k, Top.of + 1), Top.of),
                        Top.pending, Merged(Frames[Len(Frames) - 1], Top).lost,
                        ProcedureOf(Frames), log', suppressed')
               /\ Frames[Len(Frames) - 1].code = "rescue" =>
                    Means(program, k, Top.of + 1).way.how = "raise"
    BY <1>8, <2>1, <2>2, <2>3
  <2>4. Top.code # "body"
    BY <1>1
  <2> QED
    BY <1>1, <1>4, <1>9, <2>3, <2>4, ClauseFinishes
<1>10. CASE Leaves(act, site)
  <2>1. /\ out # Normally /\ out.how = act.do /\ (act.do = "raise" => out.what = site)
        /\ WayOut(act, pending, site) = out
        /\ act.do = "raise" /\ pending.how = "raise" =>
             suppressed' = Append(suppressed, <<site, pending.what>>)
        /\ act.do # "raise" \/ pending.how # "raise" => suppressed' = suppressed
    BY <1>10, LeavesIs
  <2>2. act.do = "raise" /\ pending.how = "raise" =>
          /\ Range(suppressed') = Doubled(Range(suppressed), l, pending.what)
          /\ Replaces(suppressed', site, pending.what)
    <3> SUFFICES ASSUME act.do = "raise", pending.how = "raise"
                 PROVE  /\ Range(suppressed') = Doubled(Range(suppressed), l, pending.what)
                        /\ Replaces(suppressed', site, pending.what)
      OBVIOUS
    <3>1. suppressed \in Seq(Exceptions \X Exceptions)
      BY DEF MeaningInv, Inv
    <3>2. pending.what \in Exceptions
      BY <1>3, ReasonsAre DEF FrameRecord
    <3>3. Site("finally", l) \in Exceptions
      BY <1>3, <1>5, SitesAre DEF Site
    <3>4. <<Site("finally", l), pending.what>> \in Exceptions \X Exceptions
      BY <3>2, <3>3
    <3> DEFINE D == Exceptions \X Exceptions
               what == pending.what
               e == <<site, what>>
    <3>5. suppressed' = Append(suppressed, e)
      BY <2>1
    <3>6. suppressed \in Seq(D) /\ e \in D /\ e = <<Site("finally", l), what>>
      BY <3>1, <3>4
    <3> HIDE DEF D, what, e, l
    <3>7. /\ Range(Append(suppressed, e)) = Doubled(Range(suppressed), l, what)
          /\ Replaces(Append(suppressed, e), Site("finally", l), what)
      BY <3>6, RangeOfAppend
    <3> QED
      BY <3>5, <3>7 DEF what
  <2>3. Range(suppressed') =
           IF act.do = "raise" /\ pending.how = "raise"
           THEN Doubled(Range(suppressed), l, pending.what) ELSE Range(suppressed)
    BY <2>1, <2>2
  <2>4. ASSUME ~ScopesEntangled, NEW k \in 0 .. l
        PROVE  /\ u.code # "body" => Means(program, k, l + 1).way.how = "raise"
               /\ Tells(program, Construct(program, Means(program, k, l + 1), l), out,
                        lost, of, log', suppressed')
    BY <1>8, <2>1, <2>3, <2>4
  <2>5. out.how = "raise" /\ pending.how = "raise" =>
          Replaces(suppressed', out.what, pending.what)
    BY <2>1, <2>2
  <2> HIDE DEF out, of, lost, u, act, site
  <2>6. ~ScopesEntangled => EnsureTells(program, Top, u, of, out, log', suppressed')
    BY <2>1, <2>4, <2>5 DEF EnsureTells, lost
  <2>7. ~ScopesEntangled => TopTells(program, Frames, out, log', suppressed')
    BY <1>1, <1>3, <2>6 DEF TopTells, of, u
  <2>8. Top.code # "body"
    BY <1>1
  <2> QED
    BY <1>1, <1>4, <1>10, <2>7, <2>8, ClauseLeaves DEF out
<1> QED
  BY <1>1, <1>9, <1>10

\* What the machine does while an exception or a throw is under way.
LEMMA UnwindsTells ==
  ASSUME MeaningInv, Unwinds
  PROVE  /\ Frames # <<>> /\ task = "running" /\ ~vms[Active].escaped /\ ~vms[Active].left
         /\ Going \in Reasons /\ Going # Normally /\ Going.how # "fault"
         /\ Going.how = "raise" \/ Going.how = "throw"
         /\ Going = vms[Active].way
         /\ ~ScopesEntangled => TopTells(program, Frames, Going, log, suppressed)
<1>1. /\ task = "running" /\ Frames # <<>> /\ Going \in Reasons
      /\ Going.how \in {"raise", "throw"} /\ Going # Normally
      /\ ~vms[Active].escaped /\ ~vms[Active].left
  BY UnwindsIs DEF MeaningInv
<1>2. ~ScopesEntangled =>
        VmTells(program, vms[Active], Calls(vms, Active), log, suppressed)
  BY <1>1 DEF MeaningInv, ToldInv
<1>3. Frames = vms[Active].frames /\ Going = vms[Active].way
  BY DEF Frames, Going
<1>4. ~ScopesEntangled => TopTells(program, Frames, Going, log, suppressed)
  BY <1>1, <1>2, <1>3 DEF VmTells
<1> QED
  BY <1>1, <1>3, <1>4

Unhandled(f, how) == Handlers(f, how) = {}

\* A body without a handler is left for good.
LEMMA NoHandlerPasses ==
  ASSUME NEW f, f.code = "body", NEW how, how = "raise" \/ how = "throw",
         Unhandled(f, how),
         NEW l \in (f.of + 1) .. (f.level - 1)
  PROVE  Passing(how, Kind(l))
<1>1. l \in Enclosing(f)
  BY DEF Enclosing
<1>2. ~Accepts(f, l, how)
  BY <1>1 DEF Unhandled, Handlers
<1> QED
  BY <1>2 DEF Accepts, Passing, Ensured, Rescued

LEMMA BodyPops ==
  ASSUME program \in Programs, NEW fs \in Seq(FrameRecord), FramesGood(fs), FramesTell(fs),
         fs # <<>>, Front(fs) # <<>>, Last(fs).code = "body",
         NEW way, way.how = "raise" \/ way.how = "throw", way # Normally,
         Unhandled(Last(fs), way.how), NEW lg, NEW sp,
         BodyTells(program, Last(fs), way, lg, sp)
  PROVE  TopTells(program, Front(fs), way, lg, sp)
<1> DEFINE f == Last(fs)
           rest == Front(fs)
           u == Last(rest)
           l == f.of
<1>1. /\ f \in FrameRecord /\ FrameGood(f) /\ FrameTells(f) /\ f = fs[Len(fs)]
      /\ Len(fs) \in Nat
  <2>1. f \in FrameRecord /\ f = fs[Len(fs)] /\ Len(fs) \in DOMAIN fs /\ Len(fs) \in Nat
    BY LastIs, SeqDomain
  <2>2. FrameTells(f)
    BY LastTells
  <2>3. FrameGood(fs[Len(fs)])
    BY <2>1 DEF FramesGood
  <2> QED
    BY <2>1, <2>2, <2>3
<1>2. rest \in Seq(FrameRecord) /\ Len(rest) = Len(fs) - 1 /\ FramesTell(rest)
      /\ \A i \in 1 .. (Len(fs) - 1) : rest[i] = fs[i]
  BY TellFront, LastIs
<1>3. u = rest[Len(rest)] /\ u \in FrameRecord /\ FrameTells(u) /\ Len(rest) \in Nat \ {0}
  <2> HIDE DEF rest
  <2> QED
    BY <1>2, LastIs, LastTells
<1>4. u = fs[Len(fs) - 1] /\ Len(fs) - 1 \in 1 .. (Len(fs) - 1)
  <2> HIDE DEF rest
  <2> QED
    BY <1>1, <1>2, <1>3
<1>5. Carries(u, f)
  <2> HIDE DEF u, f
  <2>1. Carries(fs[Len(fs) - 1], fs[Len(fs) - 1 + 1])
    BY <1>4 DEF FramesGood
  <2>2. Len(fs) - 1 + 1 = Len(fs)
    BY <1>1
  <2> QED
    BY <1>1, <1>4, <2>1, <2>2
<1> HIDE DEF rest, u
<1>6. u.code = "body" /\ u.step = "down" /\ u.level = l
  BY <1>5 DEF Carries
<1>7. Known(program) /\ Depth \in Nat /\ DepthOf(program) = Depth
      /\ \A i : KindIn(program, i) = Kind(i)
  BY ProgramKnown, ProgramFacts, KnownIs
<1>8. u.level \in 1 .. (Depth + 1) /\ f.level \in 1 .. (Depth + 1) /\ f.of \in 0 .. Depth
  BY <1>1, <1>3 DEF FrameRecord
<1>9. l \in 1 .. Depth /\ l < f.level /\ Kind(l) \in Procedures
  BY <1>1, <1>6, <1>7, <1>8 DEF FrameGood, FrameTells
<1>10. u.lost = NoTags
  BY <1>3, <1>6 DEF FrameTells
<1>11. \A i \in (l + 1) .. (f.level - 1) : Passing(way.how, KindIn(program, i))
  BY <1>7, NoHandlerPasses
<1>12. \A k \in 0 .. (f.level - 1) :
         Tells(program, Means(program, k, f.level), way, f.lost, l, lg, sp)
  BY DEF BodyTells
<1>13. ASSUME NEW k \in 0 .. (l - 1)
       PROVE  Tells(program, Means(program, k, l), way, NoTags, u.of, lg, sp)
  <2> DEFINE high == f.level
             low == l + 1
             lost == f.lost
  <2>1. k \in 0 .. (high - 1)
    BY <1>8, <1>9
  <2>2. Tells(program, Means(program, k, high), way, lost, l, lg, sp)
    BY <1>12, <2>1
  <2>3. high \in 1 .. (DepthOf(program) + 1) /\ low \in 1 .. high
    BY <1>7, <1>8, <1>9
  <2>4. \A i \in low .. (high - 1) : Passing(way.how, KindIn(program, i))
    BY <1>11
  <2> HIDE DEF high, lost, low, l
  <2>5. Ends(program, Means(program, k, high), way, lg, sp)
    BY <1>7, <2>2, TellsEnds
  <2>6. Ends(program, Means(program, k, low), way, lg, sp)
    BY <1>7, <2>3, <2>4, <2>5, PassesToEnd
  <2>7. way.how \in {"raise", "throw", "fault"} /\ KindIn(program, l) \in Procedures
    BY <1>7, <1>9
  <2> QED
    BY <1>7, <1>9, <2>6, <2>7, PassesCall DEF low
<1> HIDE DEF l, f
<1>14. BodyTells(program, u, way, lg, sp)
  BY <1>6, <1>10, <1>13 DEF BodyTells
<1>15. rest[Len(rest)] = u
  BY <1>3
<1> QED
  BY <1>6, <1>14, <1>15 DEF TopTells, rest

LEMMA TellsRange ==
  ASSUME NEW p, NEW r, NEW way, NEW lost, NEW of, NEW lg, NEW sp, NEW sq,
         Range(sq) = Range(sp), Tells(p, r, way, lost, of, lg, sp)
  PROVE  Tells(p, r, way, lost, of, lg, sq)
BY DEF Tells

\* A clause without a handler has left its construct.
LEMMA ClauseTold ==
  ASSUME program \in Programs, NEW fs \in Seq(FrameRecord), FramesGood(fs), FramesTell(fs),
         fs # <<>>, Last(fs).code # "body",
         NEW way, way.how = "raise" \/ way.how = "throw", way # Normally,
         Unhandled(Last(fs), way.how), NEW lg, NEW sp,
         TopTells(program, fs, way, lg, sp), NEW k \in 0 .. Last(fs).of
  PROVE  /\ fs[Len(fs) - 1].code = "rescue" =>
              Means(program, k, Last(fs).of + 1).way.how = "raise"
         /\ Tells(program, Construct(program, Means(program, k, Last(fs).of + 1), Last(fs).of),
                  way, Merged(fs[Len(fs) - 1], Last(fs)).lost, ProcedureOf(fs), lg, sp)
<1> DEFINE f == Last(fs)
           u == fs[Len(fs) - 1]
           l == f.of
           of == ProcedureOf(fs)
           lost == Merged(u, f).lost
<1>1. /\ f \in FrameRecord /\ FrameTells(f) /\ f = fs[Len(fs)]
  BY LastIs, LastTells
<1>2. /\ u \in FrameRecord /\ l \in Levels
      /\ u.code = "body" \/ u.code = "rescue"
      /\ f.code = "rescue" => u.code = "body"
  BY ClauseLies
<1> HIDE DEF u
<1>3. /\ Known(program) /\ DepthOf(program) = Depth /\ Depth \in Nat
      /\ KindIn(program, l) = Kind(l)
  BY ProgramKnown, ProgramFacts, KnownIs
<1>4. l \in 1 .. DepthOf(program)
  BY <1>2, <1>3 DEF Levels
<1>5. f.code = "rescue" \/ f.code = "ensure"
  BY <1>1 DEF FrameRecord, Codes
<1>6. /\ u.code = "rescue" => Means(program, k, l + 1).way.how = "raise"
      /\ Tells(program, Construct(program, Means(program, k, l + 1), l), way, lost,
               of, lg, sp)
  <2>1. CASE f.code = "rescue"
    <3>1. u.code = "body"
      BY <1>2, <2>1
    <3>2. of = u.of
      BY <3>1 DEF ProcedureOf, u
    <3>3. RescueTells(program, f, u.of, way, lg, sp)
      BY <1>1, <2>1 DEF TopTells, u
    <3>4. \A j : j \in lost <=> j \in f.lost
      <4>1. f.kept = NoTags
        BY <1>1, <2>1 DEF FrameTells
      <4> QED
        BY <1>2, <4>1, MergedIs DEF LostAfter, NoTags
    <3> HIDE DEF lost, of
    <3>5. Tells(program, Construct(program, Means(program, k, l + 1), l), way, f.lost,
                u.of, lg, sp)
      <4>1. CASE f.step # "down"
        BY <3>3, <4>1 DEF RescueTells
      <4>2. CASE f.step = "down"
        <5>1. l \in Enclosing(f)
          BY <2>1, <4>2 DEF Enclosing
        <5>2. ~Accepts(f, l, way.how)
          BY <5>1 DEF Unhandled, Handlers
        <5>3. Kind(l) # "both" /\ Kind(l) \in Rescued
          BY <1>1, <2>1, <5>2 DEF Accepts, FrameTells
        <5>4. KindIn(program, l) = "rescue"
          BY <1>3, <5>3 DEF Rescued
        <5>5. l + 1 \in 1 .. (DepthOf(program) + 1)
          BY <1>3, <1>4
        <5> DEFINE r == Means(program, k, l + 1)
        <5>6. Tells(program, RescueMeans(program, r, l), way, f.lost, u.of, lg, sp)
          BY <3>3, <4>2 DEF RescueTells
        <5>7. Shape(r)
          BY <1>3, <5>5, MeansShape
        <5> HIDE DEF r, l, f
        <5>8. Construct(program, r, l) = RescueMeans(program, r, l)
          BY <1>3, <1>4, <5>4, <5>7, ConstructIs
        <5> QED
          BY <5>6, <5>8 DEF r
      <4> QED
        BY <4>1, <4>2
    <3> HIDE DEF f, l
    <3>6. Tells(program, Construct(program, Means(program, k, l + 1), l), way, lost,
                u.of, lg, sp)
      BY <3>4, <3>5, TellsLost
    <3> QED
      BY <3>1, <3>2, <3>6
  <2>2. CASE f.code = "ensure"
    <3>1. EnsureTells(program, f, u, of, way, lg, sp)
      BY <1>1, <2>2 DEF TopTells, u
    <3>2. u.code = "rescue" => u.code # "body"
      OBVIOUS
    <3> HIDE DEF of
    <3> QED
      BY <3>1, <3>2 DEF EnsureTells
  <2> QED
    BY <1>5, <2>1, <2>2
<1> HIDE DEF f, l, of, lost
<1> QED
  BY <1>6 DEF f, l, of, lost, u

LEMMA ClausePops ==
  ASSUME program \in Programs, NEW fs \in Seq(FrameRecord), FramesGood(fs), FramesTell(fs),
         fs # <<>>, Last(fs).code # "body",
         NEW way, way.how = "raise" \/ way.how = "throw", way # Normally,
         Unhandled(Last(fs), way.how), NEW lg, NEW sp, NEW sq, Range(sq) = Range(sp),
         TopTells(program, fs, way, lg, sp)
  PROVE  TopTells(program, Below(fs), way, lg, sq)
<1> DEFINE f == Last(fs)
           u == fs[Len(fs) - 1]
           l == f.of
           of == ProcedureOf(fs)
           lost == Merged(u, f).lost
<1>1. ASSUME NEW k \in 0 .. l
      PROVE  /\ u.code = "rescue" => Means(program, k, l + 1).way.how = "raise"
             /\ Tells(program, Construct(program, Means(program, k, l + 1), l), way, lost,
                      of, lg, sp)
  BY <1>1, ClauseTold
<1>2. ASSUME NEW k \in 0 .. l
      PROVE  Tells(program, Construct(program, Means(program, k, l + 1), l), way, lost,
                   of, lg, sq)
  <2> HIDE DEF l, lost, of
  <2> QED
    BY <1>1, <1>2, TellsRange
<1> HIDE DEF u
<1>3. \A k \in 0 .. Last(fs).of :
        Tells(program, Construct(program, Means(program, k, Last(fs).of + 1), Last(fs).of),
              way, Merged(fs[Len(fs) - 1], Last(fs)).lost, ProcedureOf(fs), lg, sq)
  BY <1>2 DEF u
<1>4. fs[Len(fs) - 1].code = "rescue" =>
        /\ way # Normally
        /\ \A k \in 0 .. Last(fs).of :
             Means(program, k, Last(fs).of + 1).way.how = "raise"
  BY <1>1 DEF u
<1> HIDE DEF f, l, of, lost
<1> QED
  BY <1>3, <1>4, UnderTells

LEMMA AppendsKnown ==
  ASSUME NEW D, NEW s \in Seq(D), NEW e \in Range(s)
  PROVE  Range(Append(s, e)) = Range(s)
<1>1. DOMAIN s = 1 .. Len(s) /\ Len(s) \in Nat /\ \A i \in DOMAIN s : s[i] \in D
  BY SeqDomain
<1>2. e \in D
  BY <1>1 DEF Range
<1> DEFINE t == Append(s, e)
<1>3. /\ DOMAIN t = 1 .. (Len(s) + 1) /\ t[Len(s) + 1] = e
      /\ \A i \in 1 .. Len(s) : t[i] = s[i]
  BY <1>1, <1>2
<1> HIDE DEF t
<1>4. ASSUME NEW x PROVE x \in Range(t) <=> x \in Range(s)
  <2>1. \A i \in 1 .. (Len(s) + 1) : i \in 1 .. Len(s) \/ i = Len(s) + 1
    BY <1>1
  <2>2. 1 .. Len(s) \subseteq 1 .. (Len(s) + 1)
    BY <1>1
  <2> QED
    BY <1>1, <1>3, <2>1, <2>2 DEF Range
<1> QED
  BY <1>4 DEF t

LEMMA PopFrameTells == MeaningInv /\ PopFrame => CodeInv' /\ ToldInv'
<1> SUFFICES ASSUME MeaningInv, PopFrame PROVE CodeInv' /\ ToldInv'
  OBVIOUS
<1> DEFINE way == Going
           rest == Below(Frames)
           v == [vms[Active] EXCEPT !.frames = rest]
<1>1. /\ Unwinds /\ HasHandler(way.how) /\ Handlers(Top, way.how) = {}
      /\ SetVm(v) /\ log' = log
      /\ way.how = "raise" /\ Top.pending.how = "raise" =>
           suppressed' = Append(suppressed, <<way.what, Top.pending.what>>)
      /\ way.how # "raise" \/ Top.pending.how # "raise" => suppressed' = suppressed
  BY DEF PopFrame, SetFrames
<1>2. Moves
  BY MovingSteps DEF MovingStep, MeaningInv
<1>3. /\ Frames # <<>> /\ way # Normally /\ (way.how = "raise" \/ way.how = "throw")
      /\ ~vms[Active].escaped /\ way.how # "fault" /\ way = vms[Active].way
      /\ ~ScopesEntangled => TopTells(program, Frames, way, log, suppressed)
  BY <1>1, UnwindsTells
<1>4. /\ program \in Programs /\ FramesTell(Frames) /\ FrameTells(Top) /\ FrameGood(Top)
      /\ Frames \in Seq(FrameRecord) /\ FramesGood(Frames) /\ vms[Active] \in VmRecord
      /\ Top = Last(Frames) /\ Top = Frames[Len(Frames)] /\ Top \in FrameRecord
  BY <1>3, TopKnown
<1>5. Len(Frames) > 1 /\ Len(Frames) \in Nat
  <2>1. PICK i \in DOMAIN Frames : Handlers(Frames[i], way.how) # {}
    BY <1>1 DEF HasHandler
  <2>2. i # Len(Frames)
    BY <1>1, <1>4, <2>1
  <2> QED
    BY <1>4, <2>1, <2>2, SeqDomain
<1>6. rest \in Seq(FrameRecord) /\ Len(rest) = Len(Frames) - 1 /\ FramesTell(rest)
  BY <1>3, <1>4, BelowFrames, TellBelow
<1>7. rest # <<>>
  <2> HIDE DEF rest
  <2> QED
    BY <1>5, <1>6, EmptySeq, LenProperties
<1> HIDE DEF rest, way
<1>8. v.frames = rest /\ v.way = way /\ ~v.escaped
  BY <1>3, <1>4 DEF VmRecord
<1>9. Top.code = "body" /\ ~ScopesEntangled => TopTells(program, rest, way, log', suppressed')
  <2> SUFFICES ASSUME Top.code = "body", ~ScopesEntangled
               PROVE  TopTells(program, rest, way, log', suppressed')
    OBVIOUS
  <2>1. suppressed' = suppressed /\ log' = log
    BY <1>1, <1>4 DEF FrameGood
  <2>2. Front(Frames) # <<>>
    BY <1>3, <1>4, <1>5, LastIs, SeqDomain
  <2>3. rest = Front(Frames)
    BY <1>4 DEF Below, rest
  <2>4. BodyTells(program, Last(Frames), way, log, suppressed)
    BY <1>3, <1>4 DEF TopTells
  <2>5. Unhandled(Last(Frames), way.how) /\ Last(Frames).code = "body"
    BY <1>1, <1>4 DEF Unhandled
  <2>6. TopTells(program, Front(Frames), way, log, suppressed)
    BY <1>3, <1>4, <2>2, <2>4, <2>5, BodyPops
  <2> QED
    BY <2>1, <2>3, <2>6
<1>10. Top.code # "body" /\ ~ScopesEntangled => TopTells(program, rest, way, log', suppressed')
  <2> SUFFICES ASSUME Top.code # "body", ~ScopesEntangled
               PROVE  TopTells(program, rest, way, log', suppressed')
    OBVIOUS
  <2>1. Range(suppressed') = Range(suppressed)
    <3>1. CASE way.how = "raise" /\ Top.pending.how = "raise"
      <4> DEFINE D == Exceptions \X Exceptions
                 e == <<way.what, Top.pending.what>>
      <4>1. Top.code = "ensure"
        BY <1>4, <3>1 DEF FrameGood
      <4>2. Replaces(suppressed, way.what, Top.pending.what) \/ Top.of \notin Nat
        <5>1. EnsureTells(program, Top, Frames[Len(Frames) - 1], ProcedureOf(Frames), way,
                          log, suppressed)
          BY <1>3, <1>4, <4>1 DEF TopTells
        <5>2. Top.of \in Nat => 0 \in 0 .. Top.of
          OBVIOUS
        <5> QED
          BY <1>3, <3>1, <5>1, <5>2 DEF EnsureTells
      <4>3. Top.of \in Nat
        BY <1>3, TopKnown
      <4>4. e \in Range(suppressed) /\ suppressed \in Seq(D) /\ suppressed' = Append(suppressed, e)
        BY <1>1, <3>1, <4>2, <4>3 DEF Replaces, MeaningInv, Inv
      <4> HIDE DEF e, D
      <4> QED
        BY <4>4, AppendsKnown
    <3>2. CASE ~(way.how = "raise" /\ Top.pending.how = "raise")
      BY <1>1, <3>2
    <3> QED
      BY <3>1, <3>2
  <2>2. Unhandled(Last(Frames), way.how) /\ Last(Frames).code # "body"
    BY <1>1, <1>4 DEF Unhandled
  <2>3. TopTells(program, Below(Frames), way, log, suppressed')
    BY <1>3, <1>4, <2>1, <2>2, ClausePops
  <2> QED
    BY <1>1, <2>3 DEF rest
<1> HIDE DEF v
<1> QED
  BY <1>1, <1>2, <1>3, <1>6, <1>7, <1>8, <1>9, <1>10, MovesTell

\* The handler that is next, and the frame that has left its construct.
Handler == Max(Handlers(Top, Going.how))
Past == Goto(Top, "after", Handler)

LEMMA HandlerIs ==
  ASSUME MeaningInv, EnterHandler
  PROVE  /\ Handler \in Levels /\ Handler \in 1 .. DepthOf(program) /\ Handler \in Nat
         /\ Handler \in Enclosing(Top) /\ Accepts(Top, Handler, Going.how)
         /\ Top.code = "body" \/ Top.code = "rescue"
         /\ Top.code = "body" =>
              /\ Top.of < Handler /\ Handler < Top.level
              /\ \A i \in (Handler + 1) .. (Top.level - 1) : Passing(Going.how, Kind(i))
         /\ Top.code = "rescue" =>
              /\ Handler = Top.of /\ Kind(Handler) = "both" /\ Top.step = "down"
<1> DEFINE how == Going.how
           hs == Handlers(Top, how)
<1>1. Unwinds /\ hs # {}
  BY DEF EnterHandler
<1>2. Frames # <<>> /\ (how = "raise" \/ how = "throw")
  BY <1>1, UnwindsTells
<1>3. /\ Top \in FrameRecord /\ FrameGood(Top) /\ Depth \in Nat /\ program \in Programs
      /\ Top.of \in Nat /\ Top.level \in Nat /\ DepthOf(program) = Depth
  BY <1>2, TopKnown, KnownIs
<1>4. Handler \in hs /\ \A i \in hs : i <= Handler
  <2>1. hs \subseteq 0 .. Depth
    BY <1>3, EnclosingIs DEF Handlers
  <2>2. Handler = Max(hs)
    BY DEF Handler
  <2> HIDE DEF hs
  <2> QED
    BY <1>1, <1>3, <2>1, <2>2, GreatestNatural
<1>5. Handler \in Enclosing(Top) /\ Accepts(Top, Handler, how)
  BY <1>4 DEF Handlers
<1>6. /\ Handler \in Levels /\ Handler \in Nat /\ Handler \in 1 .. DepthOf(program)
      /\ Top.code # "ensure"
      /\ Top.code = "body" => Top.of < Handler /\ Handler < Top.level
      /\ Top.code # "body" => Handler = Top.of
  BY <1>3, <1>5, EnclosingIs DEF Levels
<1>7. Top.code = "body" \/ Top.code = "rescue"
  BY <1>3, <1>6 DEF FrameRecord, Codes
<1>8. ASSUME Top.code = "body", NEW i \in (Handler + 1) .. (Top.level - 1)
      PROVE  Passing(how, Kind(i))
  <2>1. i \in Enclosing(Top)
    BY <1>3, <1>6, <1>8 DEF Enclosing
  <2>2. i \notin hs
    BY <1>4, <1>6, <1>8
  <2>3. ~Accepts(Top, i, how)
    BY <2>1, <2>2 DEF Handlers
  <2> HIDE DEF how
  <2> QED
    BY <1>2, <1>8, <2>3 DEF Accepts, Passing, Ensured, Rescued
<1>9. Top.code = "rescue" => Top.step = "down" /\ Kind(Handler) = "both"
  <2>1. Top.code = "rescue" /\ Top.step # "down" => Enclosing(Top) = {}
    BY DEF Enclosing
  <2>2. Top.code = "rescue" => Kind(Handler) = "both"
    BY <1>5 DEF Accepts
  <2> QED
    BY <1>5, <2>1, <2>2
<1> QED
  BY <1>5, <1>6, <1>7, <1>8, <1>9

\* What the code that is left means at its handler.
LEMMA HandlerTold ==
  ASSUME MeaningInv, EnterHandler, ~ScopesEntangled, NEW k \in 0 .. Handler
  PROVE  /\ Top.code = "body" =>
              Tells(program, Means(program, k, Handler + 1), Going, Top.lost, Top.of,
                    log, suppressed)
         /\ Top.code = "rescue" =>
              /\ Means(program, k, Handler + 1).way.how = "raise"
              /\ Tells(program, RescueMeans(program, Means(program, k, Handler + 1), Handler),
                       Going, Top.lost, Frames[Len(Frames) - 1].of, log, suppressed)
<1>1. Unwinds
  BY DEF EnterHandler
<1>2. Frames # <<>> /\ Going # Normally /\ TopTells(program, Frames, Going, log, suppressed)
  BY <1>1, UnwindsTells
<1>3. /\ Top = Frames[Len(Frames)] /\ Known(program) /\ FrameTells(Top)
      /\ Top.of \in Nat /\ Top.level \in 1 .. (Depth + 1) /\ Top.level \in Nat
      /\ Depth \in Nat /\ DepthOf(program) = Depth /\ \A i : KindIn(program, i) = Kind(i)
  BY <1>2, TopKnown, KnownIs
<1>4. CASE Top.code = "body"
  <2> DEFINE high == Top.level
             low == Handler + 1
             lost == Top.lost
             of == Top.of
             way == Going
  <2>1. /\ of < Handler /\ Handler < high /\ Handler \in Nat
        /\ \A i \in low .. (high - 1) : Passing(way.how, Kind(i))
    BY <1>4, HandlerIs
  <2>2. BodyTells(program, Top, way, log, suppressed)
    BY <1>2, <1>3, <1>4 DEF TopTells
  <2>3. k \in 0 .. (high - 1)
    BY <1>3, <2>1
  <2>4. Tells(program, Means(program, k, high), way, lost, of, log, suppressed)
    BY <1>2, <2>2, <2>3 DEF BodyTells
  <2>5. high \in 1 .. (DepthOf(program) + 1) /\ low \in 1 .. high
    BY <1>3, <2>1
  <2>6. \A i \in low .. (high - 1) :
          /\ Passing(way.how, KindIn(program, i))
          /\ of = DepthOf(program) \/ KindIn(program, i) \notin Procedures
    <3>1. \A i \in low .. (high - 1) : i \in (of + 1) .. (high - 1)
      BY <1>3, <2>1
    <3>2. \A i \in (of + 1) .. (high - 1) : Kind(i) \notin Procedures
      BY <1>3, <1>4 DEF FrameTells
    <3> QED
      BY <1>3, <2>1, <3>1, <3>2
  <2> HIDE DEF high, low, lost, of, way
  <2>7. Tells(program, Means(program, k, low), way, lost, of, log, suppressed)
    BY <1>3, <2>4, <2>5, <2>6, PassesDown
  <2> QED
    BY <1>4, <2>7 DEF low, lost, of, way
<1>5. CASE Top.code = "rescue"
  <2>1. Handler = Top.of /\ Top.step = "down"
    BY <1>5, HandlerIs
  <2>2. RescueTells(program, Top, Frames[Len(Frames) - 1].of, Going, log, suppressed)
    BY <1>2, <1>3, <1>5 DEF TopTells
  <2> QED
    BY <1>2, <1>5, <2>1, <2>2 DEF RescueTells
<1> QED
  BY <1>4, <1>5

LEMMA PastIs ==
  ASSUME MeaningInv, EnterHandler
  PROVE  /\ Past \in FrameRecord /\ FrameTells(Past)
         /\ Past.code = Top.code /\ Past.of = Top.of /\ Past.step = "after"
         /\ Past.level = Handler /\ Past.lost = Top.lost
         /\ Replaced(Past) \in Seq(FrameRecord) /\ Replaced(Past) # <<>>
         /\ FramesTell(Replaced(Past)) /\ Last(Replaced(Past)) = Past
         /\ Len(Replaced(Past)) = Len(Frames) /\ Replaced(Past)[Len(Frames)] = Past
         /\ \A i \in 1 .. (Len(Frames) - 1) : Replaced(Past)[i] = Frames[i]
<1>1. Frames # <<>>
  BY UnwindsTells DEF EnterHandler
<1>2. /\ Top \in FrameRecord /\ FrameTells(Top) /\ Top = Last(Frames) /\ FramesTell(Frames)
      /\ Frames \in Seq(FrameRecord) /\ Depth \in Nat
      /\ Top.of \in Nat /\ Top.level \in Nat
  BY <1>1, TopKnown
<1>3. /\ Handler \in Levels /\ Handler \in Nat
      /\ Top.code = "body" \/ Top.code = "rescue"
      /\ Top.code = "body" => Top.of < Handler /\ Handler < Top.level
      /\ Top.code = "rescue" => Handler = Top.of /\ Kind(Handler) = "both"
  BY HandlerIs
<1>4. /\ Past.code = Top.code /\ Past.of = Top.of /\ Past.step = "after"
      /\ Past.level = Handler /\ Past.lost = Top.lost /\ Past.kept = Top.kept
      /\ Past.scope = Top.scope
  BY <1>2, GotoIs DEF Past
<1>5. Past \in FrameRecord
  <2>1. Handler \in 1 .. (Depth + 1)
    BY <1>2, <1>3 DEF Levels
  <2> QED
    BY <1>2, <2>1 DEF Past, Goto, FrameRecord
<1>6. FrameTells(Past)
  <2>1. CASE Top.code = "body"
    <3>1. \A i \in (Top.of + 1) .. (Handler - 1) : i \in (Top.of + 1) .. (Top.level - 1)
      BY <1>2, <1>3, <2>1
    <3> QED
      BY <1>2, <1>4, <2>1, <3>1 DEF FrameTells
  <2>2. CASE Top.code = "rescue"
    BY <1>2, <1>3, <1>4, <2>2 DEF FrameTells
  <2> QED
    BY <1>3, <2>1, <2>2
<1> DEFINE f == Past
           gs == Append(Front(Frames), f)
<1>7. gs = Replaced(Past)
  BY DEF Replaced
<1>8. f \in FrameRecord /\ FrameTells(f) /\ f.code = Last(Frames).code /\ f.of = Last(Frames).of
  BY <1>2, <1>4, <1>5, <1>6
<1> HIDE DEF f
<1>9. FramesTell(gs)
  BY <1>1, <1>2, <1>8, TellReplace
<1>10. /\ gs \in Seq(FrameRecord) /\ Len(gs) = Len(Frames) /\ gs # <<>>
       /\ \A i \in 1 .. (Len(Frames) - 1) : gs[i] = Frames[i]
       /\ gs[Len(Frames)] = f /\ Last(gs) = f
  BY <1>1, <1>2, <1>8, ReplacedIs
<1> HIDE DEF gs
<1> QED
  BY <1>4, <1>5, <1>6, <1>7, <1>9, <1>10 DEF f

Caught == Going.what = <<Handler>> /\ Handler \notin Top.lost
ClauseCode == IF Top.code = "body" /\ Kind(Handler) \in Rescued THEN "rescue" ELSE "ensure"
ClauseThen == Clause(ClauseCode, Handler, Going)

LEMMA HandlerMoves ==
  ASSUME MeaningInv, EnterHandler
  PROVE  /\ Moves /\ log' = log /\ suppressed' = suppressed
         /\ Kind(Handler) = "catch" =>
              SetVm([vms[Active] EXCEPT !.frames = Replaced(Past),
                                        !.way = IF Caught THEN Normally ELSE Going])
         /\ Kind(Handler) # "catch" =>
              SetVm([vms[Active] EXCEPT !.frames = Append(Replaced(Past), ClauseThen),
                                        !.way = Normally])
<1>1. Moves
  BY MovingSteps DEF MovingStep, MeaningInv
<1>2. UNCHANGED <<log, suppressed>>
  BY DEF EnterHandler
<1>3. SetVm([vms[Active] EXCEPT
               !.frames = IF Kind(Handler) = "catch" THEN Replaced(Past)
                          ELSE Append(Replaced(Past), ClauseThen),
               !.way = IF Kind(Handler) = "catch" /\ ~(Kind(Handler) = "catch" /\ Caught)
                       THEN Going ELSE Normally])
  BY DEF EnterHandler, Handler, Past, ClauseThen, ClauseCode, Caught
<1>4. CASE Kind(Handler) = "catch"
  BY <1>1, <1>2, <1>3, <1>4
<1>5. CASE Kind(Handler) # "catch"
  BY <1>1, <1>2, <1>3, <1>5
<1> QED
  BY <1>4, <1>5

\* A throw is what its tag says.
LEMMA ThrownIs ==
  ASSUME NEW way \in Reasons, way.how = "throw", NEW l
  PROVE  way = Thrown(l) <=> way.what = <<l>>
<1>1. PICK tag \in Nat : way = Way("throw", <<tag>>)
  BY DEF Reasons, Way, Normally
<1> QED
  BY <1>1 DEF Thrown, Way

LEMMA CatchTells ==
  ASSUME MeaningInv, EnterHandler, Kind(Handler) = "catch"
  PROVE  CodeInv' /\ ToldInv'
<1> DEFINE l == Handler
           f == Past
           gs == Replaced(Past)
           way == IF Caught THEN Normally ELSE Going
           v == [vms[Active] EXCEPT !.frames = gs, !.way = way]
<1>1. Moves /\ log' = log /\ suppressed' = suppressed /\ SetVm(v)
  BY HandlerMoves
<1>2. /\ l \in Levels /\ l \in 1 .. DepthOf(program) /\ l \in Nat
      /\ Top.code = "body" /\ Top.of < l /\ Going.how = "throw"
  <2>1. Unwinds
    BY DEF EnterHandler
  <2>2. Accepts(Top, l, Going.how)
    BY HandlerIs
  <2>3. Going.how = "throw"
    BY <2>1, <2>2, UnwindsTells DEF Accepts, Ensured, Rescued
  <2>4. Top.code # "rescue"
    BY HandlerIs
  <2> QED
    BY <2>3, <2>4, HandlerIs
<1>3. /\ Frames # <<>> /\ Going \in Reasons /\ Going # Normally /\ Going.how # "fault"
      /\ ~vms[Active].escaped
  BY UnwindsTells DEF EnterHandler
<1>4. /\ f.code = "body" /\ f.of = Top.of /\ f.step = "after" /\ f.level = l
      /\ f.lost = Top.lost
      /\ FramesTell(gs) /\ gs # <<>> /\ gs[Len(gs)] = f
  BY <1>2, PastIs
<1>5. vms[Active] \in VmRecord /\ Known(program) /\ KindIn(program, l) = "catch"
  BY <1>3, TopKnown, KnownIs
<1>6. Caught <=> Going = Thrown(l) /\ l \notin Top.lost
  BY <1>2, <1>3, ThrownIs DEF Caught
<1>7. ASSUME ~ScopesEntangled, NEW k \in 0 .. l
      PROVE  Tells(program, Construct(program, Means(program, k, l + 1), l), way, f.lost,
                   f.of, log', suppressed')
  <2> DEFINE old == Going
             lost == Top.lost
             of == Top.of
  <2>1. Tells(program, Means(program, k, l + 1), old, lost, of, log, suppressed)
    BY <1>2, <1>7, HandlerTold
  <2>2. KindIn(program, l) = "catch" /\ l > of
    BY <1>2, <1>5, TopKnown, <1>3
  <2>3. way = IF old = Thrown(l) /\ l \notin lost THEN Normally ELSE old
    BY <1>6
  <2> HIDE DEF old, lost, of, l, way
  <2>4. Tells(program, Construct(program, Means(program, k, l + 1), l),
              IF old = Thrown(l) /\ l \notin lost THEN Normally ELSE old,
              lost, of, log, suppressed)
    BY <1>2, <1>5, <2>1, <2>2, CatchTold
  <2> QED
    BY <1>1, <1>4, <2>3, <2>4 DEF lost, of
<1>8. v.frames = gs /\ v.way = way /\ ~v.escaped
  BY <1>3, <1>5 DEF VmRecord
<1>9. way.how # "fault"
  BY <1>3, NormallyIs
<1> HIDE DEF way, f, gs, v, l
<1>10. ASSUME ~ScopesEntangled, way # Normally, NEW k \in 0 .. (l - 1)
       PROVE  Tells(program, Means(program, k, l), way, f.lost, f.of, log', suppressed')
  <2>1. k \in 0 .. l
    BY <1>2
  <2>2. Tells(program, Construct(program, Means(program, k, l + 1), l), way, f.lost,
              f.of, log', suppressed')
    BY <1>7, <1>10, <2>1
  <2> QED
    BY <1>2, <1>5, <1>10, <2>2, LeftTells
<1>11. ~ScopesEntangled => BodyTells(program, f, way, log', suppressed')
  BY <1>4, <1>7, <1>10 DEF BodyTells
<1>12. ~ScopesEntangled => TopTells(program, gs, way, log', suppressed')
  BY <1>4, <1>11 DEF TopTells
<1> QED
  BY <1>1, <1>4, <1>8, <1>9, <1>12, MovesTell

\* The frame of a clause that is about to run.
LEMMA ClauseThenIs ==
  ASSUME MeaningInv, EnterHandler, Kind(Handler) # "catch"
  PROVE  /\ ClauseThen \in FrameRecord
         /\ ClauseThen.code = ClauseCode /\ ClauseThen.of = Handler
         /\ ClauseThen.step = "down" /\ ClauseThen.level = Handler
         /\ ClauseCode = "rescue" \/ ClauseCode = "ensure"
         /\ ClauseCode = "rescue" =>
              /\ Top.code = "body" /\ Kind(Handler) \in Rescued /\ Going.how = "raise"
              /\ ClauseThen.exception = Going.what
         /\ ClauseCode = "ensure" =>
              /\ ClauseThen.pending = Going
              /\ Top.code = "body" => Kind(Handler) = "ensure"
         /\ \A j : j \in ClauseThen.lost <=>
              j \in Top.lost \/ (program.wide /\ j \in Outside(program, Handler, "catch"))
         /\ \A j : j \in ClauseThen.kept <=>
              Going.how = "throw" /\ j \in Catches(Enclosing(Top) \ {Handler})
         /\ FrameTells(ClauseThen) /\ ClauseOn(Past, ClauseThen)
<1> DEFINE l == Handler
           c == ClauseThen
<1>1. Unwinds
  BY DEF EnterHandler
<1>2. /\ Frames # <<>> /\ Going \in Reasons /\ Going # Normally
      /\ Going.how = "raise" \/ Going.how = "throw"
  BY <1>1, UnwindsTells
<1>3. Top \in FrameRecord /\ FrameGood(Top) /\ program \in Programs /\ FrameTells(Top)
  BY <1>2, TopKnown
<1>4. /\ l \in Levels /\ l \in Nat /\ l \in Enclosing(Top) /\ Accepts(Top, l, Going.how)
      /\ Top.code = "body" \/ Top.code = "rescue"
      /\ Top.code = "rescue" => Kind(l) = "both"
  BY HandlerIs
<1>5. ClauseCode = "rescue" \/ ClauseCode = "ensure"
  BY DEF ClauseCode
<1>6. ClauseCode = "rescue" => Top.code = "body" /\ Kind(l) \in Rescued /\ Going.how = "raise"
  BY <1>2, <1>4 DEF ClauseCode, Accepts, Rescued
<1>7. ClauseCode = "ensure" /\ Top.code = "body" => Kind(l) = "ensure"
  BY <1>2, <1>4 DEF ClauseCode, Accepts, Rescued, Ensured
<1>8. c \in FrameRecord
  <2> DEFINE code == ClauseCode
             way == Going
  <2>1. code \in {"rescue", "ensure"} /\ (code = "rescue" => way.how = "raise")
        /\ way.how \in {"raise", "throw"}
    BY <1>2, <1>5, <1>6
  <2> HIDE DEF code, way, l
  <2>2. Clause(code, l, way) \in FrameRecord
    BY <1>2, <1>3, <1>4, <2>1, ClauseIs DEF way
  <2> QED
    BY <2>2 DEF ClauseThen, code, way, l
<1>9. /\ c.code = ClauseCode /\ c.of = l /\ c.step = "down" /\ c.level = l
      /\ c.exception = IF ClauseCode = "rescue" THEN Going.what ELSE <<>>
      /\ c.pending = IF ClauseCode = "ensure" THEN Going ELSE Normally
  BY DEF ClauseThen, Clause, Frame
<1>10. \A j : j \in Catches(1 .. (l - 1)) <=> j \in Outside(program, l, "catch")
  BY DEF Catches, Outside, Kind, At
<1>11. c.lost = Top.lost \cup (IF program.wide THEN Catches(1 .. (l - 1)) ELSE {})
  BY DEF ClauseThen, Clause, Frame
<1>12. c.kept = IF Going.how = "throw" THEN Catches(Enclosing(Top) \ {l}) ELSE {}
  BY DEF ClauseThen, Clause, Frame
<1>13. \A j : j \in c.lost <=>
              j \in Top.lost \/ (program.wide /\ j \in Outside(program, l, "catch"))
  BY <1>10, <1>11
<1>14. \A j : j \in c.kept <=> Going.how = "throw" /\ j \in Catches(Enclosing(Top) \ {l})
  BY <1>12
<1>15. Past.code = Top.code /\ Past.step = "after" /\ Past.level = l
  BY PastIs
<1> HIDE DEF c, l
<1>16. c.code = "rescue" => c.kept = NoTags
  BY <1>2, <1>6, <1>9, <1>14 DEF NoTags
<1>17. FrameTells(c)
  BY <1>2, <1>5, <1>6, <1>9, <1>16 DEF FrameTells
<1>18. ClauseOn(Past, c)
  BY <1>5, <1>6, <1>7, <1>9, <1>15 DEF ClauseOn
<1> QED
  BY <1>5, <1>6, <1>7, <1>8, <1>9, <1>13, <1>14, <1>17, <1>18 DEF c, l

\* The tags that an ensure clause costs.
LEMMA EnsureLosses ==
  ASSUME MeaningInv, EnterHandler, Kind(Handler) # "catch", ClauseCode = "ensure",
         NEW r, Shape(r), NEW of \in Nat, NEW lg, NEW sp,
         Top.code = "body" => of = Top.of,
         Top.code # "body" =>
           \A j \in 1 .. DepthOf(program) :
             program.wide /\ j \in Outside(program, Handler, "catch") => j \in r.lost,
         Tells(program, r, Going, Top.lost, of, lg, sp)
  PROVE  Tells(program, IF Going.how = "raise" THEN Costs(program, r, Handler) ELSE r,
               Going, Merged(Past, ClauseThen).lost, of, lg, sp)
<1> DEFINE l == Handler
           c == ClauseThen
           m == Merged(Past, c)
           q == IF Going.how = "raise" THEN Costs(program, r, l) ELSE r
<1>1. Going.how = "raise" \/ Going.how = "throw"
  BY UnwindsTells DEF EnterHandler
<1>2. /\ \A j : j \in c.lost <=>
              j \in Top.lost \/ (program.wide /\ j \in Outside(program, l, "catch"))
      /\ \A j : j \in c.kept <=>
              Going.how = "throw" /\ j \in Catches(Enclosing(Top) \ {l})
  BY ClauseThenIs
<1>3. Past \in FrameRecord /\ Past.lost = Top.lost
  BY PastIs
<1> HIDE DEF c
<1>4. \A j : j \in m.lost <=> LostAfter(Past, c, j)
  BY <1>3, MergedIs
<1> HIDE DEF m
<1>5. /\ r.way = Going /\ r.log = lg /\ r.suppressed = Range(sp)
      /\ \A j \in 1 .. DepthOf(program) : j > of => (j \in r.lost <=> j \in Top.lost)
  BY DEF Tells
<1>6. CASE Going.how = "raise"
  <2>1. q = Costs(program, r, l)
    BY <1>6
  <2> HIDE DEF q
  <2>2. /\ q.way = Going /\ q.log = lg /\ q.suppressed = Range(sp)
        /\ q.lost = LostIn(program, r.lost, l)
    BY <1>5, <2>1, CostsIs
  <2>3. \A j : j \in q.lost <=>
                 j \in r.lost \/ (program.wide /\ j \in Outside(program, l, "catch"))
    BY <2>2 DEF LostIn
  <2>4. \A j : j \in m.lost <=> j \in c.lost
    BY <1>2, <1>4, <1>6 DEF LostAfter
  <2>5. \A j \in 1 .. DepthOf(program) : j > of => (j \in q.lost <=> j \in m.lost)
    BY <1>2, <1>5, <2>3, <2>4
  <2> QED
    BY <2>2, <2>5 DEF Tells, q, m, c
<1>7. CASE Going.how = "throw"
  <2>1. q = r
    BY <1>7
  <2> HIDE DEF q
  <2>2. ASSUME NEW j \in 1 .. DepthOf(program), j > of
        PROVE  j \in r.lost <=> j \in m.lost
    <3>1. CASE j \in c.kept
      BY <1>3, <1>4, <1>5, <2>2, <3>1 DEF LostAfter
    <3>2. CASE j \notin c.kept
      <4>1. j \in m.lost <=>
              j \in Top.lost \/ (program.wide /\ j \in Outside(program, l, "catch"))
        BY <1>2, <1>4, <3>2 DEF LostAfter
      <4>2. program.wide /\ j \in Outside(program, l, "catch") => j \in Top.lost
        <5> SUFFICES ASSUME program.wide, j \in Outside(program, l, "catch")
                     PROVE  j \in Top.lost
          OBVIOUS
        <5>1. CASE Top.code = "body"
          <6>1. Kind(j) = "catch" /\ j < l /\ l < Top.level /\ j > Top.of /\ l \in Nat
            <7>1. l < Top.level /\ l \in Nat
              BY <5>1, HandlerIs
            <7>2. Kind(j) = "catch" /\ j \in 1 .. (l - 1)
              BY DEF Outside, Kind, At
            <7> QED
              BY <2>2, <5>1, <7>1, <7>2
          <6>2. Top.of \in Nat /\ Top.level \in Nat
            BY TopKnown, UnwindsTells DEF EnterHandler
          <6>3. j \in Enclosing(Top) \ {l}
            BY <5>1, <6>1, <6>2 DEF Enclosing
          <6>4. j \in c.kept
            BY <1>2, <1>7, <6>1, <6>3 DEF Catches
          <6> QED
            BY <3>2, <6>4
        <5>2. CASE Top.code # "body"
          BY <1>5, <2>2, <5>2
        <5> QED
          BY <5>1, <5>2
      <4> QED
        BY <1>5, <2>2, <4>1, <4>2
    <3> QED
      BY <3>1, <3>2
  <2> QED
    BY <1>5, <2>1, <2>2 DEF Tells, q, m, c
<1> QED
  BY <1>1, <1>6, <1>7

\* Where a rescue clause has been, its tags are lost already.
LEMMA RescueCosts ==
  ASSUME NEW p, Known(p), NEW r, Shape(r), NEW l \in 1 .. DepthOf(p), r.way.how = "raise",
         p.wide, NEW j \in Outside(p, l, "catch")
  PROVE  j \in RescueMeans(p, r, l).lost
<1>1. ClauseIn(p, l) \in Acts
  BY DEF Known
<1>2. RescueMeans(p, r, l).lost = Costs(p, r, l).lost
  <2>1. MatchesIn(p, l) => RescueMeans(p, r, l).lost = Costs(p, r, l).lost
    BY <1>1, RescueIs
  <2>2. ~MatchesIn(p, l) => RescueMeans(p, r, l) = Costs(p, r, l)
    BY <1>1, RescueIs
  <2> QED
    BY <2>1, <2>2
<1>3. Costs(p, r, l).lost = LostIn(p, r.lost, l)
  BY CostsIs
<1> QED
  BY <1>2, <1>3 DEF LostIn

\* The ensure clause of a body, or of a rescue clause, begins.
LEMMA EnsureBegins ==
  ASSUME MeaningInv, EnterHandler, Kind(Handler) # "catch", ClauseCode = "ensure",
         ~ScopesEntangled, NEW of \in Nat,
         of = IF Top.code = "body" THEN Top.of ELSE Frames[Len(Frames) - 1].of
  PROVE  EnsureTells(program, ClauseThen, Past, of, Normally, log, suppressed)
<1> DEFINE l == Handler
           c == ClauseThen
           way == Going
           lost == Merged(Past, c).lost
<1>1. /\ c.of = l /\ c.pending = way
      /\ l \in 1 .. DepthOf(program) /\ Past.code = Top.code
      /\ Top.code = "body" \/ Top.code = "rescue"
  BY HandlerIs, ClauseThenIs, PastIs
<1>2. Frames # <<>>
  BY UnwindsTells DEF EnterHandler
<1>3. Known(program) /\ DepthOf(program) \in Nat
  BY <1>2, TopKnown DEF Known
<1>4. ASSUME NEW k \in 0 .. l
      PROVE  /\ Past.code # "body" => Means(program, k, l + 1).way.how = "raise"
             /\ Tells(program,
                      IF way.how = "raise" THEN Costs(program, RunFor(program, k, l, Past), l)
                      ELSE RunFor(program, k, l, Past), way, lost, of, log, suppressed)
  <2> DEFINE r == Means(program, k, l + 1)
             q == RunFor(program, k, l, Past)
  <2>1. l + 1 \in 1 .. (DepthOf(program) + 1) /\ ClauseIn(program, l) \in Acts
    BY <1>1, <1>3 DEF Known
  <2>2. Shape(r)
    BY <1>3, <2>1, MeansShape
  <2>3. CASE Top.code = "body"
    <3>1. q = r
      BY <1>1, <2>3 DEF RunFor
    <3>2. Tells(program, r, Going, Top.lost, of, log, suppressed)
      BY <1>4, <2>3, HandlerTold
    <3> HIDE DEF r, q
    <3>3. Tells(program, IF Going.how = "raise" THEN Costs(program, q, Handler) ELSE q,
                Going, Merged(Past, ClauseThen).lost, of, log, suppressed)
      BY <2>2, <2>3, <3>1, <3>2, EnsureLosses
    <3> QED
      BY <1>1, <2>3, <3>3 DEF q
  <2>4. CASE Top.code = "rescue"
    <3>1. q = RescueMeans(program, r, l)
      BY <1>1, <2>4 DEF RunFor
    <3>2. r.way.how = "raise" /\ Tells(program, q, Going, Top.lost, of, log, suppressed)
      BY <1>4, <2>4, <3>1, HandlerTold
    <3> HIDE DEF r, q
    <3>3. Shape(q)
      BY <2>1, <2>2, <3>1, RescueIs
    <3>4. \A j \in 1 .. DepthOf(program) :
            program.wide /\ j \in Outside(program, Handler, "catch") => j \in q.lost
      BY <1>1, <1>3, <2>2, <3>1, <3>2, RescueCosts
    <3>5. Top.code # "body"
      BY <2>4
    <3>6. Tells(program, IF Going.how = "raise" THEN Costs(program, q, Handler) ELSE q,
                Going, Merged(Past, ClauseThen).lost, of, log, suppressed)
      BY <3>2, <3>3, <3>4, <3>5, EnsureLosses
    <3> QED
      BY <3>2, <3>6 DEF q, r
  <2> QED
    BY <1>1, <2>3, <2>4
<1> HIDE DEF lost, way, c
<1> QED
  BY <1>1, <1>4, NormallyIs DEF EnsureTells, lost, c

\* A rescue clause begins.
LEMMA RescueBegins ==
  ASSUME MeaningInv, EnterHandler, Kind(Handler) # "catch", ClauseCode = "rescue",
         ~ScopesEntangled
  PROVE  RescueTells(program, ClauseThen, Top.of, Normally, log, suppressed)
<1> DEFINE l == Handler
           c == ClauseThen
           way == Going
           of == Top.of
<1>1. /\ c.of = l /\ c.step = "down" /\ Top.code = "body" /\ way.how = "raise"
      /\ c.exception = way.what
      /\ \A j : j \in c.lost <=>
           j \in Top.lost \/ (program.wide /\ j \in Outside(program, l, "catch"))
  BY ClauseThenIs
<1>2. l \in 1 .. DepthOf(program)
  BY HandlerIs
<1>3. Frames # <<>> /\ way \in Reasons
  BY UnwindsTells DEF EnterHandler
<1>4. Known(program) /\ DepthOf(program) \in Nat
  BY <1>3, TopKnown DEF Known
<1>5. way = Way("raise", c.exception)
  <2> HIDE DEF way
  <2>1. PICK e \in Exceptions : way = Way("raise", e)
    BY <1>1, <1>3 DEF Reasons, Way, Normally
  <2> QED
    BY <1>1, <2>1 DEF Way
<1>6. ASSUME NEW k \in 0 .. l
      PROVE  /\ Means(program, k, l + 1).way.how = "raise"
             /\ Tells(program, Costs(program, Means(program, k, l + 1), l), way,
                      c.lost, of, log, suppressed)
  <2> DEFINE r == Means(program, k, l + 1)
             q == Costs(program, r, l)
             lost == Top.lost
  <2>1. Tells(program, r, way, lost, of, log, suppressed)
    BY <1>1, <1>6, HandlerTold
  <2>2. l + 1 \in 1 .. (DepthOf(program) + 1)
    BY <1>2, <1>4
  <2>3. Shape(r)
    BY <1>4, <2>2, MeansShape
  <2> HIDE DEF r, way, of, lost
  <2>4. /\ q.way = r.way /\ q.log = r.log /\ q.suppressed = r.suppressed
        /\ q.lost = LostIn(program, r.lost, l)
    BY <2>3, CostsIs
  <2> HIDE DEF q
  <2>5. \A j : j \in q.lost <=>
                 j \in r.lost \/ (program.wide /\ j \in Outside(program, l, "catch"))
    BY <2>4 DEF LostIn
  <2>6. /\ r.way = way /\ r.log = log /\ r.suppressed = Range(suppressed)
        /\ \A j \in 1 .. DepthOf(program) : j > of => (j \in r.lost <=> j \in lost)
    BY <2>1 DEF Tells
  <2>7. \A j \in 1 .. DepthOf(program) : j > of => (j \in q.lost <=> j \in c.lost)
    BY <1>1, <2>5, <2>6 DEF lost
  <2>8. r.way.how = "raise"
    BY <1>1, <2>6 DEF way
  <2> QED
    BY <2>4, <2>6, <2>7, <2>8 DEF Tells, q, r
<1> HIDE DEF l, c, of, way
<1> QED
  BY <1>1, <1>5, <1>6, NormallyIs DEF RescueTells, l, c, of

LEMMA ClauseEnters ==
  ASSUME MeaningInv, EnterHandler, Kind(Handler) # "catch"
  PROVE  CodeInv' /\ ToldInv'
<1> DEFINE c == ClauseThen
           hs == Replaced(Past)
           gs == Append(hs, c)
           n == Len(Frames)
           v == [vms[Active] EXCEPT !.frames = gs, !.way = Normally]
<1>1. Moves /\ log' = log /\ suppressed' = suppressed /\ SetVm(v)
  BY HandlerMoves
<1>2. Frames # <<>> /\ ~vms[Active].escaped
  BY UnwindsTells DEF EnterHandler
<1>3. /\ vms[Active] \in VmRecord /\ Frames \in Seq(FrameRecord) /\ FramesGood(Frames)
      /\ FramesTell(Frames) /\ Top = Last(Frames) /\ Top.of \in Nat /\ Known(program)
  BY <1>2, TopKnown
<1>4. /\ c \in FrameRecord /\ FrameTells(c) /\ ClauseOn(Past, c) /\ c.code = ClauseCode
      /\ ClauseCode = "rescue" \/ ClauseCode = "ensure"
      /\ ClauseCode = "rescue" => Top.code = "body"
  BY ClauseThenIs
<1>5. /\ hs \in Seq(FrameRecord) /\ hs # <<>> /\ FramesTell(hs) /\ Last(hs) = Past
      /\ Len(hs) = n /\ hs[n] = Past
      /\ \A i \in 1 .. (n - 1) : hs[i] = Frames[i]
      /\ Past.code = Top.code /\ Past.of = Top.of
  BY PastIs
<1>6. Top.code = "body" \/ Top.code = "rescue"
  BY HandlerIs
<1>7. n \in Nat \ {0}
  BY <1>2, <1>3, LastIs
<1> HIDE DEF c, hs
<1>8. FramesTell(gs)
  BY <1>4, <1>5, TellPush
<1>9. /\ Len(gs) = n + 1 /\ gs[n + 1] = c /\ gs[n] = Past /\ gs # <<>>
      /\ \A i \in 1 .. (n - 1) : gs[i] = Frames[i]
  BY <1>4, <1>5, <1>7
<1>10. v.frames = gs /\ v.way = Normally /\ ~v.escaped
  <2> HIDE DEF gs
  <2> QED
    BY <1>2, <1>3 DEF VmRecord
<1> HIDE DEF gs, v
<1>11. (n + 1) - 1 = n /\ (n + 1) - 2 = n - 1
  BY <1>7
<1>12. ASSUME ~ScopesEntangled
       PROVE  TopTells(program, gs, Normally, log', suppressed')
  <2>1. CASE ClauseCode = "rescue"
    <3>1. RescueTells(program, c, Top.of, Normally, log, suppressed)
      BY <1>4, <1>12, <2>1, RescueBegins DEF c
    <3>2. gs[Len(gs)] = c /\ gs[Len(gs) - 1].of = Top.of /\ c.code = "rescue"
      BY <1>4, <1>5, <1>9, <1>11, <2>1
    <3> QED
      BY <1>1, <3>1, <3>2 DEF TopTells
  <2>2. CASE ClauseCode = "ensure"
    <3> DEFINE of == IF Top.code = "body" THEN Top.of ELSE Frames[Len(Frames) - 1].of
    <3>1. of \in Nat
      <4>1. CASE Top.code = "body"
        BY <1>3, <4>1
      <4>2. CASE Top.code = "rescue"
        <5> DEFINE u == Frames[Len(Frames) - 1]
        <5>1. u \in FrameRecord
          BY <1>2, <1>3, <4>2, ClauseLies
        <5> HIDE DEF u
        <5>2. u.of \in 0 .. Depth /\ Depth \in Nat
          BY <1>2, <5>1, TopKnown DEF FrameRecord
        <5>3. of = u.of
          BY <4>2 DEF u
        <5> QED
          BY <5>2, <5>3
      <4> QED
        BY <1>6, <4>1, <4>2
    <3>2. ProcedureOf(gs) = of
      <4>1. gs[Len(gs) - 1] = Past
        BY <1>9, <1>11
      <4>2. CASE Top.code = "body"
        BY <1>5, <4>1, <4>2 DEF ProcedureOf
      <4>3. CASE Top.code = "rescue"
        <5>1. n > 1
          BY <1>2, <1>3, <4>3, ClauseLies
        <5>2. n - 1 \in 1 .. (n - 1)
          BY <1>7, <5>1
        <5>3. gs[Len(gs) - 2] = Frames[n - 1]
          BY <1>9, <1>11, <5>2
        <5> QED
          BY <1>5, <4>1, <4>3, <5>3 DEF ProcedureOf
      <4> QED
        BY <1>6, <4>2, <4>3
    <3>3. of = IF Top.code = "body" THEN Top.of ELSE Frames[Len(Frames) - 1].of
      OBVIOUS
    <3> HIDE DEF of
    <3>4. EnsureTells(program, c, Past, of, Normally, log, suppressed)
      BY <1>12, <2>2, <3>1, <3>3, EnsureBegins DEF c
    <3>5. gs[Len(gs)] = c /\ gs[Len(gs) - 1] = Past /\ c.code = "ensure"
      BY <1>4, <1>9, <1>11, <2>2
    <3> QED
      BY <1>1, <3>2, <3>4, <3>5 DEF TopTells
  <2> QED
    BY <1>4, <2>1, <2>2
<1> QED
  BY <1>1, <1>8, <1>9, <1>10, <1>12, MovesTell, NormallyIs

LEMMA EnterHandlerTells == MeaningInv /\ EnterHandler => CodeInv' /\ ToldInv'
BY CatchTells, ClauseEnters

\* What stands between the first body and the last has no handler.
LEMMA NothingHandles ==
  ASSUME program \in Programs, NEW fs \in Seq(FrameRecord), FramesGood(fs), FramesTell(fs),
         NEW how, how = "raise" \/ how = "throw",
         \A j \in DOMAIN fs : Unhandled(fs[j], how),
         NEW m \in DOMAIN fs, fs[m].code = "body",
         NEW i \in (fs[1].of + 1) .. (fs[m].level - 1)
  PROVE  Passing(how, Kind(i))
<1> DEFINE S == {j \in 1 .. m : fs[j].of < i}
           g == Max(S)
<1>1. DOMAIN fs = 1 .. Len(fs) /\ Len(fs) \in Nat /\ m \in Nat /\ m \in 1 .. Len(fs)
  BY SeqDomain
<1>2. \A j \in 1 .. m : /\ fs[j] \in FrameRecord /\ fs[j].code = "body"
                        /\ FrameTells(fs[j]) /\ Unhandled(fs[j], how)
  <2> SUFFICES ASSUME NEW j \in 1 .. m
               PROVE  /\ fs[j] \in FrameRecord /\ fs[j].code = "body"
                      /\ FrameTells(fs[j]) /\ Unhandled(fs[j], how)
    OBVIOUS
  <2>1. j \in DOMAIN fs
    BY <1>1
  <2>2. j = m \/ j < m
    BY <1>1
  <2>3. fs[j].code = "body"
    BY <2>1, <2>2 DEF FramesGood
  <2>4. fs[j] \in FrameRecord
    BY <2>1, SeqDomain
  <2> QED
    BY <2>1, <2>3, <2>4 DEF FramesTell
<1>3. \A j \in 1 .. m : fs[j].of \in Nat /\ fs[j].level \in Nat
  <2> SUFFICES ASSUME NEW j \in 1 .. m PROVE fs[j].of \in Nat /\ fs[j].level \in Nat
    OBVIOUS
  <2> DEFINE f == fs[j]
  <2>1. f \in FrameRecord /\ Depth \in Nat
    BY <1>2, ProgramFacts
  <2> HIDE DEF f
  <2>2. f.of \in Nat /\ f.level \in Nat
    BY <2>1 DEF FrameRecord
  <2> QED
    BY <2>2 DEF f
<1>4. 1 \in 1 .. m
  BY <1>1
<1>5. i \in Nat /\ fs[1].of < i /\ i < fs[m].level
  <2>1. fs[1].of \in Nat /\ fs[m].level \in Nat
    BY <1>1, <1>3, <1>4
  <2> QED
    BY <2>1
<1>6. g \in S /\ \A j \in S : j <= g
  <2>1. S \subseteq 0 .. m /\ S # {}
    BY <1>4, <1>5
  <2> HIDE DEF S
  <2> QED
    BY <1>1, <2>1, GreatestNatural
<1> HIDE DEF g
<1>7. g \in 1 .. m /\ fs[g].of < i
  BY <1>6
<1>8. CASE i < fs[g].level
  <2>1. i \in (fs[g].of + 1) .. (fs[g].level - 1)
    BY <1>3, <1>5, <1>7, <1>8
  <2>2. fs[g].code = "body" /\ Unhandled(fs[g], how)
    BY <1>2, <1>7
  <2> QED
    BY <2>1, <2>2, NoHandlerPasses
<1>9. CASE ~(i < fs[g].level)
  <2>1. g < m
    BY <1>5, <1>7, <1>9
  <2>2. g + 1 \in 1 .. m /\ g \in 1 .. (Len(fs) - 1)
    BY <1>1, <1>7, <2>1
  <2>3. g + 1 \notin S
    BY <1>6, <1>7
  <2>4. i <= fs[g + 1].of
    BY <1>3, <1>5, <2>2, <2>3
  <2>5. Carries(fs[g], fs[g + 1]) /\ fs[g + 1].code = "body"
    BY <1>2, <2>2 DEF FramesGood
  <2>6. fs[g].level = fs[g + 1].of
    BY <2>5 DEF Carries
  <2>7. i = fs[g + 1].of
    BY <1>3, <1>5, <1>7, <1>9, <2>4, <2>6
  <2>8. FrameTells(fs[g + 1]) /\ fs[g + 1].of # 0
    BY <1>2, <1>3, <1>4, <1>5, <2>2, <2>7
  <2>9. Kind(i) \in Procedures
    BY <2>5, <2>7, <2>8 DEF FrameTells
  <2> QED
    BY <2>9 DEF Passing, Procedures, Ensured, Rescued
<1> QED
  BY <1>8, <1>9

\* Without a handler, all the frames are left.
LEMMA AllLeft ==
  ASSUME program \in Programs, NEW fs \in Seq(FrameRecord), FramesGood(fs), FramesTell(fs),
         fs # <<>>, NEW way, way.how = "raise" \/ way.how = "throw", way # Normally,
         \A j \in DOMAIN fs : Unhandled(fs[j], way.how), NEW lg, NEW sp,
         TopTells(program, fs, way, lg, sp), NEW k \in 0 .. fs[1].of
  PROVE  Ends(program, Means(program, k, fs[1].of + 1), way, lg, sp)
<1> DEFINE f == Last(fs)
           low == fs[1].of + 1
           high == f.level
<1>1. /\ f \in FrameRecord /\ f = fs[Len(fs)] /\ Len(fs) \in DOMAIN fs
      /\ 1 \in DOMAIN fs /\ fs[1] \in FrameRecord /\ FrameGood(f)
      /\ Unhandled(f, way.how)
  <2>1. f = fs[Len(fs)] /\ Len(fs) \in DOMAIN fs /\ 1 \in DOMAIN fs
    <3>1. f = fs[Len(fs)] /\ Len(fs) \in Nat \ {0}
      BY LastIs
    <3> QED
      BY <3>1, SeqDomain
  <2>2. f \in FrameRecord /\ fs[1] \in FrameRecord
    BY <2>1, SeqDomain
  <2> HIDE DEF f
  <2> QED
    BY <2>1, <2>2 DEF FramesGood
<1>2. Known(program) /\ Depth \in Nat /\ DepthOf(program) = Depth
      /\ \A i : KindIn(program, i) = Kind(i)
  BY ProgramKnown, ProgramFacts, KnownIs
<1>3. PICK m \in DOMAIN fs : /\ fs[m].code = "body" /\ fs[m].level = high
                             /\ \A j \in DOMAIN fs : fs[j].code = "body" => j <= m
  BY StandsIn
<1>4. /\ high \in 1 .. (Depth + 1) /\ fs[1].of \in 0 .. Depth /\ fs[m].of \in Nat
  <2>1. fs[m] \in FrameRecord
    BY SeqDomain
  <2> HIDE DEF f
  <2> QED
    BY <1>1, <1>2, <2>1 DEF FrameRecord
<1>5. fs[1].of < high
  <2>1. fs[m].of < high
    BY <1>3 DEF FramesGood, FrameGood
  <2>2. m = 1 \/ fs[1].of < fs[m].of
    <3>1. DOMAIN fs = 1 .. Len(fs) /\ Len(fs) \in Nat
      BY SeqDomain
    <3>2. m = 1 \/ 1 < m
      BY <3>1
    <3> QED
      BY <1>1, <1>3, <3>2 DEF FramesGood
  <2> HIDE DEF high
  <2> QED
    BY <1>4, <2>1, <2>2
<1>6. Ends(program, Means(program, k, high), way, lg, sp)
  <2>1. CASE f.code = "body"
    <3> DEFINE lost == f.lost
               of == f.of
    <3>1. BodyTells(program, f, way, lg, sp)
      BY <1>1, <2>1 DEF TopTells
    <3>2. k \in 0 .. (high - 1)
      BY <1>4, <1>5
    <3>3. Tells(program, Means(program, k, high), way, lost, of, lg, sp)
      BY <3>1, <3>2 DEF BodyTells
    <3> HIDE DEF lost, of, high
    <3> QED
      BY <1>2, <3>3, TellsEnds
  <2>2. CASE f.code # "body"
    <3> DEFINE lost == Merged(fs[Len(fs) - 1], f).lost
               of == ProcedureOf(fs)
    <3>1. high = f.of /\ f.of \in Levels
      BY <1>1, <2>2 DEF FrameGood
    <3>2. k \in 0 .. f.of
      BY <1>4, <1>5, <3>1
    <3>3. Tells(program, Construct(program, Means(program, k, f.of + 1), f.of), way, lost,
                of, lg, sp)
      BY <1>1, <2>2, <3>2, ClauseTold
    <3> HIDE DEF lost, of, high
    <3>4. Tells(program, Construct(program, Means(program, k, high + 1), high), way, lost,
                of, lg, sp)
      BY <3>1, <3>3
    <3>5. high \in 1 .. DepthOf(program)
      BY <1>2, <3>1 DEF Levels
    <3>6. Tells(program, Means(program, k, high), way, lost, of, lg, sp)
      BY <1>2, <3>4, <3>5, LeftTells
    <3> QED
      BY <1>2, <3>6, TellsEnds
  <2> QED
    BY <2>1, <2>2
<1>7. \A i \in low .. (high - 1) : Passing(way.how, KindIn(program, i))
  BY <1>2, <1>3, NothingHandles
<1>8. high \in 1 .. (DepthOf(program) + 1) /\ low \in 1 .. high
  BY <1>2, <1>4, <1>5
<1> HIDE DEF low, high
<1>9. Ends(program, Means(program, k, low), way, lg, sp)
  BY <1>2, <1>6, <1>7, <1>8, PassesToEnd
<1> QED
  BY <1>9 DEF low

LEMMA EscapeTells == MeaningInv /\ Escape => CodeInv' /\ ToldInv'
<1> SUFFICES ASSUME MeaningInv, Escape PROVE CodeInv' /\ ToldInv'
  OBVIOUS
<1> DEFINE way == Going
           v == [vms[Active] EXCEPT !.escaped = TRUE]
           b == Calls(vms, Active)
<1>1. /\ Unwinds /\ SetVm(v) /\ log' = log /\ suppressed' = suppressed
      /\ ~HasHandler(way.how)
  BY DEF Escape
<1>2. Moves
  BY MovingSteps DEF MovingStep, MeaningInv
<1>3. /\ Frames # <<>> /\ way # Normally /\ (way.how = "raise" \/ way.how = "throw")
      /\ way.how # "fault" /\ way = vms[Active].way
      /\ ~ScopesEntangled => TopTells(program, Frames, way, log, suppressed)
  BY <1>1, UnwindsTells
<1>4. /\ program \in Programs /\ FramesTell(Frames) /\ Frames \in Seq(FrameRecord)
      /\ FramesGood(Frames) /\ vms[Active] \in VmRecord /\ Frames = vms[Active].frames
  BY <1>3, TopKnown
<1>5. Frames[1].of = b
  BY <1>3, FirstIs
<1>6. \A j \in DOMAIN Frames : Unhandled(Frames[j], way.how)
  BY <1>1 DEF HasHandler, Unhandled
<1> HIDE DEF way
<1>7. ASSUME ~ScopesEntangled, NEW k \in 0 .. Frames[1].of
      PROVE  Ends(program, Means(program, k, Frames[1].of + 1), way, log, suppressed)
  <2>1. TopTells(program, Frames, way, log, suppressed)
    BY <1>3, <1>7
  <2> QED
    BY <1>3, <1>4, <1>6, <1>7, <2>1, AllLeft
<1>8. v.frames = Frames /\ v.way = way /\ v.escaped
  BY <1>3, <1>4 DEF VmRecord
<1> HIDE DEF v, b
<1>9. ~ScopesEntangled => VmTells(program, v, b, log', suppressed')
  BY <1>1, <1>3, <1>5, <1>7, <1>8 DEF VmTells
<1>10. FramesTell(v.frames)
  BY <1>4, <1>8
<1> QED
  BY <1>1, <1>2, <1>9, <1>10, MovesAre DEF b

\* The calls of the blocks are those of the frames that wait for them.
LEMMA SameCalls ==
  ASSUME NEW n \in Nat, NEW vs, NEW ws,
         \A i \in 1 .. n : Last(ws[i].frames).level = Last(vs[i].frames).level
  PROVE  \A i \in 1 .. (n + 1) : Calls(ws, i) = Calls(vs, i)
<1> SUFFICES ASSUME NEW i \in 1 .. (n + 1) PROVE Calls(ws, i) = Calls(vs, i)
  OBVIOUS
<1>1. i # 1 => i - 1 \in 1 .. n
  OBVIOUS
<1> QED
  BY <1>1 DEF Calls

\* The call in which a VM waits for the block of the last one.
LEMMA CallWaits ==
  ASSUME MeaningInv, Len(vms) > 1, ~Last(vms).left
  PROVE  LET n == Len(vms) - 1
             parent == vms[n]
             caller == Last(parent.frames)
         IN  /\ task = "running" /\ Active = Len(vms) /\ VmsGood(vms)
             /\ n \in Nat \ {0} /\ n + 1 = Len(vms) /\ n \in DOMAIN vms
             /\ DOMAIN vms = 1 .. (n + 1) /\ Last(vms) = vms[n + 1]
             /\ parent \in VmRecord /\ ~parent.left /\ ~parent.escaped
             /\ parent.way = Normally /\ parent.frames # <<>>
             /\ parent.frames \in Seq(FrameRecord) /\ FramesTell(parent.frames)
             /\ caller \in FrameRecord /\ FrameTells(caller) /\ FrameGood(caller)
             /\ caller.code = "body" /\ caller.step = "down" /\ caller.lost = NoTags
             /\ Kind(caller.level) = "block" /\ caller.level \in Levels
             /\ Calls(vms, n + 1) = caller.level
             /\ ~ScopesEntangled =>
                  VmTells(program, vms[n + 1], caller.level, log, suppressed)
<1> DEFINE n == Len(vms) - 1
           parent == vms[n]
           fs == parent.frames
           caller == Last(fs)
<1>1. VmsGood(vms) /\ Inv
  BY DEF MeaningInv, Inv
<1>2. /\ n \in Nat \ {0} /\ n + 1 = Len(vms) /\ DOMAIN vms = 1 .. (n + 1)
      /\ Last(vms) = vms[n + 1] /\ n \in DOMAIN vms /\ n \in 1 .. (Len(vms) - 1)
      /\ Len(vms) # 1
  BY <1>1, VmsAre
<1>3. task = "running"
  BY <1>1, <1>2, SeveralRun
<1>4. Active = n + 1
  BY <1>2 DEF Active
<1>5. parent \in VmRecord /\ VmGood(parent) /\ ParentGood(parent, vms[n + 1])
  <2>1. ParentGood(parent, vms[n + 1])
    BY <1>1, <1>2 DEF VmsGood
  <2> QED
    BY <1>1, <1>2, <2>1, VmsAre
<1>6. FramesTell(fs)
  BY <1>2 DEF MeaningInv, CodeInv
<1>7. ~ScopesEntangled => VmTells(program, vms[n + 1], Calls(vms, n + 1), log, suppressed)
  <2>1. task # "done"
    BY <1>3
  <2> QED
    BY <1>4, <2>1 DEF MeaningInv, ToldInv
<1>8. Calls(vms, n + 1) = caller.level
  <2>1. n + 1 # 1 /\ (n + 1) - 1 = n
    BY <1>2
  <2> QED
    BY <2>1 DEF Calls
<1>9. ~vms[n + 1].left
  BY <1>2
<1> HIDE DEF n, parent
<1>10. /\ fs # <<>> /\ ~parent.left /\ parent.way = Normally /\ ~parent.escaped
       /\ caller.code = "body" /\ caller.step = "down" /\ Kind(caller.level) = "block"
       /\ caller.level <= Depth
  BY <1>5, <1>9 DEF ParentGood, VmGood
<1>11. fs \in Seq(FrameRecord) /\ FramesGood(fs)
  BY <1>5 DEF VmRecord, VmGood
<1> HIDE DEF fs
<1>12. caller \in FrameRecord /\ FrameTells(caller) /\ FrameGood(caller)
  <2>1. caller = fs[Len(fs)] /\ caller \in FrameRecord /\ Len(fs) \in DOMAIN fs
    <3>1. caller = fs[Len(fs)] /\ caller \in FrameRecord /\ Len(fs) \in Nat \ {0}
      BY <1>10, <1>11, LastIs
    <3> QED
      BY <1>11, <3>1, SeqDomain
  <2> HIDE DEF caller
  <2> QED
    BY <1>6, <1>11, <2>1 DEF FramesGood, FramesTell
<1> HIDE DEF caller
<1>13. caller.lost = NoTags
  BY <1>10, <1>12 DEF FrameTells
<1>14. caller.level \in Levels
  <2>1. Depth \in Nat
    BY <1>1, ProgramFacts DEF Inv
  <2>2. caller.level \in 1 .. (Depth + 1)
    BY <1>12 DEF FrameRecord
  <2> QED
    BY <1>10, <2>1, <2>2 DEF Levels
<1>15. Active = Len(vms)
  BY <1>2, <1>4
<1>16. /\ task = "running" /\ Active = Len(vms) /\ VmsGood(vms)
       /\ n \in Nat \ {0} /\ n + 1 = Len(vms) /\ n \in DOMAIN vms
       /\ DOMAIN vms = 1 .. (n + 1) /\ Last(vms) = vms[n + 1]
  BY <1>1, <1>2, <1>3, <1>15
<1>17. /\ parent \in VmRecord /\ ~parent.left /\ ~parent.escaped
       /\ parent.way = Normally /\ fs # <<>>
       /\ fs \in Seq(FrameRecord) /\ FramesTell(fs)
  BY <1>5, <1>6, <1>10, <1>11
<1>18. /\ caller \in FrameRecord /\ FrameTells(caller) /\ FrameGood(caller)
       /\ caller.code = "body" /\ caller.step = "down" /\ caller.lost = NoTags
       /\ Kind(caller.level) = "block" /\ caller.level \in Levels
       /\ Calls(vms, n + 1) = caller.level
       /\ ~ScopesEntangled =>
            VmTells(program, vms[n + 1], caller.level, log, suppressed)
  BY <1>7, <1>8, <1>10, <1>12, <1>13, <1>14
<1> QED
  BY <1>16, <1>17, <1>18 DEF caller, fs, parent, n

LEMMA BlockReturnsTells == MeaningInv /\ BlockReturns => CodeInv' /\ ToldInv'
<1> SUFFICES ASSUME MeaningInv, BlockReturns PROVE CodeInv' /\ ToldInv'
  OBVIOUS
<1> DEFINE n == Len(vms) - 1
           ws == Front(vms)
           parent == vms[n]
           fs == parent.frames
           caller == Last(fs)
           level == caller.level
           f == Goto(caller, "after", level)
           gs == Append(Front(fs), f)
           v == [parent EXCEPT !.frames = gs]
           us == Append(Front(ws), v)
<1>1. /\ Len(vms) > 1 /\ Last(vms).frames = <<>>
      /\ program' = program /\ log' = log /\ suppressed' = suppressed /\ task' = task
      /\ vms' = us
  BY DEF BlockReturns
<1>2. VmsGood(vms) /\ Inv /\ Len(vms) # 1 /\ VmsGood(vms')
  <2>1. VmsGood(vms) /\ Inv /\ Inv'
    BY BlockReturnsKeeps DEF MeaningInv, Inv
  <2>2. VmsGood(vms)'
    BY <2>1 DEF Inv
  <2>3. VmsGood(vms')
    BY <1>1, <2>2, SameProgram
  <2>4. Len(vms) # 1
    <3>1. Len(vms) \in Nat /\ Len(vms) > 1
      BY <1>1, <2>1, VmsAre
    <3> QED
      BY <3>1
  <2> QED
    BY <2>1, <2>3, <2>4
<1>3. ~Last(vms).left /\ Last(vms).way = Normally /\ ~Last(vms).escaped
  <2>1. /\ Last(vms) = vms[Len(vms)] /\ Len(vms) \in DOMAIN vms /\ VmGood(vms[Len(vms)])
    BY <1>2, VmsAre
  <2>2. vms[Len(vms)].way = Normally
    BY <1>1, <1>2, <2>1, SeveralRun
  <2> QED
    BY <2>1, <2>2 DEF VmGood
<1>4. /\ task = "running"
      /\ n \in Nat \ {0} /\ n + 1 = Len(vms) /\ n \in DOMAIN vms
      /\ DOMAIN vms = 1 .. (n + 1) /\ Last(vms) = vms[n + 1]
      /\ parent \in VmRecord /\ ~parent.left /\ ~parent.escaped
      /\ parent.way = Normally /\ fs # <<>>
      /\ fs \in Seq(FrameRecord) /\ FramesTell(fs)
      /\ caller \in FrameRecord /\ FrameTells(caller)
      /\ caller.code = "body" /\ caller.step = "down" /\ caller.lost = NoTags
      /\ Kind(level) = "block" /\ level \in Levels
      /\ ~ScopesEntangled => VmTells(program, vms[n + 1], level, log, suppressed)
  BY <1>1, <1>3, CallWaits
<1>5. /\ Len(ws) = n /\ \A i \in 1 .. n : ws[i] = vms[i]
      /\ ws \in Seq(VmRecord) /\ ws # <<>>
  <2>1. VmsGood(ws) /\ Len(ws) = n /\ \A i \in 1 .. n : ws[i] = vms[i]
    BY <1>1, <1>2, FrontVms
  <2> QED
    BY <2>1 DEF VmsGood
<1> HIDE DEF caller
<1>6. /\ f \in FrameRecord /\ f.code = "body" /\ f.of = caller.of /\ f.level = level
      /\ f.lost = NoTags /\ f.step = "after" /\ f.scope = caller.scope
  <2>1. /\ f.code = "body" /\ f.of = caller.of /\ f.level = level
        /\ f.lost = NoTags /\ f.step = "after" /\ f.scope = caller.scope
    BY <1>4, GotoIs
  <2>2. f \in FrameRecord
    BY <1>4 DEF Goto, FrameRecord
  <2> QED
    BY <2>1, <2>2
<1> HIDE DEF f
<1>7. FrameTells(f)
  <2>1. "after" # "down" /\ "after" \notin {"ensure", "return"} /\ "body" # "rescue"
        /\ "body" # "ensure"
    OBVIOUS
  <2> QED
    BY <1>4, <1>6, <2>1 DEF FrameTells
<1> HIDE DEF fs
<1>8. FramesTell(gs) /\ gs \in Seq(FrameRecord)
  <2>1. f.code = Last(fs).code /\ f.of = Last(fs).of
    BY <1>4, <1>6 DEF caller
  <2>2. FramesTell(gs)
    BY <1>4, <1>6, <1>7, <2>1, TellReplace
  <2>3. Front(fs) \in Seq(FrameRecord)
    BY <1>4, LastIs
  <2> QED
    BY <1>6, <2>2, <2>3, AppendProperties
<1>9. Len(gs) = Len(fs) /\ gs[Len(gs)] = f /\ gs # <<>> /\ Last(gs) = f
      /\ gs[1].of = fs[1].of /\ Len(fs) \in Nat \ {0}
  <2>1. /\ Len(gs) = Len(fs) /\ gs # <<>> /\ gs[Len(fs)] = f
        /\ \A i \in 1 .. (Len(fs) - 1) : gs[i] = fs[i]
    BY <1>4, <1>6, ReplacedIs
  <2>2. Len(fs) \in Nat \ {0} /\ caller = fs[Len(fs)]
    BY <1>4, LastIs DEF caller
  <2>3. Len(fs) = 1 \/ 1 \in 1 .. (Len(fs) - 1)
    <3>1. \A m \in Nat \ {0} : m = 1 \/ 1 \in 1 .. (m - 1)
      OBVIOUS
    <3> QED
      BY <2>2, <3>1
  <2> HIDE DEF gs
  <2>4. gs[1].of = fs[1].of
    <3>1. CASE Len(fs) = 1
      BY <1>6, <2>1, <2>2, <3>1
    <3>2. CASE 1 \in 1 .. (Len(fs) - 1)
      <4>1. gs[1] = fs[1]
        BY <2>1, <3>2
      <4> QED
        BY <4>1
    <3> QED
      BY <2>3, <3>1, <3>2
  <2>5. Last(gs) = gs[Len(gs)]
    BY <1>8, <2>1, LastIs
  <2> QED
    BY <2>1, <2>2, <2>4, <2>5
<1> HIDE DEF gs, parent
<1>10. /\ v \in VmRecord /\ v.frames = gs /\ v.way = Normally /\ ~v.escaped /\ ~v.left
  BY <1>4, <1>8 DEF VmRecord
<1> HIDE DEF v
<1>11. /\ Len(us) = n /\ us[n] = v /\ \A i \in 1 .. (n - 1) : us[i] = ws[i]
       /\ us \in Seq(VmRecord)
  BY <1>5, <1>10, ReplacedIs
<1> HIDE DEF us, ws, n
<1>12. DOMAIN us = 1 .. n /\ \A i \in 1 .. n : i = n \/ (us[i] = vms[i] /\ i \in DOMAIN vms)
  <2>1. DOMAIN us = 1 .. n
    BY <1>11, SeqDomain
  <2>2. \A i \in 1 .. n : i = n \/ i \in 1 .. (n - 1)
    BY <1>4
  <2> QED
    BY <1>4, <1>5, <1>11, <2>1, <2>2
<1>13. Active' = n
  BY <1>1, <1>2, <1>10, <1>11, LastIsActive
<1>14. \A i \in 1 .. n : Last(us[i].frames).level = Last(vms[i].frames).level
  <2>1. Last(us[n].frames).level = Last(vms[n].frames).level
    BY <1>6, <1>9, <1>10, <1>11 DEF parent, fs, caller, level
  <2> QED
    BY <1>12, <2>1
<1>15. \A i \in 1 .. n : Calls(us, i) = Calls(vms, i)
  <2>1. \A i \in 1 .. (n + 1) : Calls(us, i) = Calls(vms, i)
    BY <1>4, <1>14, SameCalls
  <2> QED
    BY <1>4, <2>1
<1>16. \A i \in DOMAIN us : FramesTell(us[i].frames)
  BY <1>8, <1>10, <1>11, <1>12 DEF MeaningInv, CodeInv
<1>17. ASSUME NEW i \in DOMAIN us, us[i].frames # <<>>, ~us[i].left
       PROVE  us[i].frames[1].of = Calls(us, i)
  <2>1. CASE i = n
    <3>1. vms[n].frames[1].of = Calls(vms, n)
      BY <1>4 DEF MeaningInv, CodeInv, parent, fs
    <3>2. vms[n].frames[1].of = us[n].frames[1].of
      BY <1>9, <1>10, <1>11 DEF parent, fs
    <3> QED
      BY <1>12, <1>15, <1>17, <2>1, <3>1, <3>2
  <2>2. CASE i # n
    <3>1. us[i] = vms[i] /\ i \in DOMAIN vms /\ i \in 1 .. n
      BY <1>12, <1>17, <2>2
    <3>2. vms[i].frames[1].of = Calls(vms, i)
      BY <1>17, <3>1 DEF MeaningInv, CodeInv
    <3> QED
      BY <1>15, <3>1, <3>2
  <2> QED
    BY <2>1, <2>2
<1>18. ASSUME ~ScopesEntangled
       PROVE  VmTells(program, v, Calls(us, n), log, suppressed)
  <2>1. /\ Known(program) /\ level \in 1 .. DepthOf(program)
        /\ KindIn(program, level) \in Procedures
    <3>1. KindIn(program, level) = "block"
      BY <1>4, KnownIs
    <3> QED
      BY <1>2, <1>4, <3>1, ProgramKnown, KnownIs DEF Inv, Levels, Procedures
  <2>2. \A k \in 0 .. level :
          Ends(program, Closed(Means(program, k, level + 1)), Normally, log, suppressed)
    <3>1. /\ vms[n + 1].frames = <<>> /\ ~vms[n + 1].escaped
          /\ vms[n + 1].way.how # "fault"
      BY <1>1, <1>3, <1>4, NormallyIs
    <3> QED
      BY <1>4, <1>18, <3>1 DEF VmTells
  <2> HIDE DEF level
  <2>3. ASSUME NEW k \in 0 .. level
        PROVE  Tells(program, Construct(program, Means(program, k, level + 1), level),
                     Normally, f.lost, f.of, log, suppressed)
    <3>1. Tells(program, Construct(program, Means(program, k, level + 1), level),
                Normally, NoTags, f.of, log, suppressed)
      BY <2>1, <2>2, CallComesBack
    <3> QED
      BY <1>6, <3>1
  <2>4. BodyTells(program, f, Normally, log, suppressed)
    BY <1>6, <2>3, NormallyIs DEF BodyTells
  <2>5. TopTells(program, gs, Normally, log, suppressed)
    BY <1>6, <1>9, <2>4 DEF TopTells
  <2> QED
    BY <1>9, <1>10, <2>5, NormallyIs DEF VmTells
<1> QED
  <2>1. task' = "running"
    BY <1>1, <1>4
  <2>2. ~ScopesEntangled => VmTells(program, us[n], Calls(us, n), log', suppressed')
    BY <1>1, <1>11, <1>18
  <2>3. /\ \A i \in DOMAIN vms' : FramesTell(vms'[i].frames)
        /\ \A i \in DOMAIN vms' :
             vms'[i].frames # <<>> /\ ~vms'[i].left =>
               vms'[i].frames[1].of = Calls(vms', i)
    BY <1>1, <1>16, <1>17
  <2> QED
    BY <1>1, <1>13, <2>1, <2>2, <2>3, OthersTell

LEMMA BlockEscapesTells == MeaningInv /\ BlockEscapes => CodeInv' /\ ToldInv'
<1> SUFFICES ASSUME MeaningInv, BlockEscapes PROVE CodeInv' /\ ToldInv'
  OBVIOUS
<1> DEFINE n == Len(vms) - 1
           last == vms[n + 1]
           way == last.way
           fault == way.how = "fault"
           parent == vms[n]
           fs == parent.frames
           caller == Last(fs)
           level == caller.level
           child == [last EXCEPT !.left = TRUE]
           v == [parent EXCEPT !.way = way, !.escaped = fault]
<1>1. /\ Len(vms) > 1 /\ Last(vms).escaped /\ ~Last(vms).left
      /\ program' = program /\ log' = log /\ suppressed' = suppressed /\ task' = task
  BY DEF BlockEscapes
<1>2. VmsGood(vms) /\ VmsGood(vms') /\ Inv
  <2>1. VmsGood(vms) /\ Inv' /\ Inv
    BY BlockEscapesKeeps DEF MeaningInv, Inv
  <2>2. VmsGood(vms)'
    BY <2>1 DEF Inv
  <2> QED
    BY <1>1, <2>1, <2>2, SameProgram
<1>3. /\ task = "running"
      /\ n \in Nat \ {0} /\ n + 1 = Len(vms) /\ n \in DOMAIN vms
      /\ DOMAIN vms = 1 .. (n + 1) /\ Last(vms) = last
      /\ parent \in VmRecord /\ ~parent.left
      /\ fs # <<>> /\ fs \in Seq(FrameRecord) /\ FramesTell(fs)
      /\ caller \in FrameRecord
      /\ caller.code = "body" /\ caller.lost = NoTags
      /\ Kind(level) = "block" /\ level \in Levels
      /\ ~ScopesEntangled => VmTells(program, last, level, log, suppressed)
  BY <1>1, CallWaits
<1>4. /\ last \in VmRecord /\ way \in Reasons /\ last.escaped /\ way # Normally
      /\ last.frames \in Seq(FrameRecord)
  <2>1. last \in VmRecord /\ VmGood(last)
    BY <1>2, <1>3, VmsAre
  <2> HIDE DEF last
  <2> QED
    BY <1>1, <1>3, <2>1 DEF VmRecord, VmGood
<1>5. /\ vms' \in [1 .. (n + 1) -> VmRecord] /\ vms'[n + 1] = child /\ vms'[n] = v
      /\ \A i \in 1 .. (n + 1) : i # n + 1 /\ i # n => vms'[i] = vms[i]
  <2>1. Len(vms) = n + 1 /\ Len(vms) - 1 = n
    BY <1>3
  <2> QED
    BY <1>1, <1>2, <2>1, BlockEscapesIs, Zenon
<1> HIDE DEF last
<1>6. child.frames = last.frames /\ child.left
  BY <1>4 DEF VmRecord
<1> HIDE DEF child, way, fault, parent
<1>7. v.frames = fs /\ v.way = way /\ v.escaped = fault /\ ~v.left
  BY <1>3 DEF VmRecord
<1> HIDE DEF v
<1>8. DOMAIN vms' = 1 .. (n + 1) /\ Len(vms') = n + 1
  BY <1>2, <1>5, VmsAre
<1>9. Active' = n
  <2>1. Last(vms') = vms'[n + 1]
    BY <1>2, <1>8, VmsAre
  <2> QED
    BY <1>3, <1>5, <1>6, <1>8, <2>1 DEF Active
<1>10. \A i \in 1 .. (n + 1) : vms'[i].frames = vms[i].frames
  <2> SUFFICES ASSUME NEW i \in 1 .. (n + 1) PROVE vms'[i].frames = vms[i].frames
    OBVIOUS
  <2>1. CASE i = n
    BY <1>5, <1>7, <2>1 DEF parent, fs
  <2>2. CASE i = n + 1
    BY <1>5, <1>6, <2>2 DEF last
  <2>3. CASE i # n /\ i # n + 1
    BY <1>5, <2>3
  <2> QED
    BY <2>1, <2>2, <2>3
<1> HIDE DEF n
<1>11. \A i \in 1 .. n : Calls(vms', i) = Calls(vms, i)
  <2>1. \A i \in 1 .. n : Last(vms'[i].frames).level = Last(vms[i].frames).level
    BY <1>3, <1>10
  <2>2. \A i \in 1 .. (n + 1) : Calls(vms', i) = Calls(vms, i)
    BY <1>3, <2>1, SameCalls
  <2> QED
    BY <1>3, <2>2
<1>12. \A i \in DOMAIN vms' : FramesTell(vms'[i].frames)
  BY <1>3, <1>8, <1>10 DEF MeaningInv, CodeInv
<1>13. ASSUME NEW i \in DOMAIN vms', vms'[i].frames # <<>>, ~vms'[i].left
       PROVE  vms'[i].frames[1].of = Calls(vms', i)
  <2>1. i \in 1 .. n
    <3>1. i # n + 1
      BY <1>5, <1>6, <1>13
    <3> QED
      BY <1>3, <1>8, <1>13, <3>1
  <2>2. i \in DOMAIN vms /\ i \in 1 .. (n + 1)
    BY <1>3, <1>8, <1>13
  <2>3. ~vms[i].left
    <3>1. CASE i = n
      BY <1>3, <3>1 DEF parent
    <3>2. CASE i # n
      <4>1. i # n + 1
        BY <1>3, <2>1
      <4> QED
        BY <1>5, <1>13, <2>2, <3>2, <4>1
    <3> QED
      BY <3>1, <3>2
  <2>4. vms[i].frames[1].of = Calls(vms, i)
    BY <1>10, <1>13, <2>2, <2>3 DEF MeaningInv, CodeInv
  <2> QED
    BY <1>10, <1>11, <2>1, <2>2, <2>4
<1>14. ASSUME ~ScopesEntangled
       PROVE  VmTells(program, v, Calls(vms', n), log, suppressed)
  <2>1. VmTells(program, last, level, log, suppressed)
    BY <1>3, <1>14
  <2>2. CASE fault
    <3>1. v.way.how = "fault" /\ last.way.how = "fault" /\ v.way = last.way
      BY <1>7, <2>2 DEF fault, way
    <3>2. \E k \in 1 .. (DepthOf(program) + 1) :
            Ends(program, Means(program, k, 1), v.way, log, suppressed)
      BY <2>1, <3>1 DEF VmTells
    <3> QED
      BY <3>1, <3>2 DEF VmTells
  <2>3. CASE ~fault
    <3>1. v.way.how # "fault" /\ last.way.how # "fault" /\ ~v.escaped /\ v.way = way
      BY <1>7, <2>3 DEF fault, way
    <3>2. \A k \in 0 .. level : Ends(program, Means(program, k, level + 1), way, log, suppressed)
      BY <1>4, <2>1, <3>1 DEF VmTells, way
    <3>3. /\ Known(program) /\ level \in 1 .. DepthOf(program)
          /\ KindIn(program, level) \in Procedures
      <4>1. KindIn(program, level) = "block"
        BY <1>3, KnownIs
      <4> QED
        BY <1>2, <1>3, <4>1, ProgramKnown, KnownIs DEF Inv, Levels, Procedures
    <3>4. way.how = "raise" \/ way.how = "throw"
      BY <1>4, <3>1, ReasonsAre DEF way
    <3> HIDE DEF level
    <3>5. ASSUME NEW k \in 0 .. (level - 1)
          PROVE  Tells(program, Means(program, k, level), way, caller.lost, caller.of,
                       log, suppressed)
      <4>1. k \in 0 .. level
        BY <3>3, <3>5 DEF Known
      <4>2. Tells(program, Means(program, k, level), way, NoTags, caller.of,
                  log, suppressed)
        BY <3>2, <3>3, <3>4, <4>1, PassesCall
      <4> QED
        BY <1>3, <4>2
    <3> HIDE DEF caller
    <3>6. BodyTells(program, caller, way, log, suppressed)
      BY <1>4, <3>5 DEF BodyTells, level
    <3>7. TopTells(program, fs, way, log, suppressed)
      <4>1. fs[Len(fs)] = caller
        BY <1>3, LastIs DEF caller
      <4> QED
        BY <1>3, <3>6, <4>1 DEF TopTells
    <3> HIDE DEF fs
    <3> QED
      BY <1>3, <1>7, <3>1, <3>7 DEF VmTells
  <2> QED
    BY <2>2, <2>3
<1> QED
  <2>1. task' = "running"
    BY <1>1, <1>3
  <2>2. ~ScopesEntangled => VmTells(program, vms'[n], Calls(vms', n), log', suppressed')
    BY <1>1, <1>5, <1>14
  <2> QED
    BY <1>1, <1>9, <1>12, <1>13, <2>1, <2>2, OthersTell

LEMMA ReleaseBlockVmTells == MeaningInv /\ ReleaseBlockVm => CodeInv' /\ ToldInv'
<1> SUFFICES ASSUME MeaningInv, ReleaseBlockVm PROVE CodeInv' /\ ToldInv'
  OBVIOUS
<1> DEFINE n == Len(vms) - 1
<1>1. /\ Last(vms).left /\ program' = program /\ log' = log /\ suppressed' = suppressed
      /\ task' = task /\ vms' = Front(vms)
  BY DEF ReleaseBlockVm
<1>2. VmsGood(vms) /\ Inv
  BY DEF MeaningInv, Inv
<1>3. /\ n \in Nat \ {0} /\ n + 1 = Len(vms) /\ DOMAIN vms = 1 .. (n + 1)
      /\ Last(vms) = vms[n + 1] /\ Len(vms) > 1 /\ Len(vms) # 1
  <2>1. /\ Len(vms) \in Nat \ {0} /\ DOMAIN vms = 1 .. Len(vms)
        /\ Last(vms) = vms[Len(vms)]
    BY <1>2, VmsAre
  <2>2. Len(vms) # 1
    BY <1>1, <1>2, <2>1 DEF VmsGood
  <2> QED
    BY <2>1, <2>2
<1>4. task = "running"
  BY <1>2, <1>3, SeveralRun
<1>5. /\ VmsGood(vms') /\ Len(vms') = n /\ \A i \in 1 .. n : vms'[i] = vms[i]
  BY <1>1, <1>2, <1>3, FrontVms
<1>6. DOMAIN vms' = 1 .. n /\ Last(vms') = vms'[n]
  BY <1>5, VmsAre
<1>7. Active = n
  BY <1>1, <1>3 DEF Active
<1>8. ~vms[n].left /\ n \in DOMAIN vms
  BY <1>2, <1>3, <1>7, ActiveIs
<1> HIDE DEF n
<1>9. Active' = n
  <2>1. ~vms'[Len(vms')].left
    BY <1>3, <1>5, <1>8
  <2> QED
    BY <1>5, <2>1, LastIsActive
<1>10. \A i \in 1 .. n : Calls(vms', i) = Calls(vms, i)
  <2>1. \A i \in 1 .. n : Last(vms'[i].frames).level = Last(vms[i].frames).level
    BY <1>5
  <2>2. \A i \in 1 .. (n + 1) : Calls(vms', i) = Calls(vms, i)
    BY <1>3, <2>1, SameCalls
  <2> QED
    BY <1>3, <2>2
<1>11. \A i \in 1 .. n : i \in DOMAIN vms
  BY <1>3
<1>12. \A i \in DOMAIN vms' : FramesTell(vms'[i].frames)
  BY <1>5, <1>6, <1>11 DEF MeaningInv, CodeInv
<1>13. \A i \in DOMAIN vms' : vms'[i].frames # <<>> /\ ~vms'[i].left =>
         vms'[i].frames[1].of = Calls(vms', i)
  BY <1>5, <1>6, <1>10, <1>11 DEF MeaningInv, CodeInv
<1>14. ~ScopesEntangled => VmTells(program, vms'[n], Calls(vms', n), log', suppressed')
  <2>1. task # "done" /\ n \in 1 .. n
    BY <1>3, <1>4
  <2>2. ~ScopesEntangled => VmTells(program, vms[n], Calls(vms, n), log, suppressed)
    BY <1>7, <2>1 DEF MeaningInv, ToldInv
  <2> QED
    BY <1>1, <1>5, <1>10, <2>1, <2>2
<1> QED
  BY <1>1, <1>4, <1>9, <1>12, <1>13, <1>14, OthersTell

\* A task has ended with what the program p means.
Written(p, way, lg, sp) ==
  \E k \in 0 .. (DepthOf(p) + 1) :
    /\ Ends(p, Meaning(p, k, Quirks), way, lg, sp)
    /\ k # 0 => way.how = "fault"

LEMMA WrittenIs ==
  ASSUME program' = program, Written(program, outcome', log', suppressed')
  PROVE  AsWritten'
<1>1. Depth' = DepthOf(program)
  BY DEF Depth, DepthOf
<1>2. PICK k \in 0 .. (Depth' + 1) :
        /\ Ends(program, Meaning(program, k, Quirks), outcome', log', suppressed')
        /\ k # 0 => outcome'.how = "fault"
  BY <1>1 DEF Written
<1> DEFINE m == Meaning(program, k, Quirks)
<1>3. m.way = outcome' /\ m.log = log' /\ m.suppressed = Range(suppressed')
  BY <1>2 DEF Ends, Tells
<1>4. Meaning(program', k, Quirks) = m
  OBVIOUS
<1> HIDE DEF m
<1> QED
  BY <1>2, <1>3, <1>4 DEF AsWritten

\* A program that does not return is not closed.
LEMMA ClosedEnds ==
  ASSUME NEW p, NEW r, Shape(r), NEW way, way.how # "return", NEW lg, NEW sp,
         Ends(p, r, way, lg, sp)
  PROVE  Ends(p, Closed(r), way, lg, sp)
<1>1. r.way = way
  BY DEF Ends, Tells
<1>2. Closed(r) = WithWay(r, way)
  BY <1>1 DEF Closed, WithWay
<1>3. WithWay(r, way) = r
  BY <1>1 DEF WithWay, Shape
<1> QED
  BY <1>2, <1>3

LEMMA EndTaskTells == MeaningInv /\ EndTask => CodeInv' /\ ToldInv'
<1> SUFFICES ASSUME MeaningInv, EndTask PROVE CodeInv' /\ ToldInv'
  OBVIOUS
<1> DEFINE v == vms[1]
           way == v.way
           w == [v EXCEPT !.frames = <<>>]
<1>1. /\ program' = program /\ log' = log /\ suppressed' = suppressed /\ task' = "done"
      /\ Len(vms) = 1 /\ task = "running" /\ vms' = <<[Last(vms) EXCEPT !.frames = <<>>]>>
      /\ Last(vms).escaped \/ Last(vms).frames = <<>>
      /\ outcome' = Last(vms).way
  BY DEF EndTask
<1>2. /\ VmsGood(vms) /\ Inv /\ TaskGood /\ Last(vms) = v /\ 1 \in DOMAIN vms
      /\ v \in VmRecord /\ ~v.left
  <2>1. VmsGood(vms) /\ Inv /\ TaskGood
    BY DEF MeaningInv, Inv
  <2> QED
    BY <1>1, <2>1, VmsAre DEF VmsGood
<1>3. Active = 1
  BY <1>1, <1>2 DEF Active
<1>4. ~ScopesEntangled => VmTells(program, v, 0, log, suppressed)
  <2>1. task # "done" /\ Calls(vms, 1) = 0
    BY <1>1 DEF Calls
  <2> QED
    BY <1>3, <2>1 DEF MeaningInv, ToldInv
<1>5. v.frames = <<>> => way = Normally
  BY <1>1, <1>2 DEF TaskGood
<1>6. way \in Reasons /\ (v.escaped \/ v.frames = <<>>) /\ outcome' = way
  BY <1>1, <1>2 DEF VmRecord
<1>7. /\ Known(program) /\ Means(program, 0, 1) = MeansOf(program, 0, Quirks)[1]
      /\ \A k : /\ Shape(Means(program, k, 1))
                /\ Meaning(program, k, Quirks) = Closed(Means(program, k, 1))
  <2>1. Known(program)
    BY <1>2, ProgramKnown DEF Inv
  <2>2. 1 \in 1 .. (DepthOf(program) + 1)
    BY <2>1 DEF Known
  <2>3. \A k : Shape(Means(program, k, 1))
    BY <2>1, <2>2, MeansShape
  <2> QED
    BY <2>1, <2>3 DEF Means, Meaning
<1>8. way.how # "return"
  BY <1>6, ReasonsAre
<1> HIDE DEF v
<1>9. ASSUME ~ScopesEntangled
      PROVE  Written(program, way, log, suppressed)
  <2>1. VmTells(program, v, 0, log, suppressed)
    BY <1>4, <1>9
  <2>2. CASE way.how = "fault"
    <3>1. PICK k \in 1 .. (DepthOf(program) + 1) :
            Ends(program, Means(program, k, 1), way, log, suppressed)
      BY <2>1, <2>2 DEF VmTells
    <3>2. Ends(program, Closed(Means(program, k, 1)), way, log, suppressed)
      BY <1>7, <1>8, <3>1, ClosedEnds
    <3>3. k \in 0 .. (DepthOf(program) + 1)
      BY <1>7 DEF Known
    <3> HIDE DEF way
    <3> QED
      BY <1>7, <2>2, <3>2, <3>3 DEF Written
  <2>3. CASE way.how # "fault" /\ v.escaped
    <3>1. Ends(program, Means(program, 0, 1), way, log, suppressed)
      <4>1. \A k \in 0 .. 0 : Ends(program, Means(program, k, 0 + 1), way, log, suppressed)
        BY <2>1, <2>3 DEF VmTells
      <4>2. 0 \in 0 .. 0 /\ 0 + 1 = 1
        OBVIOUS
      <4> HIDE DEF way
      <4> QED
        BY <4>1, <4>2
    <3>2. Ends(program, Closed(Means(program, 0, 1)), way, log, suppressed)
      BY <1>7, <1>8, <3>1, ClosedEnds
    <3>3. 0 \in 0 .. (DepthOf(program) + 1)
      BY <1>7 DEF Known
    <3> HIDE DEF way
    <3> QED
      BY <1>7, <3>2, <3>3 DEF Written
  <2>4. CASE way.how # "fault" /\ ~v.escaped
    <3>1. v.frames = <<>> /\ way = Normally
      BY <1>5, <1>6, <2>4
    <3>2. Ends(program, Closed(Means(program, 0, 1)), Normally, log, suppressed)
      <4>1. \A k \in 0 .. 0 :
              Ends(program, Closed(Means(program, k, 0 + 1)), Normally, log, suppressed)
        BY <2>1, <2>4, <3>1 DEF VmTells
      <4>2. 0 \in 0 .. 0 /\ 0 + 1 = 1
        OBVIOUS
      <4> HIDE DEF way
      <4> QED
        BY <4>1, <4>2
    <3>3. 0 \in 0 .. (DepthOf(program) + 1)
      BY <1>7 DEF Known
    <3> HIDE DEF way
    <3> QED
      BY <1>7, <3>1, <3>2, <3>3 DEF Written
  <2> QED
    BY <2>2, <2>3, <2>4
<1>10. w.frames = <<>>
  BY <1>2 DEF VmRecord
<1>11. vms' = <<w>>
  BY <1>1, <1>2
<1> HIDE DEF w, way
<1>12. DOMAIN vms' = {1} /\ vms'[1] = w
  BY <1>11
<1>13. FramesTell(<<>>)
  BY DEF FramesTell
<1>14. CodeInv'
  <2>1. \A i \in DOMAIN vms' : vms'[i].frames = <<>>
    BY <1>10, <1>12
  <2>2. (\A i \in DOMAIN vms : FramesTell(vms[i].frames))'
    BY <1>1, <1>13, <2>1, SameProgramTells
  <2>3. (\A i \in DOMAIN vms :
           vms[i].frames # <<>> /\ ~vms[i].left => vms[i].frames[1].of = Calls(vms, i))'
    BY <2>1
  <2>4. (task # "parked")'
    BY <1>1
  <2> QED
    BY <2>2, <2>3, <2>4 DEF CodeInv
<1>15. ~ScopesEntangled => AsWritten'
  <2>1. ASSUME ~ScopesEntangled PROVE Written(program, outcome', log', suppressed')
    BY <1>1, <1>6, <1>9, <2>1
  <2> QED
    BY <1>1, <2>1, WrittenIs
<1> QED
  BY <1>1, <1>14, <1>15, SameProgramTells DEF ToldInv

LEMMA StillTells ==
  ASSUME MeaningInv, UNCHANGED vars
  PROVE  CodeInv' /\ ToldInv'
<1>1. /\ program' = program /\ vms' = vms /\ log' = log /\ suppressed' = suppressed
      /\ task' = task /\ outcome' = outcome
  BY DEF vars
<1>2. /\ Active' = Active /\ Frames' = Frames /\ Top' = Top /\ Depth' = Depth
  BY <1>1 DEF Active, Frames, Top, Depth
<1>3. /\ Innermost' <=> Innermost
      /\ Here' = Here
  BY <1>1, <1>2 DEF Innermost, Here, At
<1>4. CodeInv'
  <2>1. (\A i \in DOMAIN vms : FramesTell(vms[i].frames))'
    BY <1>1, SameProgramTells DEF MeaningInv, CodeInv
  <2> QED
    BY <1>1, <1>2, <1>3, <2>1 DEF MeaningInv, CodeInv
<1>5. AsWritten' <=> AsWritten
  BY <1>1, <1>2, SameProgramTells DEF AsWritten
<1> QED
  BY <1>1, <1>2, <1>4, <1>5, SameProgramTells DEF MeaningInv, ToldInv

LEMMA MeaningBegins == Init => CodeInv /\ ToldInv
<1> SUFFICES ASSUME Init PROVE CodeInv /\ ToldInv
  OBVIOUS
<1> DEFINE f == Body(0)
           v == NewVm(f)
<1>1. /\ program \in Programs /\ vms = <<v>> /\ log = <<>> /\ suppressed = <<>>
      /\ task = "running"
  BY DEF Init
<1>2. /\ f.code = "body" /\ f.of = 0 /\ f.step = "down" /\ f.level = 1
      /\ f.lost = NoTags /\ f.scope = 0
  BY DEF Body, Frame, NoTags
<1> HIDE DEF f
<1>3. v.frames = <<f>> /\ v.way = Normally /\ ~v.escaped /\ ~v.left
  BY DEF NewVm
<1> HIDE DEF v
<1>4. Len(vms) = 1 /\ DOMAIN vms = {1} /\ vms[1] = v /\ Last(vms) = v
  BY <1>1 DEF Last
<1>5. Active = 1
  BY <1>3, <1>4 DEF Active
<1>6. Calls(vms, 1) = 0
  BY DEF Calls
<1>7. FrameTells(f)
  <2>1. \A l \in (f.of + 1) .. (f.level - 1) : Kind(l) \notin Procedures
    BY <1>2
  <2>2. "down" \notin {"ensure", "return"} /\ "body" # "rescue" /\ "body" # "ensure"
    OBVIOUS
  <2> QED
    BY <1>2, <2>1, <2>2 DEF FrameTells
<1>8. FramesTell(<<f>>) /\ <<f>> # <<>> /\ <<f>>[Len(<<f>>)] = f /\ <<f>>[1] = f
  BY <1>7 DEF FramesTell
<1>9. VmTells(program, v, 0, log, suppressed)
  <2>1. Silent(log, suppressed)
    BY <1>1 DEF Silent
  <2>2. BodyTells(program, f, Normally, log, suppressed)
    BY <1>2, <2>1 DEF BodyTells
  <2>3. TopTells(program, <<f>>, Normally, log, suppressed)
    BY <1>2, <1>8, <2>2 DEF TopTells
  <2> QED
    BY <1>3, <1>8, <2>3, NormallyIs DEF VmTells
<1>10. ToldInv
  BY <1>1, <1>4, <1>5, <1>6, <1>9 DEF ToldInv
<1> QED
  BY <1>1, <1>2, <1>3, <1>4, <1>6, <1>8, <1>10 DEF CodeInv

LEMMA MeaningNext == MeaningInv /\ [Next]_vars => CodeInv' /\ ToldInv'
<1>1. MeaningInv /\ Execute => CodeInv' /\ ToldInv'
  BY CallMethodTells, OpenScopeTells, CallBlockTells, EnterTryTells, ExecuteActTells,
     EnsureInLineTells, RescueClauseTells, RescueDoesNotMatchTells, EnsureClauseTells,
     ParkTells, SleepEndsTells, SleepIsCancelledTells
  DEF Execute
<1> QED
  BY <1>1, StillTells, PopFrameTells, EnterHandlerTells, EscapeTells, BlockReturnsTells,
     BlockEscapesTells, ReleaseBlockVmTells, EndTaskTells
  DEF Next, Terminated

LEMMA MeaningAlways == Spec => [](CodeInv /\ ToldInv)
<1>1. Inv /\ ContextInv /\ (CodeInv /\ ToldInv) /\ [Next]_vars => (CodeInv /\ ToldInv)'
  BY MeaningNext DEF MeaningInv
<1> QED
  BY <1>1, MeaningBegins, InvAlways, ContextAlways, PTL DEF Spec

(***************************************************************************)
(* Whatever program a task is given, it ends as the program is written:    *)
(* raise_value, throw_value, finish_return and the builtins that run       *)
(* blocks find the handlers, run the clauses and lose the tags that the    *)
(* constructs mean, taken one by one from the inside out.                  *)
(***************************************************************************)
THEOREM ProgramsEndAsWritten == Spec => []AsWritten
<1>1. ToldInv => AsWritten
  BY DEF ToldInv, AsWritten
<1> QED
  BY <1>1, MeaningAlways, PTL
=============================================================================
