----------------------------- MODULE ChannelProofs -----------------------------
(***************************************************************************)
(* Theorems about channels and move slots, for any callers, any slots, any *)
(* capacity and any number of sends and resets.                            *)
(*                                                                         *)
(* The inductive invariant ties together the three places that know of a   *)
(* send: the line it stands in (received, buffer, pending), the call of    *)
(* the sender that waits for its answer, and the slot it moves from.  With *)
(* FullIfPending it carries the refinement of FifoChannel.                 *)
(***************************************************************************)
EXTENDS ChannelProperties, SequenceTheorems, WellFoundedInduction, TLAPS

Ascending(s) == \A k, l \in DOMAIN s : k < l => s[k] < s[l]

Before(S, T) == \A i \in S, j \in T : i < j

\* ValuesInOrder, place by place.
LineOrdered ==
  /\ Ascending(received) /\ Ascending(buffer) /\ Ascending(pending)
  /\ Before(ToSet(received), ToSet(buffer))
  /\ Before(ToSet(received), ToSet(pending))
  /\ Before(ToSet(buffer), ToSet(pending))

-----------------------------------------------------------------------------
(* The books of a channel: what its callers, its line and the slots know of the    *)
(* sends.  They are about any values of the variables, so that an action can be     *)
(* followed one change after the other.                                            *)

\* The places of the line and the states of the sends agree, and nothing is in the
\* line that was not sent.
Lined(taken, waiting, sends) ==
  /\ taken \cup waiting \subseteq DOMAIN sends
  /\ \A i \in DOMAIN sends :
       /\ (sends[i].state \in {"ok", "consumed"}) = (i \in taken)
       /\ (sends[i].state = "pending") = (i \in waiting)

Unanswered == {"pending", "consumed", "failed"}

\* A caller waits for a send of its own, and no send without an answer is left
\* behind by its caller.
Awaited(sends, calls) ==
  /\ \A p \in Procs : calls[p].pc = "send" =>
       /\ calls[p].id \in DOMAIN sends
       /\ sends[calls[p].id].state \in Unanswered
       /\ sends[calls[p].id].by = p
       /\ sends[calls[p].id].slot = calls[p].slot
  /\ \A i \in DOMAIN sends : sends[i].state \in Unanswered =>
       calls[sends[i].by].pc = "send" /\ calls[sends[i].by].id = i
  /\ \A p \in Procs : calls[p].pc = "reserved" => calls[p].slot \in Slots

\* No send carries content that its slot has not had yet, and one that can still be
\* committed carries what is in the slot now.
Carried(sends, slots) ==
  \A i \in DOMAIN sends : sends[i].slot # None =>
    /\ sends[i].content <= slots[sends[i].slot].content
    /\ (/\ sends[i].state = "pending"
        /\ slots[sends[i].slot].holder = sends[i].by) =>
         sends[i].content = slots[sends[i].slot].content

\* MovedOnce
Owned(taken, sends, slots) ==
  /\ \A s \in Slots :
       (slots[s].state = "Moved") =
         \E i \in taken : sends[i].slot = s /\ sends[i].content = slots[s].content
  /\ \A i, j \in taken :
       (/\ sends[i].slot # None
        /\ sends[i].slot = sends[j].slot
        /\ sends[i].content = sends[j].content) => i = j

\* ReservationsHeld
Held(sends, slots, calls) ==
  \A s \in Slots :
    /\ (slots[s].state = "Reserved") = (slots[s].holder # None)
    /\ slots[s].holder # None =>
         /\ calls[slots[s].holder].slot = s
         /\ \/ calls[slots[s].holder].pc = "reserved"
            \/ /\ calls[slots[s].holder].pc = "send"
               /\ sends[calls[slots[s].holder].id].state = "pending"

Types(sends, slots, calls) ==
  /\ sends \in Seq(SendRecord)
  /\ slots \in [Slots -> SlotRecord]
  /\ calls \in [Procs -> CallRecord]

Books(taken, waiting, sends, slots, calls) ==
  /\ Types(sends, slots, calls)
  /\ Lined(taken, waiting, sends)
  /\ Awaited(sends, calls)
  /\ Carried(sends, slots)
  /\ Owned(taken, sends, slots)
  /\ Held(sends, slots, calls)

Inv ==
  /\ TypeOK
  /\ LineOrdered
  /\ Books(Taken, ToSet(pending), sent, slot, call)
-----------------------------------------------------------------------------
(* Numbers and sequences *)

\* A set of naturals that holds something has a least element.
LEMMA LeastNatural ==
  ASSUME NEW S, S \subseteq Nat, S # {}
  PROVE  Min(S) \in S /\ \A i \in S : Min(S) <= i
<1>1. IsWellFoundedOn(OpToRel(<, Nat), Nat)
  BY NatLessThanWellFounded
<1>2. PICK m \in S : \A i \in S : ~(<<i, m>> \in OpToRel(<, Nat))
  BY <1>1, WFMin, Zenon
<1>3. OpToRel(<, Nat) = {ss \in Nat \X Nat : ss[1] < ss[2]}
  BY Zenon DEF OpToRel
<1>4. \A i \in S : i < m => <<i, m>> \in {ss \in Nat \X Nat : ss[1] < ss[2]}
  OBVIOUS
<1>5. \A i \in S : m <= i
  <2>1. \A i \in S : ~(i < m)
    BY <1>2, <1>3, <1>4, Zenon
  <2> QED
    BY <2>1
<1> QED
  BY <1>5 DEF Min

\* What holds of 0 and carries over from each number to the next holds up to m.
LEMMA CountingUp ==
  ASSUME NEW S, NEW m \in Nat, 0 \in S,
         \A n \in 0..(m - 1) : n \in S => n + 1 \in S
  PROVE  \A n \in 0..m : n \in S
<1> DEFINE Missing == {n \in 0..m : n \notin S}
<1> SUFFICES ASSUME Missing # {} PROVE FALSE
  OBVIOUS
<1>1. Min(Missing) \in Missing /\ \A i \in Missing : Min(Missing) <= i
  <2>1. Missing \subseteq Nat
    OBVIOUS
  <2> QED
    BY <2>1, LeastNatural
<1> QED
  BY <1>1

LEMMA ToSetConcat ==
  ASSUME NEW D, NEW s \in Seq(D), NEW t \in Seq(D)
  PROVE  ToSet(s \o t) = ToSet(s) \cup ToSet(t)
<1>1. /\ s \o t \in Seq(D)
      /\ Len(s \o t) = Len(s) + Len(t)
      /\ \A i \in 1..(Len(s) + Len(t)) :
           (s \o t)[i] = IF i <= Len(s) THEN s[i] ELSE t[i - Len(s)]
  BY ConcatProperties
<1>2. Len(s) \in Nat /\ Len(t) \in Nat /\ DOMAIN s = 1..Len(s)
      /\ DOMAIN t = 1..Len(t) /\ DOMAIN (s \o t) = 1..(Len(s) + Len(t))
  BY <1>1, LenProperties
<1>3. \A i \in DOMAIN s : i \in DOMAIN (s \o t) /\ (s \o t)[i] = s[i]
  BY <1>1, <1>2
<1>4. \A i \in DOMAIN t :
        i + Len(s) \in DOMAIN (s \o t) /\ (s \o t)[i + Len(s)] = t[i]
  BY <1>1, <1>2
<1>5. \A i \in DOMAIN (s \o t) : (s \o t)[i] \in ToSet(s) \cup ToSet(t)
  BY <1>1, <1>2 DEF ToSet
<1>6. ToSet(s) \subseteq ToSet(s \o t)
  BY <1>3, Zenon DEF ToSet
<1>7. ToSet(t) \subseteq ToSet(s \o t)
  BY <1>4, Zenon DEF ToSet
<1>8. ToSet(s \o t) \subseteq ToSet(s) \cup ToSet(t)
  <2>1. \A x \in ToSet(s \o t) : \E i \in DOMAIN (s \o t) : x = (s \o t)[i]
    BY Zenon DEF ToSet
  <2> QED
    BY <1>5, <2>1, Zenon
<1> QED
  BY <1>6, <1>7, <1>8, Zenon

LEMMA AppendFacts ==
  ASSUME NEW D, NEW s \in Seq(D), NEW e \in D
  PROVE  /\ Append(s, e) \in Seq(D)
         /\ Append(s, e) = s \o <<e>>
         /\ <<e>> \in Seq(D)
         /\ ToSet(<<e>>) = {e}
         /\ ToSet(Append(s, e)) = ToSet(s) \cup {e}
<1>1. Append(s, e) \in Seq(D) /\ Append(s, e) = s \o <<e>> /\ <<e>> \in Seq(D)
  BY AppendProperties
<1>2. ToSet(<<e>>) = {e}
  <2>1. DOMAIN <<e>> = {1} /\ <<e>>[1] = e
    OBVIOUS
  <2> QED
    BY <2>1, Zenon DEF ToSet
<1>3. ToSet(s \o <<e>>) = ToSet(s) \cup ToSet(<<e>>)
  BY <1>1, ToSetConcat
<1> QED
  BY <1>1, <1>2, <1>3, Zenon

\* A line is ascending if its parts are and nothing in the second comes before
\* what is in the first.
LEMMA AscendingConcat ==
  ASSUME NEW s \in Seq(Nat), NEW t \in Seq(Nat)
  PROVE  Ascending(s \o t) <=>
           Ascending(s) /\ Ascending(t) /\ Before(ToSet(s), ToSet(t))
<1>1. /\ s \o t \in Seq(Nat)
      /\ Len(s \o t) = Len(s) + Len(t)
      /\ \A i \in 1..(Len(s) + Len(t)) :
           (s \o t)[i] = IF i <= Len(s) THEN s[i] ELSE t[i - Len(s)]
  BY ConcatProperties
<1>2. Len(s) \in Nat /\ Len(t) \in Nat /\ DOMAIN s = 1..Len(s)
      /\ DOMAIN t = 1..Len(t) /\ DOMAIN (s \o t) = 1..(Len(s) + Len(t))
  BY <1>1, LenProperties
<1>3. \A i \in DOMAIN s : i \in DOMAIN (s \o t) /\ (s \o t)[i] = s[i]
  BY <1>1, <1>2
<1>4. ASSUME NEW i \in DOMAIN t
      PROVE  i + Len(s) \in DOMAIN (s \o t) /\ (s \o t)[i + Len(s)] = t[i]
  <2>1. i \in 1..Len(t) /\ i + Len(s) \in 1..(Len(s) + Len(t)) /\ ~(i + Len(s) <= Len(s))
        /\ (i + Len(s)) - Len(s) = i
    BY <1>2
  <2> QED
    BY <1>1, <1>2, <2>1, Zenon
<1>5. ASSUME Ascending(s \o t) PROVE Ascending(s)
  BY <1>2, <1>3, <1>5 DEF Ascending
<1>6. ASSUME Ascending(s \o t) PROVE Ascending(t)
  <2> SUFFICES ASSUME NEW k \in DOMAIN t, NEW l \in DOMAIN t, k < l
               PROVE  t[k] < t[l]
    BY DEF Ascending
  <2>1. k + Len(s) < l + Len(s)
    BY <1>2
  <2> QED
    BY <1>4, <1>6, <2>1 DEF Ascending
<1>7. ASSUME Ascending(s \o t) PROVE Before(ToSet(s), ToSet(t))
  <2> SUFFICES ASSUME NEW k \in DOMAIN s, NEW l \in DOMAIN t
               PROVE  s[k] < t[l]
    BY DEF Before, ToSet
  <2>1. k < l + Len(s)
    BY <1>2
  <2> QED
    BY <1>3, <1>4, <1>7, <2>1 DEF Ascending
<1>8. ASSUME Ascending(s), Ascending(t), Before(ToSet(s), ToSet(t))
      PROVE  Ascending(s \o t)
  <2> SUFFICES ASSUME NEW k \in DOMAIN (s \o t), NEW l \in DOMAIN (s \o t), k < l
               PROVE  (s \o t)[k] < (s \o t)[l]
    BY DEF Ascending
  <2>1. CASE l <= Len(s)
    BY <1>1, <1>2, <1>8, <2>1 DEF Ascending
  <2>2. CASE k > Len(s)
    <3>1. k - Len(s) \in DOMAIN t /\ l - Len(s) \in DOMAIN t
          /\ k - Len(s) < l - Len(s)
      BY <1>2, <2>2
    <3>2. t[k - Len(s)] < t[l - Len(s)]
      BY <1>8, <3>1 DEF Ascending
    <3> QED
      BY <1>1, <1>2, <2>2, <3>2
  <2>3. CASE k <= Len(s) /\ l > Len(s)
    <3>1. k \in DOMAIN s /\ l - Len(s) \in DOMAIN t
      BY <1>2, <2>3
    <3>2. s[k] < t[l - Len(s)]
      BY <1>8, <3>1 DEF Before, ToSet
    <3> QED
      BY <1>1, <1>2, <2>3, <3>2
  <2> QED
    BY <1>2, <2>1, <2>2, <2>3
<1> QED
  BY <1>5, <1>6, <1>7, <1>8
LEMMA SubSeqFacts ==
  ASSUME NEW D, NEW s \in Seq(D), NEW m \in 1..(Len(s) + 1), NEW n \in 0..Len(s)
  PROVE  /\ SubSeq(s, m, n) \in Seq(D)
         /\ ToSet(SubSeq(s, m, n)) = {s[k] : k \in m..n}
         /\ Ascending(s) => Ascending(SubSeq(s, m, n))
<1>0. Len(s) \in Nat /\ DOMAIN s = 1..Len(s) /\ \A k \in 1..Len(s) : s[k] \in D
  BY LenProperties
<1>1. /\ SubSeq(s, m, n) \in Seq(D)
      /\ Len(SubSeq(s, m, n)) = IF m <= n THEN n - m + 1 ELSE 0
      /\ \A i \in 1..(n - m + 1) : SubSeq(s, m, n)[i] = s[m + i - 1]
  <2>1. \A i \in m..n : s[i] \in D
    BY <1>0
  <2>2. m \in Int /\ n \in Int
    BY <1>0
  <2> QED
    BY <2>1, <2>2, SubSeqProperties
<1>2. DOMAIN SubSeq(s, m, n) = 1..(n - m + 1)
  <2>1. DOMAIN SubSeq(s, m, n) = 1..Len(SubSeq(s, m, n))
    BY <1>1, LenProperties
  <2> QED
    BY <1>0, <1>1, <2>1
<1>3. \A i \in DOMAIN SubSeq(s, m, n) :
        m + i - 1 \in m..n /\ SubSeq(s, m, n)[i] = s[m + i - 1]
  BY <1>0, <1>1, <1>2
<1>4. \A k \in m..n : /\ k - m + 1 \in DOMAIN SubSeq(s, m, n)
                      /\ SubSeq(s, m, n)[k - m + 1] = s[k]
  <2> TAKE k \in m..n
  <2>1. k - m + 1 \in 1..(n - m + 1) /\ m + (k - m + 1) - 1 = k
    BY <1>0
  <2> QED
    BY <1>1, <1>2, <2>1
<1>5. ToSet(SubSeq(s, m, n)) = {s[k] : k \in m..n}
  <2>1. ToSet(SubSeq(s, m, n)) \subseteq {s[k] : k \in m..n}
    BY <1>3 DEF ToSet
  <2>2. {s[k] : k \in m..n} \subseteq ToSet(SubSeq(s, m, n))
    BY <1>4 DEF ToSet
  <2> QED
    BY <2>1, <2>2
<1>6. ASSUME Ascending(s) PROVE Ascending(SubSeq(s, m, n))
  <2> SUFFICES ASSUME NEW k \in DOMAIN SubSeq(s, m, n),
                      NEW l \in DOMAIN SubSeq(s, m, n), k < l
               PROVE  SubSeq(s, m, n)[k] < SubSeq(s, m, n)[l]
    BY DEF Ascending
  <2>1. /\ m + k - 1 \in DOMAIN s /\ m + l - 1 \in DOMAIN s
        /\ m + k - 1 < m + l - 1
    BY <1>0, <1>2
  <2> QED
    BY <1>3, <1>6, <2>1 DEF Ascending
<1> QED
  BY <1>1, <1>5, <1>6

\* What is left of an ascending queue when its first n are gone.
LEMMA RestFacts ==
  ASSUME NEW D, D \subseteq Nat, NEW s \in Seq(D), Ascending(s), NEW n \in 0..Len(s)
  PROVE  /\ SubSeq(s, n + 1, Len(s)) \in Seq(D)
         /\ Ascending(SubSeq(s, n + 1, Len(s)))
         /\ ToSet(SubSeq(s, n + 1, Len(s))) = ToSet(s) \ {s[k] : k \in 1..n}
         /\ Before({s[k] : k \in 1..n}, ToSet(SubSeq(s, n + 1, Len(s))))
<1>0. Len(s) \in Nat /\ DOMAIN s = 1..Len(s) /\ \A k \in 1..Len(s) : s[k] \in Nat
  BY LenProperties
<1>1. n + 1 \in 1..(Len(s) + 1) /\ Len(s) \in 0..Len(s)
  BY <1>0
<1>2. /\ SubSeq(s, n + 1, Len(s)) \in Seq(D)
      /\ Ascending(SubSeq(s, n + 1, Len(s)))
      /\ ToSet(SubSeq(s, n + 1, Len(s))) = {s[k] : k \in (n + 1)..Len(s)}
  BY <1>1, SubSeqFacts
<1>3. \A k \in 1..n, l \in (n + 1)..Len(s) : s[k] < s[l]
  <2> TAKE k \in 1..n, l \in (n + 1)..Len(s)
  <2>1. k \in DOMAIN s /\ l \in DOMAIN s /\ k < l
    BY <1>0
  <2> QED
    BY <2>1 DEF Ascending
<1>4. Before({s[k] : k \in 1..n}, {s[k] : k \in (n + 1)..Len(s)})
  BY <1>3 DEF Before
<1>5. ToSet(s) = {s[k] : k \in 1..n} \cup {s[k] : k \in (n + 1)..Len(s)}
  <2>1. DOMAIN s = 1..n \cup (n + 1)..Len(s)
    BY <1>0
  <2> QED
    BY <2>1, Zenon DEF ToSet
<1>6. \A x \in {s[k] : k \in 1..n} : x \notin {s[k] : k \in (n + 1)..Len(s)}
  <2>1. \A k \in 1..n, l \in (n + 1)..Len(s) : s[k] # s[l]
    BY <1>0, <1>3
  <2> QED
    BY <2>1
<1>7. ToSet(SubSeq(s, n + 1, Len(s))) = ToSet(s) \ {s[k] : k \in 1..n}
  <2> DEFINE front == {s[k] : k \in 1..n}
             rest == {s[k] : k \in (n + 1)..Len(s)}
  <2>1. ToSet(s) = front \cup rest /\ \A x \in front : x \notin rest
    BY <1>5, <1>6
  <2>2. ToSet(SubSeq(s, n + 1, Len(s))) = rest
    BY <1>2
  <2> HIDE DEF front, rest
  <2>3. rest = ToSet(s) \ front
    BY <2>1
  <2> QED
    BY <2>2, <2>3, Zenon DEF front
<1>8. Before({s[k] : k \in 1..n}, ToSet(SubSeq(s, n + 1, Len(s))))
  BY <1>2, <1>4, Zenon
<1> QED
  BY <1>2, <1>7, <1>8, Zenon

LEMMA HeadAndTail ==
  ASSUME NEW D, D \subseteq Nat, NEW s \in Seq(D), s # <<>>
  PROVE  /\ Head(s) \in D
         /\ Tail(s) \in Seq(D)
         /\ Len(Tail(s)) = Len(s) - 1
         /\ ToSet(s) = {Head(s)} \cup ToSet(Tail(s))
         /\ Ascending(s) => Ascending(Tail(s)) /\ Before({Head(s)}, ToSet(Tail(s)))
<1>1. /\ Head(s) \in D /\ Tail(s) \in Seq(D) /\ Len(Tail(s)) = Len(s) - 1
      /\ <<Head(s)>> \in Seq(D)
  BY HeadTailProperties, AppendFacts, EmptySeq
<1>2. s = <<Head(s)>> \o Tail(s)
  <2>1. Len(s) \in Nat \ {0} /\ \A i \in 1..Len(s) : s[i] \in D
    BY EmptySeq, LenProperties
  <2> QED
    BY <1>1, <2>1
<1>3. ToSet(<<Head(s)>>) = {Head(s)}
  BY <1>1, EmptySeq, AppendFacts
<1>4. ToSet(<<Head(s)>> \o Tail(s)) = ToSet(<<Head(s)>>) \cup ToSet(Tail(s))
  <2> DEFINE h == <<Head(s)>>
             tl == Tail(s)
  <2>1. h \in Seq(D) /\ tl \in Seq(D)
    BY <1>1
  <2> HIDE DEF h, tl
  <2>2. ToSet(h \o tl) = ToSet(h) \cup ToSet(tl)
    BY <2>1, ToSetConcat
  <2> QED
    BY <2>2 DEF h, tl
<1>5. Ascending(s) => Ascending(Tail(s)) /\ Before(ToSet(<<Head(s)>>), ToSet(Tail(s)))
  <2>1. <<Head(s)>> \in Seq(Nat) /\ Tail(s) \in Seq(Nat)
    BY <1>1, SeqMonotonic
  <2>2. Ascending(<<Head(s)>> \o Tail(s)) =>
          Ascending(Tail(s)) /\ Before(ToSet(<<Head(s)>>), ToSet(Tail(s)))
    BY <2>1, AscendingConcat
  <2> QED
    BY <1>2, <2>2, Zenon
<1>6. ToSet(s) = {Head(s)} \cup ToSet(Tail(s))
  BY <1>2, <1>3, <1>4, Zenon
<1> QED
  BY <1>1, <1>3, <1>5, <1>6

\* RemoveFirst takes out one element and leaves the others where they are.
LEMMA RemoveFirstFacts ==
  ASSUME NEW D, NEW s \in Seq(D), NEW e
  PROVE  /\ RemoveFirst(s, e) \in Seq(D)
         /\ D \subseteq Nat /\ Ascending(s) =>
              /\ Ascending(RemoveFirst(s, e))
              /\ ToSet(RemoveFirst(s, e)) = ToSet(s) \ {e}
<1>0. Len(s) \in Nat /\ DOMAIN s = 1..Len(s) /\ \A k \in 1..Len(s) : s[k] \in D
  BY LenProperties
<1>1. CASE \E i \in 1..Len(s) : s[i] = e
  <2> DEFINE found == {i \in 1..Len(s) : s[i] = e}
             i == Min(found)
             low == SubSeq(s, 1, i - 1)
             high == SubSeq(s, i + 1, Len(s))
  <2>1. i \in 1..Len(s) /\ s[i] = e
    <3>1. found \subseteq Nat /\ found # {}
      BY <1>1
    <3>2. i \in found
      BY <3>1, LeastNatural
    <3> QED
      BY <3>2
  <2>2. RemoveFirst(s, e) = low \o high
    <3>1. found # {}
      BY <1>1
    <3> QED
      BY <1>1, <3>1 DEF RemoveFirst, RemoveAt, SelectInSeq
  <2> HIDE DEF i
  <2>3. /\ 1 \in 1..(Len(s) + 1) /\ i - 1 \in 0..Len(s)
        /\ i + 1 \in 1..(Len(s) + 1) /\ Len(s) \in 0..Len(s)
    BY <1>0, <2>1
  <2>4. /\ low \in Seq(D)
        /\ ToSet(low) = {s[k] : k \in 1..(i - 1)}
        /\ Ascending(s) => Ascending(low)
    BY <2>3, SubSeqFacts
  <2>5. /\ high \in Seq(D)
        /\ ToSet(high) = {s[k] : k \in (i + 1)..Len(s)}
        /\ Ascending(s) => Ascending(high)
    BY <2>3, SubSeqFacts
  <2> HIDE DEF low, high
  <2>6. low \o high \in Seq(D) /\ ToSet(low \o high) = ToSet(low) \cup ToSet(high)
    BY <2>4, <2>5, ToSetConcat, ConcatProperties
  <2>7. ASSUME D \subseteq Nat, Ascending(s)
        PROVE  Ascending(low \o high) /\ ToSet(low \o high) = ToSet(s) \ {e}
    <3>1. low \in Seq(Nat) /\ high \in Seq(Nat)
      BY <2>4, <2>5, <2>7, SeqMonotonic
    <3>2. \A k \in 1..(i - 1), l \in (i + 1)..Len(s) : s[k] < s[l]
      <4> TAKE k \in 1..(i - 1), l \in (i + 1)..Len(s)
      <4>1. k \in DOMAIN s /\ l \in DOMAIN s /\ k < l
        BY <1>0, <2>1
      <4> QED
        BY <2>7, <4>1 DEF Ascending
    <3>3. Before(ToSet(low), ToSet(high))
      BY <2>4, <2>5, <3>2 DEF Before
    <3>4. Ascending(low \o high)
      BY <2>4, <2>5, <2>7, <3>1, <3>3, AscendingConcat
    <3>5. \A k \in 1..Len(s) : k # i => s[k] # e
      <4> TAKE k \in 1..Len(s)
      <4>1. s[k] \in Nat /\ s[i] \in Nat /\ k \in DOMAIN s /\ i \in DOMAIN s
        BY <1>0, <2>1, <2>7
      <4>2. k < i => s[k] < s[i]
        BY <2>7, <4>1 DEF Ascending
      <4>3. i < k => s[i] < s[k]
        BY <2>7, <4>1 DEF Ascending
      <4> QED
        BY <2>1, <4>1, <4>2, <4>3
    <3>6. 1..Len(s) = 1..(i - 1) \cup {i} \cup (i + 1)..Len(s)
          /\ i \notin 1..(i - 1) /\ i \notin (i + 1)..Len(s)
      BY <1>0, <2>1
    <3>7. ToSet(s) = {s[k] : k \in 1..Len(s)}
      BY <1>0, Zenon DEF ToSet
    <3>8. ToSet(s) \ {e} = {s[k] : k \in 1..(i - 1)} \cup {s[k] : k \in (i + 1)..Len(s)}
      BY <2>1, <3>5, <3>6, <3>7, Zenon
    <3> QED
      BY <2>4, <2>5, <2>6, <3>4, <3>8, Zenon
  <2> QED
    BY <2>2, <2>6, <2>7, Zenon
<1>2. CASE ~\E i \in 1..Len(s) : s[i] = e
  <2>1. RemoveFirst(s, e) = s
    BY <1>2 DEF RemoveFirst
  <2>2. e \notin ToSet(s)
    BY <1>0, <1>2 DEF ToSet
  <2> QED
    BY <2>1, <2>2
<1> QED
  BY <1>1, <1>2
-----------------------------------------------------------------------------
(* Pending sends on their way *)

\* The recursion of Delivered has a solution for a queue of every length.
LEMMA ValuesExist ==
  ASSUME NEW m \in Nat
  PROVE  \E f : f = [n \in 0..m |->
                       IF n = 0 THEN <<>>
                       ELSE IF Deliverable(pending[n])
                       THEN Append(f[n - 1], pending[n])
                       ELSE f[n - 1]]
<1> DEFINE Step(f, n) == IF n = 0 THEN <<>>
                         ELSE IF Deliverable(pending[n])
                         THEN Append(f[n - 1], pending[n])
                         ELSE f[n - 1]
           Solved == {k \in 0..m : \E f : f = [n \in 0..k |-> Step(f, n)]}
<1>1. 0 \in Solved
  <2> DEFINE f == [n \in 0..0 |-> <<>>]
  <2>1. \A n \in 0..0 : Step(f, n) = <<>>
    OBVIOUS
  <2>2. f = [n \in 0..0 |-> Step(f, n)]
    <3> HIDE DEF Step
    <3> QED
      BY <2>1
  <2>3. 0 \in 0..m
    OBVIOUS
  <2> HIDE DEF f, Step
  <2> QED
    BY <2>2, <2>3
<1>2. ASSUME NEW k \in 0..(m - 1), k \in Solved
      PROVE  k + 1 \in Solved
  <2>1. PICK f : f = [n \in 0..k |-> Step(f, n)]
    BY <1>2
  <2> DEFINE g == [n \in 0..(k + 1) |-> IF n = k + 1 THEN Step(f, n) ELSE f[n]]
  <2>2. ASSUME NEW n \in 0..(k + 1)
        PROVE  g[n] = Step(g, n)
    <3>1. CASE n = 0
      <4>1. g[n] = f[n] /\ n \in 0..k
        BY <3>1
      <4>2. f[n] = Step(f, n)
        BY <2>1, <4>1
      <4> QED
        BY <3>1, <4>1, <4>2
    <3>2. CASE n # 0
      <4>1. n - 1 \in 0..k /\ n - 1 \in 0..(k + 1) /\ n - 1 # k + 1
        BY <3>2
      <4>2. g[n - 1] = f[n - 1]
        BY <4>1
      <4>3. g[n] = Step(f, n)
        <5>1. CASE n = k + 1
          BY <5>1
        <5>2. CASE n # k + 1
          <6>1. n \in 0..k /\ g[n] = f[n]
            BY <5>2
          <6> HIDE DEF g
          <6> QED
            BY <2>1, <6>1
        <5> QED
          BY <5>1, <5>2
      <4> HIDE DEF g
      <4> QED
        BY <3>2, <4>2, <4>3
    <3> QED
      BY <3>1, <3>2
  <2>3. g = [n \in 0..(k + 1) |-> Step(g, n)]
    <3>1. g = [n \in 0..(k + 1) |-> g[n]]
      OBVIOUS
    <3> HIDE DEF g, Step
    <3> QED
      BY <2>2, <3>1
  <2>4. k + 1 \in 0..m
    OBVIOUS
  <2> HIDE DEF g, Step
  <2> QED
    BY <2>3, <2>4
<1>3. \A k \in 0..m : k \in Solved
  <2> HIDE DEF Solved
  <2> QED
    BY <1>1, <1>2, CountingUp
<1>4. m \in Solved
  BY <1>3
<1> QED
  BY <1>4

LEMMA DeliveredUnfolds ==
  ASSUME pending \in Seq(Numbers)
  PROVE  \A n \in 0..Len(pending) :
           Delivered[n] = IF n = 0 THEN <<>>
                          ELSE IF Deliverable(pending[n])
                          THEN Append(Delivered[n - 1], pending[n])
                          ELSE Delivered[n - 1]
<1>1. Len(pending) \in Nat
  BY LenProperties
<1>2. Delivered = [n \in 0..Len(pending) |->
                     IF n = 0 THEN <<>>
                     ELSE IF Deliverable(pending[n])
                     THEN Append(Delivered[n - 1], pending[n])
                     ELSE Delivered[n - 1]]
  BY <1>1, ValuesExist, Zenon DEF Delivered
<1> QED
  BY <1>2

LEMMA DeliveredNext ==
  ASSUME pending \in Seq(Numbers)
  PROVE  /\ Delivered[0] = <<>>
         /\ \A n \in 0..(Len(pending) - 1) :
              Delivered[n + 1] = IF Deliverable(pending[n + 1])
                                 THEN Append(Delivered[n], pending[n + 1])
                                 ELSE Delivered[n]
<1>1. Len(pending) \in Nat
  BY LenProperties
<1>2. Delivered[0] = <<>>
  BY <1>1, DeliveredUnfolds
<1>3. ASSUME NEW n \in 0..(Len(pending) - 1)
      PROVE  Delivered[n + 1] = IF Deliverable(pending[n + 1])
                                THEN Append(Delivered[n], pending[n + 1])
                                ELSE Delivered[n]
  <2>1. n + 1 \in 0..Len(pending) /\ n + 1 # 0 /\ (n + 1) - 1 = n
    BY <1>1
  <2> QED
    BY <2>1, DeliveredUnfolds, Zenon
<1> QED
  BY <1>2, <1>3

\* What a loop over the first n pending sends delivers: the sends among them that
\* can be committed, in their order.
LEMMA DeliveredFacts ==
  ASSUME pending \in Seq(Numbers), Ascending(pending), MaxSends \in Nat
  PROVE  \A n \in 0..Len(pending) :
           /\ Delivered[n] \in Seq(Numbers)
           /\ ToSet(Delivered[n]) = {i \in Left(n) : Deliverable(i)}
           /\ Ascending(Delivered[n])
<1> DEFINE Good(n) ==
             /\ Delivered[n] \in Seq(Numbers)
             /\ ToSet(Delivered[n]) = {i \in Left(n) : Deliverable(i)}
             /\ Ascending(Delivered[n])
           Goods == {n \in 0..Len(pending) : Good(n)}
<1>0. Len(pending) \in Nat /\ DOMAIN pending = 1..Len(pending)
      /\ \A k \in 1..Len(pending) : pending[k] \in Numbers
  BY LenProperties
<1>1. 0 \in Goods
  <2>1. Delivered[0] = <<>>
    BY DeliveredNext
  <2>2. <<>> \in Seq(Numbers) /\ Left(0) = {} /\ DOMAIN <<>> = {}
    BY DEF Left
  <2>3. ToSet(<<>>) = {} /\ Ascending(<<>>)
    BY <2>2, Zenon DEF ToSet, Ascending
  <2>4. Good(0)
    BY <2>1, <2>2, <2>3
  <2>5. 0 \in 0..Len(pending)
    BY <1>0
  <2> QED
    BY <2>4, <2>5
<1>2. ASSUME NEW n \in 0..(Len(pending) - 1), n \in Goods
      PROVE  n + 1 \in Goods
  <2>1. n + 1 \in 1..Len(pending) /\ n \in 0..Len(pending) /\ n + 1 \in 0..Len(pending)
    BY <1>0
  <2>2. Good(n)
    BY <1>2
  <2>3. Left(n + 1) = Left(n) \cup {pending[n + 1]}
    <3>1. 1..(n + 1) = 1..n \cup {n + 1}
      BY <2>1
    <3> QED
      BY <3>1, Zenon DEF Left
  <2>4. CASE Deliverable(pending[n + 1])
    <3>1. Delivered[n + 1] = Append(Delivered[n], pending[n + 1])
      BY <2>4, DeliveredNext
    <3>2. pending[n + 1] \in Numbers
      BY <1>0, <2>1
    <3>3. /\ Delivered[n + 1] = Delivered[n] \o <<pending[n + 1]>>
          /\ Delivered[n + 1] \in Seq(Numbers)
          /\ <<pending[n + 1]>> \in Seq(Numbers)
          /\ ToSet(<<pending[n + 1]>>) = {pending[n + 1]}
          /\ ToSet(Delivered[n + 1]) = ToSet(Delivered[n]) \cup {pending[n + 1]}
      BY <2>2, <3>1, <3>2, AppendFacts
    <3>4. Before(ToSet(Delivered[n]), {pending[n + 1]})
      <4>1. \A i \in Left(n) : i < pending[n + 1]
        BY <1>0, <2>1 DEF Left, Ascending
      <4>2. \A i \in ToSet(Delivered[n]) : i < pending[n + 1]
        BY <2>2, <4>1, Zenon
      <4> QED
        BY <4>2 DEF Before
    <3>5. Ascending(Delivered[n + 1])
      <4>1. Seq(Numbers) \subseteq Seq(Nat)
        BY SeqMonotonic DEF Numbers
      <4>2. Ascending(<<pending[n + 1]>>)
        BY DEF Ascending
      <4>3. Delivered[n] \in Seq(Nat) /\ <<pending[n + 1]>> \in Seq(Nat)
        BY <2>2, <3>3, <4>1, Zenon
      <4>4. Before(ToSet(Delivered[n]), ToSet(<<pending[n + 1]>>))
        BY <3>3, <3>4, Zenon
      <4>5. Ascending(Delivered[n] \o <<pending[n + 1]>>)
        BY <2>2, <4>2, <4>3, <4>4, AscendingConcat, Zenon
      <4> QED
        BY <3>3, <4>5, Zenon
    <3> QED
      BY <2>1, <2>2, <2>3, <2>4, <3>3, <3>5
  <2>5. CASE ~Deliverable(pending[n + 1])
    <3>1. Delivered[n + 1] = Delivered[n]
      BY <2>5, DeliveredNext
    <3> QED
      BY <2>1, <2>2, <2>3, <2>5, <3>1
  <2> QED
    BY <2>4, <2>5
<1>3. \A n \in 0..Len(pending) : n \in Goods
  <2> HIDE DEF Goods
  <2> QED
    BY <1>0, <1>1, <1>2, CountingUp
<1> QED
  BY <1>3

\* What leaves the queue fits in the room there is.
LEMMA LeavingFits ==
  ASSUME pending \in Seq(Numbers), Ascending(pending), MaxSends \in Nat,
         NEW room \in Nat
  PROVE  /\ Leaving(room) \in 0..Len(pending)
         /\ Len(Delivered[Leaving(room)]) <= room
<1> DEFINE Ends == {n \in 0..Len(pending) : Len(Delivered[n]) = room}
                     \cup {Len(pending)}
           Fitting == {n \in 0..Min(Ends) : Len(Delivered[n]) <= room}
<1>0. Len(pending) \in Nat
  BY LenProperties
<1>1. Delivered[0] = <<>> /\ Len(Delivered[0]) = 0
  BY <1>0, DeliveredNext
<1>2. CASE ~Accepting
  BY <1>0, <1>1, <1>2 DEF Leaving
<1>3. CASE Accepting
  <2>1. Leaving(room) = Min(Ends)
    BY <1>3 DEF Leaving
  <2>2. Min(Ends) \in Ends /\ \A n \in Ends : Min(Ends) <= n
    <3>1. Ends \subseteq Nat /\ Ends # {}
      BY <1>0
    <3> QED
      BY <3>1, LeastNatural
  <2>3. Min(Ends) \in 0..Len(pending)
    BY <1>0, <2>2
  <2>4. 0 \in Fitting
    BY <1>1, <2>3
  <2>5. ASSUME NEW n \in 0..(Min(Ends) - 1), n \in Fitting
        PROVE  n + 1 \in Fitting
    <3>1. n \in 0..Len(pending) /\ n + 1 \in 1..Len(pending)
          /\ n + 1 \in 0..Len(pending) /\ n + 1 \in 0..Min(Ends)
      BY <2>3
    <3>2. Len(Delivered[n]) <= room /\ Len(Delivered[n]) # room
      <4>1. n \notin Ends
        BY <2>2, <2>3, <3>1
      <4> QED
        BY <2>5, <3>1, <4>1
    <3>3. Delivered[n] \in Seq(Numbers) /\ Len(Delivered[n]) \in Nat
      BY <3>1, DeliveredFacts, LenProperties
    <3>4. Delivered[n + 1] = Append(Delivered[n], pending[n + 1])
          \/ Delivered[n + 1] = Delivered[n]
      <4>1. n \in 0..(Len(pending) - 1)
        BY <3>1
      <4> QED
        BY <4>1, DeliveredNext
    <3>5. Len(Append(Delivered[n], pending[n + 1])) = Len(Delivered[n]) + 1
      BY <3>3
    <3>6. Len(Delivered[n + 1]) <= room
      BY <3>2, <3>3, <3>4, <3>5
    <3> QED
      BY <3>1, <3>6
  <2>6. Min(Ends) \in Fitting
    <3>1. Min(Ends) \in Nat
      BY <2>3
    <3>2. \A n \in 0..Min(Ends) : n \in Fitting
      <4> HIDE DEF Ends, Fitting
      <4> QED
        BY <2>4, <2>5, <3>1, CountingUp
    <3>3. Min(Ends) \in 0..Min(Ends)
      <4> HIDE DEF Ends
      <4> QED
        BY <3>1
    <3> QED
      BY <3>2, <3>3, Zenon
  <2>7. Len(Delivered[Min(Ends)]) <= room
    BY <2>6
  <2> QED
    <3> HIDE DEF Ends, Fitting
    <3> QED
      BY <2>1, <2>3, <2>7
<1> QED
  BY <1>2, <1>3
-----------------------------------------------------------------------------
(* Moving values keeps the books *)

Passed(n) == {i \in Left(n) : Deliverable(i)}

LEMMA LeftPending ==
  ASSUME TypeOK, NEW n \in 0..Len(pending)
  PROVE  Left(n) \subseteq ToSet(pending)
<1>1. Len(pending) \in Nat /\ DOMAIN pending = 1..Len(pending)
  BY LenProperties DEF TypeOK
<1> QED
  BY <1>1 DEF Left, ToSet

\* What is known of a send when its slot lets it be committed.
LEMMA CommittableHeld ==
  ASSUME Types(sent, slot, call), Awaited(sent, call), Carried(sent, slot),
         Held(sent, slot, call),
         NEW i \in DOMAIN sent, sent[i].state = "pending", Deliverable(i),
         sent[i].slot # None
  PROVE  /\ sent[i].slot \in Slots
         /\ sent[i].by \in Procs
         /\ slot[sent[i].slot].holder = sent[i].by
         /\ slot[sent[i].slot].state = "Reserved"
         /\ sent[i].content = slot[sent[i].slot].content
         /\ call[sent[i].by].id = i
<1>1. sent[i] \in SendRecord
  BY LenProperties DEF Types
<1>2. /\ sent[i].slot \in Slots /\ sent[i].by \in Procs /\ sent[i].by # None
      /\ slot[sent[i].slot].holder = sent[i].by
  BY <1>1, NoneIsNothing DEF SendRecord, Deliverable, Committable
<1>3. slot[sent[i].slot].state = "Reserved"
  BY <1>2 DEF Held
<1>4. sent[i].content = slot[sent[i].slot].content
  BY <1>2 DEF Carried
<1>5. call[sent[i].by].id = i
  BY DEF Awaited, Unanswered
<1> QED
  BY <1>2, <1>3, <1>4, <1>5

LEMMA SentAfterFacts ==
  ASSUME sent \in Seq(SendRecord), NEW n
  PROVE  /\ SentAfter(n) \in Seq(SendRecord)
         /\ Len(SentAfter(n)) = Len(sent)
         /\ DOMAIN SentAfter(n) = DOMAIN sent
         /\ \A i \in DOMAIN sent :
              /\ SentAfter(n)[i].by = sent[i].by
              /\ SentAfter(n)[i].slot = sent[i].slot
              /\ SentAfter(n)[i].content = sent[i].content
              /\ SentAfter(n)[i].state = IF i \in Passed(n) THEN "consumed"
                                         ELSE IF i \in Left(n) THEN "failed"
                                         ELSE sent[i].state
<1>1. /\ Len(sent) \in Nat /\ DOMAIN sent = 1..Len(sent)
      /\ \A i \in DOMAIN sent : sent[i] \in SendRecord
  BY LenProperties
<1>2. /\ DOMAIN SentAfter(n) = DOMAIN sent
      /\ \A i \in DOMAIN sent : SentAfter(n)[i] =
           IF i \in Left(n)
           THEN [sent[i] EXCEPT !.state = IF Deliverable(i) THEN "consumed"
                                                            ELSE "failed"]
           ELSE sent[i]
  BY DEF SentAfter
<1>3. ASSUME NEW i \in DOMAIN sent
      PROVE  /\ SentAfter(n)[i] \in SendRecord
             /\ SentAfter(n)[i].by = sent[i].by
             /\ SentAfter(n)[i].slot = sent[i].slot
             /\ SentAfter(n)[i].content = sent[i].content
             /\ SentAfter(n)[i].state = IF i \in Passed(n) THEN "consumed"
                                        ELSE IF i \in Left(n) THEN "failed"
                                        ELSE sent[i].state
  <2>1. sent[i] \in SendRecord
    BY <1>1
  <2>2. "consumed" \in SendStates /\ "failed" \in SendStates
    BY DEF SendStates
  <2> QED
    BY <1>2, <2>1, <2>2 DEF SendRecord, Passed
<1>4. SentAfter(n) \in Seq(SendRecord) /\ Len(SentAfter(n)) = Len(sent)
  <2>1. SentAfter(n) \in [1..Len(sent) -> SendRecord]
    BY <1>1, <1>2, <1>3 DEF SentAfter
  <2> QED
    BY <1>1, <2>1
<1> QED
  BY <1>2, <1>3, <1>4

LEMMA SlotAfterFacts ==
  ASSUME slot \in [Slots -> SlotRecord], NEW n
  PROVE  /\ SlotAfter(n) \in [Slots -> SlotRecord]
         /\ \A s \in Slots :
              IF \E i \in Passed(n) : sent[i].slot = s
              THEN /\ SlotAfter(n)[s].state = "Moved"
                   /\ SlotAfter(n)[s].holder = None
                   /\ SlotAfter(n)[s].content = slot[s].content
              ELSE SlotAfter(n)[s] = slot[s]
<1>1. ASSUME NEW s \in Slots
      PROVE  /\ Committed(s) \in SlotRecord
             /\ Committed(s).state = "Moved"
             /\ Committed(s).holder = None
             /\ Committed(s).content = slot[s].content
  <2>1. slot[s] \in SlotRecord
    OBVIOUS
  <2> QED
    BY <2>1 DEF Committed, SlotRecord
<1>2. \A s \in Slots : SlotAfter(n)[s] = IF \E i \in Passed(n) : sent[i].slot = s
                                         THEN Committed(s) ELSE slot[s]
  BY DEF SlotAfter, Passed
<1>3. SlotAfter(n) \in [Slots -> SlotRecord]
  <2>1. \A s \in Slots : SlotAfter(n)[s] \in SlotRecord
    BY <1>1, <1>2
  <2> QED
    BY <2>1 DEF SlotAfter
<1> QED
  BY <1>1, <1>2, <1>3

\* n pending sends leave the queue: those that can be committed have their values
\* taken, the others have failed.
LEMMA LeaveBooks ==
  ASSUME Inv, NEW n \in 0..Len(pending)
  PROVE  Books(Taken \cup Passed(n), ToSet(pending) \ Left(n), SentAfter(n),
               SlotAfter(n), call)
<1> DEFINE snt == SentAfter(n)
           slt == SlotAfter(n)
<1>0. Books(Taken, ToSet(pending), sent, slot, call)
  BY DEF Inv
<1>1. /\ Types(sent, slot, call) /\ Lined(Taken, ToSet(pending), sent)
      /\ Awaited(sent, call) /\ Carried(sent, slot)
      /\ Owned(Taken, sent, slot) /\ Held(sent, slot, call)
  BY <1>0 DEF Books
<1>2. /\ Left(n) \subseteq ToSet(pending)
      /\ Left(n) \subseteq DOMAIN sent
      /\ \A i \in Left(n) : sent[i].state = "pending" /\ i \notin Taken
  <2>1. Left(n) \subseteq ToSet(pending)
    BY LeftPending DEF Inv
  <2> QED
    BY <1>1, <2>1 DEF Lined
<1>3. /\ Passed(n) \subseteq Left(n)
      /\ \A i \in Passed(n) : Deliverable(i)
  BY DEF Passed
<1>4. \A i \in Passed(n) : sent[i].slot # None =>
         /\ sent[i].slot \in Slots
         /\ sent[i].by \in Procs
         /\ slot[sent[i].slot].holder = sent[i].by
         /\ slot[sent[i].slot].state = "Reserved"
         /\ sent[i].content = slot[sent[i].slot].content
         /\ call[sent[i].by].id = i
  BY <1>1, <1>2, <1>3, CommittableHeld
<1>5. \A i, j \in Passed(n) :
        sent[i].slot # None /\ sent[i].slot = sent[j].slot => i = j
  BY <1>4
<1>6. /\ snt \in Seq(SendRecord)
      /\ DOMAIN snt = DOMAIN sent
      /\ \A i \in DOMAIN sent :
           /\ snt[i].by = sent[i].by
           /\ snt[i].slot = sent[i].slot
           /\ snt[i].content = sent[i].content
           /\ snt[i].state = IF i \in Passed(n) THEN "consumed"
                             ELSE IF i \in Left(n) THEN "failed"
                             ELSE sent[i].state
  BY <1>1, SentAfterFacts DEF Types
<1>7. /\ slt \in [Slots -> SlotRecord]
      /\ \A s \in Slots :
           IF \E i \in Passed(n) : sent[i].slot = s
           THEN /\ slt[s].state = "Moved"
                /\ slt[s].holder = None
                /\ slt[s].content = slot[s].content
           ELSE slt[s] = slot[s]
  BY <1>1, SlotAfterFacts DEF Types
<1>8. \A i \in DOMAIN sent : sent[i] \in SendRecord
  BY <1>1, LenProperties DEF Types
<1> HIDE DEF snt, slt
<1>9. Types(snt, slt, call)
  BY <1>1, <1>6, <1>7 DEF Types
<1>10. Lined(Taken \cup Passed(n), ToSet(pending) \ Left(n), snt)
  BY <1>1, <1>2, <1>3, <1>6 DEF Lined
<1>11. Awaited(snt, call)
  BY <1>1, <1>2, <1>3, <1>6 DEF Awaited, Unanswered
<1>12. Carried(snt, slt)
  <2> SUFFICES ASSUME NEW i \in DOMAIN sent, sent[i].slot # None
               PROVE  /\ sent[i].content <= slt[sent[i].slot].content
                      /\ (/\ snt[i].state = "pending"
                          /\ slt[sent[i].slot].holder = sent[i].by) =>
                           sent[i].content = slt[sent[i].slot].content
    BY <1>6 DEF Carried
  <2>1. sent[i].slot \in Slots /\ sent[i].by # None
    BY <1>8, NoneIsNothing DEF SendRecord
  <2>2. /\ sent[i].content <= slot[sent[i].slot].content
        /\ (sent[i].state = "pending" /\ slot[sent[i].slot].holder = sent[i].by) =>
             sent[i].content = slot[sent[i].slot].content
    BY <1>1 DEF Carried
  <2>3. slt[sent[i].slot].content = slot[sent[i].slot].content
    BY <1>7, <2>1
  <2>4. snt[i].state = "pending" => sent[i].state = "pending"
    BY <1>6
  <2>5. slt[sent[i].slot].holder = sent[i].by => slot[sent[i].slot].holder = sent[i].by
    BY <1>7, <2>1
  <2> QED
    BY <2>2, <2>3, <2>4, <2>5
<1>13. Owned(Taken \cup Passed(n), snt, slt)
  <2>1. Taken \cup Passed(n) \subseteq DOMAIN sent
    BY <1>1, <1>2, <1>3 DEF Lined
  <2>2. ASSUME NEW s \in Slots
        PROVE  (slt[s].state = "Moved") =
                 \E i \in Taken \cup Passed(n) :
                   snt[i].slot = s /\ snt[i].content = slt[s].content
    <3>1. s # None
      BY NoneIsNothing
    <3>2. slt[s].content = slot[s].content
      BY <1>7
    <3>3. CASE \E i \in Passed(n) : sent[i].slot = s
      <4>1. PICK i \in Passed(n) : sent[i].slot = s
        BY <3>3
      <4>2. slt[s].state = "Moved"
        BY <1>7, <4>1
      <4>3. i \in DOMAIN sent /\ sent[i].content = slot[s].content
        BY <1>4, <2>1, <3>1, <4>1
      <4>4. snt[i].slot = s /\ snt[i].content = slt[s].content
        BY <1>6, <3>2, <4>1, <4>3
      <4> QED
        BY <4>1, <4>2, <4>4
    <3>4. CASE ~\E i \in Passed(n) : sent[i].slot = s
      <4>1. slt[s] = slot[s]
        BY <1>7, <3>4
      <4>2. (slot[s].state = "Moved") =
              \E i \in Taken : sent[i].slot = s /\ sent[i].content = slot[s].content
        BY <1>1 DEF Owned
      <4>3. \A i \in Taken \cup Passed(n) :
              snt[i].slot = s /\ snt[i].content = slt[s].content
                <=> sent[i].slot = s /\ sent[i].content = slot[s].content
        BY <1>6, <2>1, <4>1
      <4>4. \A i \in Passed(n) : sent[i].slot # s
        BY <3>4
      <4> HIDE DEF snt, slt
      <4> QED
        BY <4>1, <4>2, <4>3, <4>4
    <3> QED
      BY <3>3, <3>4
  <2>3. ASSUME NEW i \in Taken \cup Passed(n), NEW j \in Taken \cup Passed(n),
               sent[i].slot # None, sent[i].slot = sent[j].slot,
               sent[i].content = sent[j].content
        PROVE  i = j
    <3>1. \A k \in Passed(n), l \in Taken :
            ~(/\ sent[k].slot # None
              /\ sent[l].slot = sent[k].slot
              /\ sent[l].content = sent[k].content)
      <4> SUFFICES ASSUME NEW k \in Passed(n), NEW l \in Taken,
                          sent[k].slot # None, sent[l].slot = sent[k].slot,
                          sent[l].content = sent[k].content
                   PROVE  FALSE
        OBVIOUS
      <4>1. /\ sent[k].slot \in Slots
            /\ slot[sent[k].slot].state = "Reserved"
            /\ sent[l].content = slot[sent[k].slot].content
        BY <1>4
      <4>2. slot[sent[k].slot].state = "Moved"
        BY <1>1, <4>1 DEF Owned
      <4> QED
        BY <4>1, <4>2
    <3>2. CASE i \in Taken /\ j \in Taken
      BY <1>1, <2>3, <3>2 DEF Owned
    <3>3. CASE i \in Passed(n) /\ j \in Passed(n)
      BY <1>5, <2>3, <3>3
    <3> QED
      BY <2>3, <3>1, <3>2, <3>3
  <2> QED
    BY <1>6, <2>1, <2>2, <2>3 DEF Owned
<1>14. Held(snt, slt, call)
  <2> SUFFICES ASSUME NEW s \in Slots
               PROVE  /\ (slt[s].state = "Reserved") = (slt[s].holder # None)
                      /\ slt[s].holder # None =>
                           /\ call[slt[s].holder].slot = s
                           /\ \/ call[slt[s].holder].pc = "reserved"
                              \/ /\ call[slt[s].holder].pc = "send"
                                 /\ snt[call[slt[s].holder].id].state = "pending"
    BY DEF Held
  <2>1. CASE \E i \in Passed(n) : sent[i].slot = s
    BY <1>7, <2>1
  <2>2. CASE ~\E i \in Passed(n) : sent[i].slot = s
    <3>1. slt[s] = slot[s]
      BY <1>7, <2>2
    <3>2. /\ (slot[s].state = "Reserved") = (slot[s].holder # None)
          /\ slot[s].holder # None =>
               /\ call[slot[s].holder].slot = s
               /\ \/ call[slot[s].holder].pc = "reserved"
                  \/ /\ call[slot[s].holder].pc = "send"
                     /\ sent[call[slot[s].holder].id].state = "pending"
      BY <1>1 DEF Held
    <3>3. ASSUME slot[s].holder # None, call[slot[s].holder].pc = "send"
          PROVE  snt[call[slot[s].holder].id].state = "pending"
      <4> DEFINE p == slot[s].holder
      <4>1. p \in Procs
        BY <1>1, <3>3 DEF Types, SlotRecord
      <4>2. /\ call[p].id \in DOMAIN sent
            /\ sent[call[p].id].by = p
            /\ sent[call[p].id].slot = s
        BY <1>1, <3>2, <3>3, <4>1 DEF Awaited
      <4>3. Deliverable(call[p].id)
        BY <4>2 DEF Deliverable, Committable
      <4>4. call[p].id \notin Left(n)
        BY <2>2, <4>2, <4>3 DEF Passed
      <4> QED
        BY <1>3, <1>6, <3>2, <3>3, <4>2, <4>4
    <3> QED
      BY <3>1, <3>2, <3>3
  <2> QED
    BY <2>1, <2>2
<1> QED
  BY <1>9, <1>10, <1>11, <1>12, <1>13, <1>14 DEF Books, snt, slt
-----------------------------------------------------------------------------
(* What one caller does keeps the books *)

LEMMA SendTypes ==
  ASSUME NEW snt \in Seq(SendRecord), NEW i \in DOMAIN snt
  PROVE  /\ snt[i].by \in Procs
         /\ snt[i].slot \in Slots \cup {None}
         /\ snt[i].content \in Nat
         /\ snt[i].by # None
<1>1. snt[i] \in SendRecord
  BY LenProperties
<1> QED
  BY <1>1, NoneIsNothing, BoundsNat DEF SendRecord

LEMMA AppendedSend ==
  ASSUME NEW snt \in Seq(SendRecord), NEW r \in SendRecord
  PROVE  /\ Append(snt, r) \in Seq(SendRecord)
         /\ Len(snt) + 1 \in Nat
         /\ Len(snt) + 1 \notin DOMAIN snt
         /\ DOMAIN Append(snt, r) = DOMAIN snt \cup {Len(snt) + 1}
         /\ \A i \in DOMAIN snt : Append(snt, r)[i] = snt[i] /\ snt[i] \in SendRecord
         /\ Append(snt, r)[Len(snt) + 1] = r
<1>1. /\ Len(snt) \in Nat /\ DOMAIN snt = 1..Len(snt)
      /\ \A i \in DOMAIN snt : snt[i] \in SendRecord
  BY LenProperties
<1>2. /\ Append(snt, r) \in Seq(SendRecord)
      /\ Len(Append(snt, r)) = Len(snt) + 1
      /\ \A i \in 1..Len(snt) : Append(snt, r)[i] = snt[i]
      /\ Append(snt, r)[Len(snt) + 1] = r
  BY AppendProperties
<1>3. DOMAIN Append(snt, r) = 1..(Len(snt) + 1)
  BY <1>2, LenProperties
<1> QED
  BY <1>1, <1>2, <1>3

\* What the channel owns depends on what was taken and on what the slots had.
LEMMA OwnedKept ==
  ASSUME NEW T, NEW snt, NEW slt, NEW snt2, NEW slt2, Owned(T, snt, slt),
         \A i \in T : snt2[i].slot = snt[i].slot /\ snt2[i].content = snt[i].content,
         \A s \in Slots : /\ slt2[s].content = slt[s].content
                          /\ slt2[s].state = "Moved" <=> slt[s].state = "Moved"
  PROVE  Owned(T, snt2, slt2)
<1>1. ASSUME NEW s \in Slots
      PROVE  (slt2[s].state = "Moved") =
               \E i \in T : snt2[i].slot = s /\ snt2[i].content = slt2[s].content
  <2>1. (\E i \in T : snt2[i].slot = s /\ snt2[i].content = slt2[s].content)
          <=> (\E i \in T : snt[i].slot = s /\ snt[i].content = slt[s].content)
    OBVIOUS
  <2>2. slt[s].state = "Moved" <=>
          \E i \in T : snt[i].slot = s /\ snt[i].content = slt[s].content
    BY DEF Owned
  <2>3. slt2[s].state = "Moved" <=> slt[s].state = "Moved"
    OBVIOUS
  <2> QED
    BY <2>1, <2>2, <2>3
<1>2. ASSUME NEW i \in T, NEW j \in T, snt2[i].slot # None,
             snt2[i].slot = snt2[j].slot, snt2[i].content = snt2[j].content
      PROVE  i = j
  BY <1>2 DEF Owned
<1> QED
  BY <1>1, <1>2 DEF Owned

\* A send that is over when it is entered changes nothing.
LEMMA RefusedBooks ==
  ASSUME NEW T, NEW W, NEW snt, NEW slt, NEW cl, Books(T, W, snt, slt, cl),
         NEW r \in SendRecord, r.state = "refused",
         r.slot # None => r.content <= slt[r.slot].content
  PROVE  Books(T, W, Append(snt, r), slt, cl)
<1> DEFINE new == Append(snt, r)
           k == Len(snt) + 1
<1>1. /\ Types(snt, slt, cl) /\ Lined(T, W, snt) /\ Awaited(snt, cl)
      /\ Carried(snt, slt) /\ Owned(T, snt, slt) /\ Held(snt, slt, cl)
  BY DEF Books
<1>2. /\ new \in Seq(SendRecord) /\ k \notin DOMAIN snt
      /\ DOMAIN new = DOMAIN snt \cup {k}
      /\ \A i \in DOMAIN snt : new[i] = snt[i]
      /\ new[k] = r
  BY <1>1, AppendedSend DEF Types
<1> HIDE DEF new, k
<1>3. Types(new, slt, cl)
  BY <1>1, <1>2 DEF Types
<1>4. Lined(T, W, new)
  BY <1>1, <1>2 DEF Lined
<1>5. Awaited(new, cl)
  BY <1>1, <1>2 DEF Awaited, Unanswered
<1>6. Carried(new, slt)
  BY <1>1, <1>2 DEF Carried
<1>7. Owned(T, new, slt)
  <2>1. T \subseteq DOMAIN snt
    BY <1>1 DEF Lined
  <2>2. \A i \in T : new[i] = snt[i]
    BY <1>2, <2>1
  <2> QED
    BY <1>1, <2>2, OwnedKept
<1>8. Held(new, slt, cl)
  <2>1. \A s \in Slots : slt[s].holder # None => slt[s].holder \in Procs
    BY <1>1 DEF Types, SlotRecord
  <2>2. \A p \in Procs : cl[p].pc = "send" => new[cl[p].id] = snt[cl[p].id]
    BY <1>1, <1>2 DEF Awaited
  <2> QED
    BY <1>1, <2>1, <2>2 DEF Held
<1> QED
  BY <1>3, <1>4, <1>5, <1>6, <1>7, <1>8 DEF Books, new

\* p is about to send s: nothing (None), or the slot it has reserved.
About(p, s, calls) ==
  \/ calls[p].pc = "idle" /\ s = None
  \/ calls[p].pc = "reserved" /\ s = calls[p].slot

\* A caller that is about to send holds no other slot, and waits for no send.
LEMMA AboutFacts ==
  ASSUME NEW T, NEW W, NEW snt, NEW slt, NEW cl, Books(T, W, snt, slt, cl),
         NEW p \in Procs, NEW s, About(p, s, cl)
  PROVE  /\ s \in Slots \cup {None}
         /\ \A u \in Slots : slt[u].holder = p => u = s
         /\ \A i \in DOMAIN snt : snt[i].state \in Unanswered => snt[i].by # p
<1>1. /\ Types(snt, slt, cl) /\ Awaited(snt, cl) /\ Held(snt, slt, cl)
  BY DEF Books
<1>2. s \in Slots \cup {None}
  BY <1>1 DEF About, Awaited
<1>3. p # None
  BY NoneIsNothing
<1>4. ASSUME NEW u \in Slots, slt[u].holder = p PROVE u = s
  BY <1>1, <1>3, <1>4 DEF About, Held
<1>5. \A i \in DOMAIN snt : snt[i].state \in Unanswered => snt[i].by # p
  BY <1>1 DEF About, Awaited
<1> QED
  BY <1>2, <1>4, <1>5

\* release_move_reservation when p leaves with s.
LEMMA ReleaseBooks ==
  ASSUME NEW T, NEW W, NEW snt, NEW slt, NEW cl, Books(T, W, snt, slt, cl),
         NEW p \in Procs, NEW s, About(p, s, cl), NEW new \in [Slots -> SlotRecord],
         \A u \in Slots :
           IF u = s /\ slt[u].holder = p
           THEN /\ new[u].state = "Ready" /\ new[u].holder = None
                /\ new[u].content = slt[u].content
           ELSE new[u] = slt[u]
  PROVE  Books(T, W, snt, new, [cl EXCEPT ![p] = Idle])
<1> DEFINE cls == [cl EXCEPT ![p] = Idle]
<1>1. /\ Types(snt, slt, cl) /\ Lined(T, W, snt) /\ Awaited(snt, cl)
      /\ Carried(snt, slt) /\ Owned(T, snt, slt) /\ Held(snt, slt, cl)
  BY DEF Books
<1>2. /\ s \in Slots \cup {None}
      /\ \A u \in Slots : slt[u].holder = p => u = s
      /\ \A i \in DOMAIN snt : snt[i].state \in Unanswered => snt[i].by # p
      /\ p # None
  BY AboutFacts, NoneIsNothing
<1>3. /\ cls \in [Procs -> CallRecord] /\ cls[p] = Idle
      /\ \A q \in Procs : q # p => cls[q] = cl[q]
  <2>1. Idle \in CallRecord
    BY DEF Idle, CallRecord
  <2> QED
    BY <1>1, <2>1 DEF Types
<1>4. Idle.pc = "idle"
  BY DEF Idle
<1>5. \A i \in DOMAIN snt : snt[i] \in SendRecord
  BY <1>1, LenProperties DEF Types
<1> HIDE DEF cls
<1>6. Types(snt, new, cls)
  BY <1>1, <1>3 DEF Types
<1>7. Awaited(snt, cls)
  <2>1. \A i \in DOMAIN snt : snt[i].by \in Procs
    BY <1>5 DEF SendRecord
  <2> QED
    BY <1>1, <1>2, <1>3, <1>4, <2>1 DEF Awaited
<1>8. Carried(snt, new)
  <2>1. \A i \in DOMAIN snt : snt[i].slot \in Slots \cup {None} /\ snt[i].by # None
    BY <1>5, NoneIsNothing DEF SendRecord
  <2>2. \A u \in Slots : /\ new[u].content = slt[u].content
                         /\ new[u].holder # None => new[u] = slt[u]
    OBVIOUS
  <2> QED
    BY <1>1, <2>1, <2>2 DEF Carried
<1>9. Owned(T, snt, new)
  <2>1. \A u \in Slots : /\ new[u].content = slt[u].content
                         /\ new[u].state = "Moved" <=> slt[u].state = "Moved"
    BY <1>1, <1>2 DEF Held
  <2> QED
    BY <1>1, <2>1, OwnedKept
<1>10. Held(snt, new, cls)
  <2>1. ASSUME NEW u \in Slots, slt[u].holder # p
        PROVE  /\ (new[u].state = "Reserved") = (new[u].holder # None)
               /\ new[u].holder # None =>
                    /\ cls[new[u].holder].slot = u
                    /\ \/ cls[new[u].holder].pc = "reserved"
                       \/ /\ cls[new[u].holder].pc = "send"
                          /\ snt[cls[new[u].holder].id].state = "pending"
    <3>1. new[u] = slt[u]
      BY <2>1
    <3>2. slt[u].holder # None => slt[u].holder \in Procs
      BY <1>1 DEF Types, SlotRecord
    <3> QED
      BY <1>1, <1>3, <2>1, <3>1, <3>2 DEF Held
  <2>2. ASSUME NEW u \in Slots, slt[u].holder = p
        PROVE  new[u].state = "Ready" /\ new[u].holder = None
    BY <1>2, <2>2
  <2> QED
    BY <2>1, <2>2 DEF Held
<1> QED
  BY <1>1, <1>6, <1>7, <1>8, <1>9, <1>10 DEF Books, cls

\* p enters a send that has to wait.
LEMMA WaitBooks ==
  ASSUME NEW T, NEW W, NEW snt, NEW slt, NEW cl, Books(T, W, snt, slt, cl),
         NEW p \in Procs, NEW s, About(p, s, cl),
         NEW r \in SendRecord, r.by = p, r.slot = s, r.state = "pending",
         s # None => r.content = slt[s].content,
         NEW c \in CallRecord, c.pc = "send", c.id = Len(snt) + 1, c.slot = s
  PROVE  Books(T, W \cup {Len(snt) + 1}, Append(snt, r), slt, [cl EXCEPT ![p] = c])
<1> DEFINE new == Append(snt, r)
           k == Len(snt) + 1
           cls == [cl EXCEPT ![p] = c]
<1>1. /\ Types(snt, slt, cl) /\ Lined(T, W, snt) /\ Awaited(snt, cl)
      /\ Carried(snt, slt) /\ Owned(T, snt, slt) /\ Held(snt, slt, cl)
  BY DEF Books
<1>2. /\ new \in Seq(SendRecord) /\ k \notin DOMAIN snt
      /\ DOMAIN new = DOMAIN snt \cup {k}
      /\ \A i \in DOMAIN snt : new[i] = snt[i] /\ snt[i] \in SendRecord
      /\ new[k] = r
  BY <1>1, AppendedSend DEF Types
<1>3. /\ s \in Slots \cup {None}
      /\ \A u \in Slots : slt[u].holder = p => u = s
      /\ \A i \in DOMAIN snt : snt[i].state \in Unanswered => snt[i].by # p
      /\ p # None
  BY AboutFacts, NoneIsNothing
<1>4. /\ cls \in [Procs -> CallRecord] /\ cls[p] = c
      /\ \A q \in Procs : q # p => cls[q] = cl[q]
  BY <1>1 DEF Types
<1> HIDE DEF new, cls
<1>5. c.id = k
  OBVIOUS
<1> HIDE DEF k
<1>6. Types(new, slt, cls)
  BY <1>1, <1>2, <1>4 DEF Types
<1>7. Lined(T, W \cup {k}, new)
  BY <1>1, <1>2 DEF Lined
<1>8. Awaited(new, cls)
  <2>1. ASSUME NEW q \in Procs, cls[q].pc = "send"
        PROVE  /\ cls[q].id \in DOMAIN new
               /\ new[cls[q].id].state \in Unanswered
               /\ new[cls[q].id].by = q
               /\ new[cls[q].id].slot = cls[q].slot
    BY <1>1, <1>2, <1>4, <1>5, <2>1 DEF Awaited, Unanswered
  <2>2. ASSUME NEW i \in DOMAIN new, new[i].state \in Unanswered
        PROVE  cls[new[i].by].pc = "send" /\ cls[new[i].by].id = i
    <3>1. CASE i = k
      BY <1>2, <1>4, <1>5, <3>1
    <3>2. CASE i # k
      <4>1. i \in DOMAIN snt /\ new[i] = snt[i] /\ snt[i].by \in Procs /\ snt[i].by # p
        BY <1>2, <1>3, <2>2, <3>2 DEF SendRecord
      <4> QED
        BY <1>1, <1>4, <2>2, <4>1 DEF Awaited
    <3> QED
      BY <3>1, <3>2
  <2>3. \A q \in Procs : cls[q].pc = "reserved" => cls[q].slot \in Slots
    BY <1>1, <1>4 DEF Awaited
  <2> QED
    BY <2>1, <2>2, <2>3 DEF Awaited
<1>9. Carried(new, slt)
  <2>1. s # None => slt[s].content \in Nat
    BY <1>1, <1>3, BoundsNat DEF Types, SlotRecord
  <2> QED
    BY <1>1, <1>2, <2>1 DEF Carried
<1>10. Owned(T, new, slt)
  <2>1. T \subseteq DOMAIN snt
    BY <1>1 DEF Lined
  <2> QED
    BY <1>1, <1>2, <2>1, OwnedKept
<1>11. Held(new, slt, cls)
  <2> SUFFICES ASSUME NEW u \in Slots, slt[u].holder # None
               PROVE  /\ cls[slt[u].holder].slot = u
                      /\ \/ cls[slt[u].holder].pc = "reserved"
                         \/ /\ cls[slt[u].holder].pc = "send"
                            /\ new[cls[slt[u].holder].id].state = "pending"
    BY <1>1 DEF Held
  <2>1. slt[u].holder \in Procs
    BY <1>1 DEF Types, SlotRecord
  <2>2. CASE slt[u].holder = p
    BY <1>2, <1>3, <1>4, <1>5, <2>2
  <2>3. CASE slt[u].holder # p
    BY <1>1, <1>2, <1>4, <2>1, <2>3 DEF Held, Awaited
  <2> QED
    BY <2>2, <2>3
<1> QED
  BY <1>6, <1>7, <1>8, <1>9, <1>10, <1>11 DEF Books, new, cls, k

\* p enters a send whose value goes to the buffer: its slot gives the content away.
LEMMA BufferedBooks ==
  ASSUME NEW T, NEW W, NEW snt, NEW slt, NEW cl, Books(T, W, snt, slt, cl),
         NEW p \in Procs, NEW s, About(p, s, cl), s # None => slt[s].holder = p,
         NEW r \in SendRecord, r.by = p, r.slot = s, r.state = "ok",
         s # None => r.content = slt[s].content,
         NEW slt2 \in [Slots -> SlotRecord],
         \A u \in Slots :
           IF u = s
           THEN /\ slt2[u].state = "Moved" /\ slt2[u].holder = None
                /\ slt2[u].content = slt[u].content
           ELSE slt2[u] = slt[u]
  PROVE  Books(T \cup {Len(snt) + 1}, W, Append(snt, r), slt2, [cl EXCEPT ![p] = Idle])
<1> DEFINE new == Append(snt, r)
           k == Len(snt) + 1
           cls == [cl EXCEPT ![p] = Idle]
<1>1. /\ Types(snt, slt, cl) /\ Lined(T, W, snt) /\ Awaited(snt, cl)
      /\ Carried(snt, slt) /\ Owned(T, snt, slt) /\ Held(snt, slt, cl)
  BY DEF Books
<1>2. /\ new \in Seq(SendRecord) /\ k \notin DOMAIN snt
      /\ DOMAIN new = DOMAIN snt \cup {k}
      /\ \A i \in DOMAIN snt : new[i] = snt[i] /\ snt[i] \in SendRecord
      /\ new[k] = r
  BY <1>1, AppendedSend DEF Types
<1>3. /\ s \in Slots \cup {None}
      /\ \A u \in Slots : slt[u].holder = p => u = s
      /\ \A i \in DOMAIN snt : snt[i].state \in Unanswered => snt[i].by # p
      /\ p # None /\ None \notin Slots
  BY AboutFacts, NoneIsNothing
<1>4. /\ cls \in [Procs -> CallRecord] /\ cls[p].pc = "idle"
      /\ \A q \in Procs : q # p => cls[q] = cl[q]
  <2>1. Idle \in CallRecord /\ Idle.pc = "idle"
    BY DEF Idle, CallRecord
  <2> QED
    BY <1>1, <2>1 DEF Types
<1>5. T \subseteq DOMAIN snt
  BY <1>1 DEF Lined
<1> HIDE DEF new, cls, k
<1>6. Types(new, slt2, cls)
  BY <1>2, <1>4 DEF Types
<1>7. Lined(T \cup {k}, W, new)
  BY <1>1, <1>2 DEF Lined
<1>8. Awaited(new, cls)
  <2>1. \A i \in DOMAIN snt : snt[i].by \in Procs
    BY <1>2 DEF SendRecord
  <2> QED
    BY <1>1, <1>2, <1>3, <1>4, <2>1 DEF Awaited, Unanswered
<1>9. Carried(new, slt2)
  <2>1. \A u \in Slots : /\ slt2[u].content = slt[u].content
                         /\ slt[u].content \in Nat
                         /\ slt2[u].holder # None => slt2[u] = slt[u]
    BY <1>1, BoundsNat DEF Types, SlotRecord
  <2>2. \A i \in DOMAIN snt : snt[i].slot \in Slots \cup {None} /\ snt[i].by # None
    BY <1>2, NoneIsNothing DEF SendRecord
  <2> QED
    BY <1>1, <1>2, <1>3, <2>1, <2>2 DEF Carried
<1>10. Owned(T \cup {k}, new, slt2)
  <2>1. s # None => slt[s].state = "Reserved"
    BY <1>1, <1>3 DEF Held
  <2>2. ASSUME s # None, NEW j \in T, snt[j].slot = s
        PROVE  snt[j].content # slt[s].content
    BY <1>1, <1>3, <2>1, <2>2 DEF Owned
  <2>3. ASSUME NEW u \in Slots
        PROVE  slt2[u].state = "Moved" <=>
                 \E i \in T \cup {k} : new[i].slot = u /\ new[i].content = slt2[u].content
    <3>1. CASE u = s
      BY <1>2, <1>3, <3>1
    <3>2. CASE u # s
      <4>1. slt2[u] = slt[u]
        BY <3>2
      <4>2. slt[u].state = "Moved" <=>
              \E i \in T : snt[i].slot = u /\ snt[i].content = slt[u].content
        BY <1>1 DEF Owned
      <4>3. new[k].slot # u /\ \A i \in T : new[i] = snt[i]
        BY <1>2, <1>5, <3>2
      <4> QED
        BY <4>1, <4>2, <4>3
    <3> QED
      BY <3>1, <3>2
  <2>4. ASSUME NEW i \in T \cup {k}, NEW j \in T \cup {k}, new[i].slot # None,
               new[i].slot = new[j].slot, new[i].content = new[j].content
        PROVE  i = j
    <3>1. CASE i \in T /\ j \in T
      BY <1>1, <1>2, <1>5, <2>4, <3>1 DEF Owned
    <3>2. CASE i = k /\ j \in T
      BY <1>2, <1>5, <2>2, <2>4, <3>2
    <3>3. CASE i \in T /\ j = k
      BY <1>2, <1>5, <2>2, <2>4, <3>3
    <3> QED
      BY <3>1, <3>2, <3>3
  <2>5. \A u \in Slots :
          (slt2[u].state = "Moved") =
            \E i \in T \cup {k} : new[i].slot = u /\ new[i].content = slt2[u].content
    BY <2>3
  <2> QED
    BY <2>4, <2>5 DEF Owned
<1>11. Held(new, slt2, cls)
  <2> SUFFICES ASSUME NEW u \in Slots
               PROVE  /\ (slt2[u].state = "Reserved") = (slt2[u].holder # None)
                      /\ slt2[u].holder # None =>
                           /\ cls[slt2[u].holder].slot = u
                           /\ \/ cls[slt2[u].holder].pc = "reserved"
                              \/ /\ cls[slt2[u].holder].pc = "send"
                                 /\ new[cls[slt2[u].holder].id].state = "pending"
    BY DEF Held
  <2>1. CASE u = s
    BY <2>1
  <2>2. CASE u # s
    <3>1. slt2[u] = slt[u] /\ slt[u].holder # p
      BY <1>3, <2>2
    <3>2. slt[u].holder # None => slt[u].holder \in Procs
      BY <1>1 DEF Types, SlotRecord
    <3> QED
      BY <1>1, <1>2, <1>4, <3>1, <3>2 DEF Held, Awaited
  <2> QED
    BY <2>1, <2>2
<1> QED
  BY <1>6, <1>7, <1>8, <1>9, <1>10, <1>11 DEF Books, new, cls, k

\* The record of send i with another state.
LEMMA UpdatedSend ==
  ASSUME NEW snt \in Seq(SendRecord), NEW i \in DOMAIN snt, NEW st \in SendStates
  PROVE  LET new == [snt EXCEPT ![i].state = st] IN
         /\ new \in Seq(SendRecord)
         /\ Len(new) = Len(snt)
         /\ DOMAIN new = DOMAIN snt
         /\ \A j \in DOMAIN snt :
              /\ snt[j] \in SendRecord
              /\ new[j].by = snt[j].by
              /\ new[j].slot = snt[j].slot
              /\ new[j].content = snt[j].content
              /\ new[j].state = IF j = i THEN st ELSE snt[j].state
<1> DEFINE new == [snt EXCEPT ![i].state = st]
<1>1. /\ Len(snt) \in Nat /\ DOMAIN snt = 1..Len(snt)
      /\ \A j \in DOMAIN snt : snt[j] \in SendRecord
  BY LenProperties
<1>2. DOMAIN new = DOMAIN snt
  OBVIOUS
<1>3. ASSUME NEW j \in DOMAIN snt
      PROVE  /\ new[j] \in SendRecord
             /\ new[j].by = snt[j].by
             /\ new[j].slot = snt[j].slot
             /\ new[j].content = snt[j].content
             /\ new[j].state = IF j = i THEN st ELSE snt[j].state
  <2>1. snt[j] \in SendRecord
    BY <1>1
  <2> QED
    BY <2>1 DEF SendRecord
<1>4. new \in Seq(SendRecord) /\ Len(new) = Len(snt)
  <2>1. new \in [1..Len(snt) -> SendRecord]
    <3>1. \A j \in 1..Len(snt) : new[j] \in SendRecord
      BY <1>1, <1>3
    <3>2. new = [j \in 1..Len(snt) |-> new[j]]
      BY <1>1
    <3> HIDE DEF new
    <3> QED
      BY <3>1, <3>2
  <2> QED
    BY <1>1, <2>1
<1> QED
  BY <1>1, <1>2, <1>3, <1>4

\* A sender leaves with the answer to its send: the books close it, and nothing that
\* was taken or waits is touched.
LEMMA AnswerBooks ==
  ASSUME NEW T, NEW W, NEW snt, NEW slt, NEW cl, Books(T, W, snt, slt, cl),
         NEW p \in Procs, cl[p].pc = "send", snt[cl[p].id].state # "pending"
  PROVE  Books(T, W,
               [snt EXCEPT ![cl[p].id].state =
                  IF snt[cl[p].id].state = "consumed" THEN "ok" ELSE "refused"],
               slt, [cl EXCEPT ![p] = Idle])
<1> DEFINE i == cl[p].id
           st == IF snt[i].state = "consumed" THEN "ok" ELSE "refused"
           new == [snt EXCEPT ![i].state = st]
           cls == [cl EXCEPT ![p] = Idle]
<1>1. /\ Types(snt, slt, cl) /\ Lined(T, W, snt) /\ Awaited(snt, cl)
      /\ Carried(snt, slt) /\ Owned(T, snt, slt) /\ Held(snt, slt, cl)
  BY DEF Books
<1>2. /\ i \in DOMAIN snt /\ snt[i].state \in {"consumed", "failed"}
      /\ snt[i].by = p /\ st \in {"ok", "refused"} /\ st \in SendStates
      /\ (st = "ok" <=> snt[i].state = "consumed")
  BY <1>1 DEF Awaited, Unanswered, SendStates
<1>3. /\ new \in Seq(SendRecord) /\ DOMAIN new = DOMAIN snt
      /\ \A j \in DOMAIN snt :
           /\ snt[j] \in SendRecord
           /\ new[j].by = snt[j].by
           /\ new[j].slot = snt[j].slot
           /\ new[j].content = snt[j].content
           /\ new[j].state = IF j = i THEN st ELSE snt[j].state
  <2> HIDE DEF st, i
  <2> QED
    BY <1>1, <1>2, UpdatedSend DEF Types
<1>4. /\ cls \in [Procs -> CallRecord] /\ cls[p].pc = "idle"
      /\ \A q \in Procs : q # p => cls[q] = cl[q]
  <2>1. Idle \in CallRecord /\ Idle.pc = "idle"
    BY DEF Idle, CallRecord
  <2> QED
    BY <1>1, <2>1 DEF Types
<1>5. cl[p].id = i
  OBVIOUS
<1> HIDE DEF new, cls, st, i
<1>6. Types(new, slt, cls)
  BY <1>1, <1>3, <1>4 DEF Types
<1>7. Lined(T, W, new)
  BY <1>1, <1>2, <1>3 DEF Lined
<1>8. Awaited(new, cls)
  <2>1. \A j \in DOMAIN snt : snt[j].by \in Procs
    BY <1>3 DEF SendRecord
  <2> QED
    BY <1>1, <1>2, <1>3, <1>4, <1>5, <2>1 DEF Awaited, Unanswered
<1>9. Carried(new, slt)
  BY <1>1, <1>2, <1>3 DEF Carried
<1>10. Owned(T, new, slt)
  <2>1. T \subseteq DOMAIN snt
    BY <1>1 DEF Lined
  <2> QED
    BY <1>1, <1>3, <2>1, OwnedKept
<1>11. Held(new, slt, cls)
  <2> SUFFICES ASSUME NEW u \in Slots, slt[u].holder # None
               PROVE  /\ cls[slt[u].holder].slot = u
                      /\ \/ cls[slt[u].holder].pc = "reserved"
                         \/ /\ cls[slt[u].holder].pc = "send"
                            /\ new[cls[slt[u].holder].id].state = "pending"
    BY <1>1 DEF Held
  <2>1. slt[u].holder \in Procs
    BY <1>1 DEF Types, SlotRecord
  <2>2. slt[u].holder # p
    BY <1>1, <1>2, <1>5 DEF Held
  <2> QED
    BY <1>1, <1>2, <1>3, <1>4, <2>1, <2>2 DEF Held, Awaited
<1> QED
  BY <1>6, <1>7, <1>8, <1>9, <1>10, <1>11 DEF Books, new, cls, st, i

\* A sender leaves without an answer: its send waits no more and its slot, if it still
\* holds it, is ready again.
LEMMA GiveUpBooks ==
  ASSUME NEW T, NEW W, NEW snt, NEW slt, NEW cl, Books(T, W, snt, slt, cl),
         NEW p \in Procs, cl[p].pc = "send", snt[cl[p].id].state = "pending",
         NEW slt2 \in [Slots -> SlotRecord],
         \A u \in Slots :
           IF u = cl[p].slot /\ slt[u].holder = p
           THEN /\ slt2[u].state = "Ready" /\ slt2[u].holder = None
                /\ slt2[u].content = slt[u].content
           ELSE slt2[u] = slt[u]
  PROVE  Books(T, W \ {cl[p].id}, [snt EXCEPT ![cl[p].id].state = "refused"],
               slt2, [cl EXCEPT ![p] = Idle])
<1> DEFINE i == cl[p].id
           new == [snt EXCEPT ![i].state = "refused"]
           cls == [cl EXCEPT ![p] = Idle]
<1>1. /\ Types(snt, slt, cl) /\ Lined(T, W, snt) /\ Awaited(snt, cl)
      /\ Carried(snt, slt) /\ Owned(T, snt, slt) /\ Held(snt, slt, cl)
  BY DEF Books
<1>2. /\ i \in DOMAIN snt /\ snt[i].state = "pending" /\ snt[i].by = p
      /\ p # None /\ "refused" \in SendStates
  BY <1>1, NoneIsNothing DEF Awaited, SendStates
<1>3. /\ new \in Seq(SendRecord) /\ DOMAIN new = DOMAIN snt
      /\ \A j \in DOMAIN snt :
           /\ snt[j] \in SendRecord
           /\ new[j].by = snt[j].by
           /\ new[j].slot = snt[j].slot
           /\ new[j].content = snt[j].content
           /\ new[j].state = IF j = i THEN "refused" ELSE snt[j].state
  <2> HIDE DEF i
  <2> QED
    BY <1>1, <1>2, UpdatedSend DEF Types
<1>4. /\ cls \in [Procs -> CallRecord] /\ cls[p].pc = "idle"
      /\ \A q \in Procs : q # p => cls[q] = cl[q]
  <2>1. Idle \in CallRecord /\ Idle.pc = "idle"
    BY DEF Idle, CallRecord
  <2> QED
    BY <1>1, <2>1 DEF Types
<1>5. cl[p].id = i
  OBVIOUS
<1> HIDE DEF new, cls, i
<1>6. Types(new, slt2, cls)
  BY <1>3, <1>4 DEF Types
<1>7. Lined(T, W \ {i}, new)
  BY <1>1, <1>2, <1>3 DEF Lined
<1>8. Awaited(new, cls)
  <2>1. \A j \in DOMAIN snt : snt[j].by \in Procs
    BY <1>3 DEF SendRecord
  <2> QED
    BY <1>1, <1>2, <1>3, <1>4, <1>5, <2>1 DEF Awaited, Unanswered
<1>9. Carried(new, slt2)
  <2>1. \A u \in Slots : /\ slt2[u].content = slt[u].content
                         /\ slt2[u].holder # None => slt2[u] = slt[u]
    OBVIOUS
  <2>2. \A j \in DOMAIN snt : snt[j].slot \in Slots \cup {None} /\ snt[j].by # None
    BY <1>3, NoneIsNothing DEF SendRecord
  <2> QED
    BY <1>1, <1>2, <1>3, <2>1, <2>2 DEF Carried
<1>10. Owned(T, new, slt2)
  <2>1. T \subseteq DOMAIN snt
    BY <1>1 DEF Lined
  <2>2. \A u \in Slots : /\ slt2[u].content = slt[u].content
                         /\ slt2[u].state = "Moved" <=> slt[u].state = "Moved"
    BY <1>1, <1>2 DEF Held
  <2> QED
    BY <1>1, <1>3, <2>1, <2>2, OwnedKept
<1>11. Held(new, slt2, cls)
  <2> SUFFICES ASSUME NEW u \in Slots
               PROVE  /\ (slt2[u].state = "Reserved") = (slt2[u].holder # None)
                      /\ slt2[u].holder # None =>
                           /\ cls[slt2[u].holder].slot = u
                           /\ \/ cls[slt2[u].holder].pc = "reserved"
                              \/ /\ cls[slt2[u].holder].pc = "send"
                                 /\ new[cls[slt2[u].holder].id].state = "pending"
    BY DEF Held
  <2>1. CASE slt[u].holder = p
    <3>1. u = cl[p].slot
      BY <1>1, <1>2, <2>1 DEF Held
    <3> QED
      BY <2>1, <3>1
  <2>2. CASE slt[u].holder # p
    <3>1. slt2[u] = slt[u]
      BY <2>2
    <3>2. slt[u].holder # None => slt[u].holder \in Procs
      BY <1>1 DEF Types, SlotRecord
    <3> QED
      BY <1>1, <1>2, <1>3, <1>4, <2>2, <3>1, <3>2 DEF Held, Awaited
  <2> QED
    BY <2>1, <2>2
<1> QED
  BY <1>6, <1>7, <1>8, <1>9, <1>10, <1>11 DEF Books, new, cls, i

\* reserve_move by a caller that is in no call.
LEMMA ReserveBooks ==
  ASSUME NEW T, NEW W, NEW snt, NEW slt, NEW cl, Books(T, W, snt, slt, cl),
         NEW p \in Procs, cl[p].pc = "idle", NEW s \in Slots, slt[s].state = "Ready",
         NEW c \in CallRecord, c.pc = "reserved", c.slot = s,
         NEW slt2 \in [Slots -> SlotRecord],
         \A u \in Slots :
           IF u = s
           THEN /\ slt2[u].state = "Reserved" /\ slt2[u].holder = p
                /\ slt2[u].content = slt[u].content
           ELSE slt2[u] = slt[u]
  PROVE  Books(T, W, snt, slt2, [cl EXCEPT ![p] = c])
<1> DEFINE cls == [cl EXCEPT ![p] = c]
<1>1. /\ Types(snt, slt, cl) /\ Lined(T, W, snt) /\ Awaited(snt, cl)
      /\ Carried(snt, slt) /\ Owned(T, snt, slt) /\ Held(snt, slt, cl)
  BY DEF Books
<1>2. /\ \A u \in Slots : slt[u].holder # p
      /\ \A i \in DOMAIN snt : snt[i].state \in Unanswered => snt[i].by # p
      /\ p # None
  BY <1>1, NoneIsNothing DEF Held, Awaited
<1>3. /\ cls \in [Procs -> CallRecord] /\ cls[p] = c
      /\ \A q \in Procs : q # p => cls[q] = cl[q]
  BY <1>1 DEF Types
<1>4. \A i \in DOMAIN snt : snt[i] \in SendRecord
  BY <1>1, LenProperties DEF Types
<1> HIDE DEF cls
<1>5. Types(snt, slt2, cls)
  BY <1>1, <1>3 DEF Types
<1>6. Awaited(snt, cls)
  <2>1. \A i \in DOMAIN snt : snt[i].by \in Procs
    BY <1>4 DEF SendRecord
  <2> QED
    BY <1>1, <1>2, <1>3, <2>1 DEF Awaited
<1>7. Carried(snt, slt2)
  <2>1. \A u \in Slots : /\ slt2[u].content = slt[u].content
                         /\ slt2[u].holder # p => slt2[u] = slt[u]
    OBVIOUS
  <2>2. \A i \in DOMAIN snt : snt[i].slot \in Slots \cup {None}
    BY <1>4 DEF SendRecord
  <2>3. \A i \in DOMAIN snt : snt[i].state = "pending" => snt[i].by # p
    BY <1>2 DEF Unanswered
  <2> QED
    BY <1>1, <2>1, <2>2, <2>3 DEF Carried
<1>8. Owned(T, snt, slt2)
  <2>1. \A u \in Slots : /\ slt2[u].content = slt[u].content
                         /\ slt2[u].state = "Moved" <=> slt[u].state = "Moved"
    OBVIOUS
  <2> QED
    BY <1>1, <2>1, OwnedKept
<1>9. Held(snt, slt2, cls)
  <2> SUFFICES ASSUME NEW u \in Slots
               PROVE  /\ (slt2[u].state = "Reserved") = (slt2[u].holder # None)
                      /\ slt2[u].holder # None =>
                           /\ cls[slt2[u].holder].slot = u
                           /\ \/ cls[slt2[u].holder].pc = "reserved"
                              \/ /\ cls[slt2[u].holder].pc = "send"
                                 /\ snt[cls[slt2[u].holder].id].state = "pending"
    BY DEF Held
  <2>1. CASE u = s
    BY <1>2, <1>3, <2>1
  <2>2. CASE u # s
    <3>1. slt[u].holder # None => slt[u].holder \in Procs
      BY <1>1 DEF Types, SlotRecord
    <3> QED
      BY <1>1, <1>2, <1>3, <2>2, <3>1 DEF Held
  <2> QED
    BY <2>1, <2>2
<1> QED
  BY <1>1, <1>5, <1>6, <1>7, <1>8, <1>9 DEF Books, cls

\* reset: what the slot had before is not what it has now.
LEMMA ResetBooks ==
  ASSUME NEW T, NEW W, NEW snt, NEW slt, NEW cl, Books(T, W, snt, slt, cl),
         NEW s \in Slots, NEW slt2 \in [Slots -> SlotRecord],
         \A u \in Slots :
           IF u = s
           THEN /\ slt2[u].state = "Ready" /\ slt2[u].holder = None
                /\ slt2[u].content = slt[u].content + 1
           ELSE slt2[u] = slt[u]
  PROVE  Books(T, W, snt, slt2, cl)
<1>1. /\ Types(snt, slt, cl) /\ Lined(T, W, snt) /\ Awaited(snt, cl)
      /\ Carried(snt, slt) /\ Owned(T, snt, slt) /\ Held(snt, slt, cl)
  BY DEF Books
<1>2. \A i \in DOMAIN snt :
        /\ snt[i].slot \in Slots \cup {None}
        /\ snt[i].by # None
        /\ snt[i].content \in Nat
  BY <1>1, SendTypes DEF Types
<1>3. \A u \in Slots : slt[u].content \in Nat
  BY <1>1, BoundsNat DEF Types, SlotRecord
<1>4. T \subseteq DOMAIN snt
  BY <1>1 DEF Lined
<1>5. Types(snt, slt2, cl)
  BY <1>1 DEF Types
<1>6. Carried(snt, slt2)
  BY <1>1, <1>2, <1>3 DEF Carried
<1>7. Owned(T, snt, slt2)
  <2>1. ASSUME NEW u \in Slots
        PROVE  slt2[u].state = "Moved" <=>
                 \E i \in T : snt[i].slot = u /\ snt[i].content = slt2[u].content
    <3>1. CASE u = s
      <4>1. \A i \in T : snt[i].slot = s => snt[i].content <= slt[s].content
        BY <1>1, <1>4, NoneIsNothing DEF Carried
      <4> QED
        BY <1>2, <1>3, <1>4, <3>1, <4>1
    <3>2. CASE u # s
      <4>1. slt2[u] = slt[u]
        BY <3>2
      <4>2. slt[u].state = "Moved" <=>
              \E i \in T : snt[i].slot = u /\ snt[i].content = slt[u].content
        BY <1>1 DEF Owned
      <4> QED
        BY <4>1, <4>2
    <3> QED
      BY <3>1, <3>2
  <2>2. \A u \in Slots :
          (slt2[u].state = "Moved") =
            \E i \in T : snt[i].slot = u /\ snt[i].content = slt2[u].content
    BY <2>1
  <2> QED
    BY <1>1, <2>2 DEF Owned
<1>8. Held(snt, slt2, cl)
  BY <1>1 DEF Held
<1> QED
  BY <1>1, <1>5, <1>6, <1>7, <1>8 DEF Books

\* A caller goes into recv or comes back from it.
LEMMA RecvBooks ==
  ASSUME NEW T, NEW W, NEW snt, NEW slt, NEW cl, Books(T, W, snt, slt, cl),
         NEW p \in Procs, cl[p].pc \in {"idle", "recv"},
         NEW c \in CallRecord, c.pc \in {"idle", "recv"}
  PROVE  Books(T, W, snt, slt, [cl EXCEPT ![p] = c])
<1> DEFINE cls == [cl EXCEPT ![p] = c]
<1>1. /\ Types(snt, slt, cl) /\ Lined(T, W, snt) /\ Awaited(snt, cl)
      /\ Carried(snt, slt) /\ Owned(T, snt, slt) /\ Held(snt, slt, cl)
  BY DEF Books
<1>2. /\ cls \in [Procs -> CallRecord] /\ cls[p] = c
      /\ \A q \in Procs : q # p => cls[q] = cl[q]
  BY <1>1 DEF Types
<1>3. \A i \in DOMAIN snt : snt[i].by \in Procs
  BY <1>1, SendTypes DEF Types
<1> HIDE DEF cls
<1>4. Types(snt, slt, cls)
  BY <1>1, <1>2 DEF Types
<1>5. Awaited(snt, cls)
  BY <1>1, <1>2, <1>3 DEF Awaited
<1>6. Held(snt, slt, cls)
  <2>1. \A u \in Slots : slt[u].holder # None => slt[u].holder \in Procs
    BY <1>1 DEF Types, SlotRecord
  <2>2. \A u \in Slots : slt[u].holder # p
    BY <1>1, NoneIsNothing DEF Held
  <2> QED
    BY <1>1, <1>2, <2>1, <2>2 DEF Held
<1> QED
  BY <1>1, <1>4, <1>5, <1>6 DEF Books, cls
-----------------------------------------------------------------------------
(* The line while pending sends leave *)

Rest(n) == SubSeq(pending, n + 1, Len(pending))

LEMMA StreamFacts ==
  ASSUME Inv, NEW n \in 0..Len(pending)
  PROVE  /\ Stream(n) \in Seq(Numbers)
         /\ Rest(n) \in Seq(Numbers)
         /\ Len(Stream(n)) = Len(buffer) + Len(Delivered[n])
         /\ ToSet(Stream(n)) = ToSet(buffer) \cup Passed(n)
         /\ ToSet(Rest(n)) = ToSet(pending) \ Left(n)
         /\ Passed(n) \subseteq ToSet(pending)
         /\ Ascending(Stream(n))
         /\ Ascending(Rest(n))
         /\ Before(ToSet(received), ToSet(Stream(n)))
         /\ Before(ToSet(received), ToSet(Rest(n)))
         /\ Before(ToSet(Stream(n)), ToSet(Rest(n)))
<1>1. /\ buffer \in Seq(Numbers) /\ pending \in Seq(Numbers)
      /\ received \in Seq(Numbers) /\ Numbers \subseteq Nat
      /\ Seq(Numbers) \subseteq Seq(Nat)
  <2>1. Numbers \subseteq Nat
    BY DEF Numbers
  <2>2. Seq(Numbers) \subseteq Seq(Nat)
    BY <2>1, SeqMonotonic
  <2> QED
    BY <2>1, <2>2 DEF Inv, TypeOK
<1>2. /\ Ascending(received) /\ Ascending(buffer) /\ Ascending(pending)
      /\ Before(ToSet(received), ToSet(buffer))
      /\ Before(ToSet(received), ToSet(pending))
      /\ Before(ToSet(buffer), ToSet(pending))
  BY DEF Inv, LineOrdered
<1>3. /\ Delivered[n] \in Seq(Numbers)
      /\ ToSet(Delivered[n]) = Passed(n)
      /\ Ascending(Delivered[n])
  <2>1. MaxSends \in Nat
    BY BoundsNat
  <2> QED
    BY <1>1, <1>2, <2>1, DeliveredFacts DEF Passed
<1>4. Left(n) \subseteq ToSet(pending) /\ Passed(n) \subseteq Left(n)
  BY LeftPending DEF Inv, Passed
<1>5. /\ Stream(n) \in Seq(Numbers)
      /\ Len(Stream(n)) = Len(buffer) + Len(Delivered[n])
      /\ ToSet(Stream(n)) = ToSet(buffer) \cup Passed(n)
  BY <1>1, <1>3, ConcatProperties, ToSetConcat DEF Stream
<1>6. Ascending(Stream(n))
  <2>1. Before(ToSet(buffer), ToSet(Delivered[n]))
    BY <1>2, <1>3, <1>4 DEF Before
  <2>2. buffer \in Seq(Nat) /\ Delivered[n] \in Seq(Nat)
    BY <1>1, <1>3
  <2> QED
    BY <1>2, <1>3, <2>1, <2>2, AscendingConcat DEF Stream
<1>7. /\ Rest(n) \in Seq(Numbers)
      /\ Ascending(Rest(n))
      /\ ToSet(Rest(n)) = ToSet(pending) \ Left(n)
      /\ Before(Left(n), ToSet(Rest(n)))
  BY <1>1, <1>2, RestFacts DEF Rest, Left
<1>8. /\ Before(ToSet(received), ToSet(Stream(n)))
      /\ Before(ToSet(received), ToSet(Rest(n)))
      /\ Before(ToSet(Stream(n)), ToSet(Rest(n)))
  BY <1>2, <1>4, <1>5, <1>7 DEF Before
<1> QED
  BY <1>4, <1>5, <1>6, <1>7, <1>8

\* Promoting fills the buffer at most, and a receive needs one value more.
LEMMA RoomFacts ==
  ASSUME Inv
  PROVE  /\ capacity \in Nat
         /\ Leaving(Room) \in 0..Len(pending)
         /\ Leaving(RoomToTake) \in 0..Len(pending)
         /\ Len(Stream(Leaving(Room))) <= capacity
         /\ Len(Stream(Leaving(RoomToTake))) <= capacity + 1
<1>1. /\ buffer \in Seq(Numbers) /\ Len(buffer) <= capacity
      /\ pending \in Seq(Numbers) /\ Ascending(pending) /\ MaxSends \in Nat
  BY BoundsNat DEF Inv, TypeOK, LineOrdered
<1>2. capacity \in Nat
  BY SettingsKnown DEF Inv, TypeOK, capacity
<1>3. Len(buffer) \in Nat
  BY <1>1, LenProperties
<1>4. Room \in Nat /\ RoomToTake \in Nat
  BY <1>1, <1>2, <1>3 DEF Room, RoomToTake
<1>5. /\ Leaving(Room) \in 0..Len(pending)
      /\ Len(Delivered[Leaving(Room)]) <= Room
      /\ Leaving(RoomToTake) \in 0..Len(pending)
      /\ Len(Delivered[Leaving(RoomToTake)]) <= RoomToTake
  BY <1>1, <1>4, LeavingFits
<1>6. /\ Len(Stream(Leaving(Room))) = Len(buffer) + Len(Delivered[Leaving(Room)])
      /\ Len(Stream(Leaving(RoomToTake))) =
           Len(buffer) + Len(Delivered[Leaving(RoomToTake)])
  BY <1>5, StreamFacts
<1>7. /\ Len(Stream(Leaving(Room))) \in Nat
      /\ Len(Stream(Leaving(RoomToTake))) \in Nat
  BY <1>5, StreamFacts, LenProperties
<1>8. /\ Len(Delivered[Leaving(Room)]) \in Nat
      /\ Len(Delivered[Leaving(RoomToTake)]) \in Nat
  BY <1>1, <1>5, DeliveredFacts, LenProperties
<1> QED
  BY <1>2, <1>3, <1>5, <1>6, <1>7, <1>8 DEF Room, RoomToTake

\* Whatever is in the line has the number of a send that entered.
LEMMA LineBelow ==
  ASSUME Inv
  PROVE  /\ Len(sent) \in Nat
         /\ \A i \in Taken \cup ToSet(pending) : i \in Nat /\ i < Len(sent) + 1
<1>1. /\ sent \in Seq(SendRecord)
      /\ Taken \cup ToSet(pending) \subseteq DOMAIN sent
  BY DEF Inv, TypeOK, Books, Lined
<1>2. Len(sent) \in Nat /\ DOMAIN sent = 1..Len(sent)
  BY <1>1, LenProperties
<1> QED
  BY <1>1, <1>2

LEMMA AscendingAppend ==
  ASSUME NEW s \in Seq(Numbers), Ascending(s), NEW k \in Numbers,
         \A i \in ToSet(s) : i < k
  PROVE  /\ Append(s, k) \in Seq(Numbers)
         /\ Ascending(Append(s, k))
         /\ ToSet(Append(s, k)) = ToSet(s) \cup {k}
<1>1. /\ Append(s, k) \in Seq(Numbers)
      /\ Append(s, k) = s \o <<k>>
      /\ <<k>> \in Seq(Numbers)
      /\ ToSet(<<k>>) = {k}
      /\ ToSet(Append(s, k)) = ToSet(s) \cup {k}
  BY AppendFacts
<1>2. s \in Seq(Nat) /\ <<k>> \in Seq(Nat)
  <2>1. Numbers \subseteq Nat
    BY DEF Numbers
  <2> QED
    BY <1>1, <2>1, SeqMonotonic
<1>3. Ascending(<<k>>) /\ Before(ToSet(s), ToSet(<<k>>))
  BY <1>1 DEF Ascending, Before
<1> QED
  BY <1>1, <1>2, <1>3, AscendingConcat
-----------------------------------------------------------------------------
(* Every step keeps the invariant *)

LEMMA InitInv == Init => Inv
<1> SUFFICES ASSUME Init PROVE Inv
  OBVIOUS
<1>1. setting \in Settings /\ capacity \in Nat
  BY SettingsKnown DEF Init, capacity
<1>2. /\ buffer = <<>> /\ pending = <<>> /\ waiters = <<>> /\ sent = <<>>
      /\ received = <<>> /\ closed = FALSE /\ cancelled = {}
  BY DEF Init
<1>3. call \in [Procs -> CallRecord] /\ \A p \in Procs : call[p].pc = "idle"
  <2>1. Idle \in CallRecord /\ Idle.pc = "idle"
    BY DEF Idle, CallRecord
  <2> QED
    BY <2>1 DEF Init
<1>4. /\ slot \in [Slots -> SlotRecord]
      /\ \A s \in Slots : slot[s].state = "Ready" /\ slot[s].holder = None
  <2>1. [state |-> "Ready", holder |-> None, content |-> 0] \in SlotRecord
    BY BoundsNat DEF SlotRecord
  <2> QED
    BY <2>1 DEF Init
<1>5. ToSet(<<>>) = {} /\ DOMAIN <<>> = {} /\ Len(<<>>) = 0
  <2>1. DOMAIN <<>> = {}
    OBVIOUS
  <2>2. ToSet(<<>>) = {}
    BY <2>1, Zenon DEF ToSet
  <2> QED
    BY <2>1, <2>2
<1>6. TypeOK
  <2>1. /\ buffer \in Seq(Numbers) /\ pending \in Seq(Numbers)
        /\ waiters \in Seq(Procs) /\ sent \in Seq(SendRecord)
        /\ received \in Seq(Numbers)
    BY <1>2
  <2>2. Len(buffer) <= capacity /\ Len(sent) <= MaxSends
    BY <1>1, <1>2, <1>5, BoundsNat
  <2>3. closed \in BOOLEAN /\ cancelled \in SUBSET Cancellable
    BY <1>2
  <2> QED
    BY <1>1, <1>3, <1>4, <2>1, <2>2, <2>3 DEF TypeOK
<1>7. LineOrdered
  BY <1>2, <1>5 DEF LineOrdered, Ascending, Before
<1>8. Taken = {} /\ ToSet(pending) = {} /\ DOMAIN sent = {}
  BY <1>2, <1>5 DEF Taken
<1>9. Books(Taken, ToSet(pending), sent, slot, call)
  <2>1. Types(sent, slot, call)
    BY <1>2, <1>3, <1>4 DEF Types
  <2>2. Lined(Taken, ToSet(pending), sent)
    BY <1>8 DEF Lined
  <2>3. Awaited(sent, call)
    BY <1>3, <1>8 DEF Awaited
  <2>4. Carried(sent, slot)
    BY <1>8 DEF Carried
  <2>5. Owned(Taken, sent, slot)
    BY <1>4, <1>8 DEF Owned
  <2>6. Held(sent, slot, call)
    BY <1>4 DEF Held
  <2> QED
    BY <2>1, <2>2, <2>3, <2>4, <2>5, <2>6 DEF Books
<1> QED
  BY <1>6, <1>7, <1>9 DEF Inv

\* What a step has to show of the values and their numbers.
LineTypes ==
  /\ buffer \in Seq(Numbers) /\ Len(buffer) <= capacity
  /\ pending \in Seq(Numbers)
  /\ received \in Seq(Numbers)
  /\ sent \in Seq(SendRecord) /\ Len(sent) <= MaxSends

\* The rest of TypeOK.
OtherTypes ==
  /\ setting \in Settings
  /\ waiters \in Seq(Procs)
  /\ closed \in BOOLEAN
  /\ cancelled \in SUBSET Cancellable

LEMMA InvParts ==
  Inv <=> /\ LineTypes /\ OtherTypes /\ LineOrdered
          /\ Books(Taken, ToSet(pending), sent, slot, call)
<1>1. Books(Taken, ToSet(pending), sent, slot, call) => Types(sent, slot, call)
  BY DEF Books
<1> QED
  BY <1>1 DEF Inv, TypeOK, LineTypes, OtherTypes, Types

\* The sends are numbered as before when some of them leave the queue.
LEMMA LeaveTypes ==
  ASSUME Inv, NEW n \in 0..Len(pending), Leave(n)
  PROVE  /\ sent' \in Seq(SendRecord) /\ Len(sent') <= MaxSends
         /\ pending' \in Seq(Numbers)
         /\ pending' = Rest(n)
         /\ ToSet(pending') = ToSet(pending) \ Left(n)
         /\ Books(Taken \cup Passed(n), ToSet(pending'), sent', slot', call)
<1>1. sent \in Seq(SendRecord) /\ Len(sent) <= MaxSends
  BY DEF Inv, TypeOK
<1>2. sent' \in Seq(SendRecord) /\ Len(sent') = Len(sent)
  BY <1>1, SentAfterFacts DEF Leave
<1>3. /\ pending' = Rest(n)
      /\ pending' \in Seq(Numbers)
      /\ ToSet(pending') = ToSet(pending) \ Left(n)
  BY StreamFacts DEF Leave, Rest
<1>4. Books(Taken \cup Passed(n), ToSet(pending) \ Left(n), sent', slot', call)
  BY LeaveBooks DEF Leave
<1> QED
  BY <1>1, <1>2, <1>3, <1>4

\* A receiver takes the first value.
LEMMA TakeKeeps ==
  ASSUME Inv, Take(Leaving(RoomToTake)), setting' = setting
  PROVE  /\ LineTypes' /\ LineOrdered'
         /\ Books(Taken', ToSet(pending'), sent', slot', call)
<1> DEFINE n == Leaving(RoomToTake)
<1>1. /\ n \in 0..Len(pending) /\ Len(Stream(n)) <= capacity + 1
      /\ capacity \in Nat /\ capacity' = capacity
  BY RoomFacts DEF capacity
<1>2. /\ Stream(n) # <<>> /\ received' = Append(received, Head(Stream(n)))
      /\ buffer' = Tail(Stream(n)) /\ Leave(n)
  BY DEF Take
<1> HIDE DEF n
<1>3. /\ Stream(n) \in Seq(Numbers)
      /\ ToSet(Stream(n)) = ToSet(buffer) \cup Passed(n)
      /\ Ascending(Stream(n)) /\ Ascending(Rest(n))
      /\ Before(ToSet(received), ToSet(Stream(n)))
      /\ Before(ToSet(received), ToSet(Rest(n)))
      /\ Before(ToSet(Stream(n)), ToSet(Rest(n)))
  BY <1>1, StreamFacts
<1>4. /\ sent' \in Seq(SendRecord) /\ Len(sent') <= MaxSends
      /\ pending' \in Seq(Numbers) /\ pending' = Rest(n)
      /\ Books(Taken \cup Passed(n), ToSet(pending'), sent', slot', call)
  BY <1>1, <1>2, LeaveTypes
<1>5. /\ Head(Stream(n)) \in Numbers
      /\ buffer' \in Seq(Numbers) /\ Len(buffer') = Len(Stream(n)) - 1
      /\ ToSet(Stream(n)) = {Head(Stream(n))} \cup ToSet(buffer')
      /\ Ascending(buffer')
      /\ Before({Head(Stream(n))}, ToSet(buffer'))
  <2>1. Numbers \subseteq Nat
    BY DEF Numbers
  <2> QED
    BY <1>2, <1>3, <2>1, HeadAndTail
<1>6. /\ received' \in Seq(Numbers) /\ Ascending(received')
      /\ ToSet(received') = ToSet(received) \cup {Head(Stream(n))}
  <2>1. received \in Seq(Numbers) /\ Ascending(received)
    BY DEF Inv, TypeOK, LineOrdered
  <2>2. \A i \in ToSet(received) : i < Head(Stream(n))
    BY <1>3, <1>5 DEF Before
  <2> QED
    BY <1>2, <1>5, <2>1, <2>2, AscendingAppend
<1>7. LineTypes'
  <2>1. Len(Stream(n)) \in Nat
    BY <1>3, LenProperties
  <2>2. Len(buffer') <= capacity'
    BY <1>1, <1>5, <2>1
  <2> QED
    BY <1>4, <1>5, <1>6, <2>2 DEF LineTypes
<1>8. LineOrdered'
  <2>1. Before(ToSet(received'), ToSet(buffer'))
    BY <1>3, <1>5, <1>6 DEF Before
  <2>2. Before(ToSet(received'), ToSet(pending'))
    BY <1>3, <1>4, <1>5, <1>6 DEF Before
  <2>3. Before(ToSet(buffer'), ToSet(pending'))
    BY <1>3, <1>4, <1>5 DEF Before
  <2> QED
    BY <1>3, <1>4, <1>5, <1>6, <2>1, <2>2, <2>3 DEF LineOrdered
<1>9. Taken' = Taken \cup Passed(n)
  BY <1>3, <1>5, <1>6 DEF Taken
<1> QED
  BY <1>4, <1>7, <1>8, <1>9

\* Values are promoted, and nobody takes one.
LEMMA PromoteKeeps ==
  ASSUME Inv, NEW n \in 0..Len(pending), Leave(n), buffer' = Stream(n),
         Len(Stream(n)) <= capacity, setting' = setting, received' = received
  PROVE  /\ LineTypes' /\ LineOrdered'
         /\ Books(Taken', ToSet(pending'), sent', slot', call)
<1>1. /\ Stream(n) \in Seq(Numbers)
      /\ ToSet(Stream(n)) = ToSet(buffer) \cup Passed(n)
      /\ Ascending(Stream(n)) /\ Ascending(Rest(n))
      /\ Before(ToSet(received), ToSet(Stream(n)))
      /\ Before(ToSet(received), ToSet(Rest(n)))
      /\ Before(ToSet(Stream(n)), ToSet(Rest(n)))
  BY StreamFacts
<1>2. /\ sent' \in Seq(SendRecord) /\ Len(sent') <= MaxSends
      /\ pending' \in Seq(Numbers) /\ pending' = Rest(n)
      /\ Books(Taken \cup Passed(n), ToSet(pending'), sent', slot', call)
  BY LeaveTypes
<1>3. received \in Seq(Numbers) /\ Ascending(received)
  BY DEF Inv, TypeOK, LineOrdered
<1>4. LineTypes'
  BY <1>1, <1>2, <1>3 DEF LineTypes, capacity
<1>5. LineOrdered'
  BY <1>1, <1>2, <1>3 DEF LineOrdered
<1>6. Taken' = Taken \cup Passed(n)
  BY <1>1 DEF Taken
<1> QED
  BY <1>2, <1>4, <1>5, <1>6

\* Nothing moves.
LEMMA LineStays ==
  ASSUME Inv, UNCHANGED <<setting, buffer, pending, received, sent, slot>>
  PROVE  /\ LineTypes' /\ LineOrdered'
         /\ Books(Taken', ToSet(pending'), sent', slot', call)
<1>1. LineTypes /\ LineOrdered /\ Books(Taken, ToSet(pending), sent, slot, call)
  BY InvParts
<1>2. LineTypes' /\ LineOrdered'
  BY <1>1 DEF LineTypes, LineOrdered, capacity
<1>3. Taken' = Taken
  BY DEF Taken
<1> QED
  BY <1>1, <1>2, <1>3

\* What every step does to the rest of the types.
LEMMA OtherTypesKept ==
  ASSUME Inv, setting' = setting, closed' = closed, cancelled' = cancelled,
         waiters' \in Seq(Procs)
  PROVE  OtherTypes'
<1>1. OtherTypes
  BY InvParts
<1> QED
  BY <1>1 DEF OtherTypes

LEMMA InvFromParts ==
  ASSUME LineTypes', OtherTypes', LineOrdered',
         Books(Taken', ToSet(pending'), sent', slot', call')
  PROVE  Inv'
<1>1. (Inv <=> /\ LineTypes /\ OtherTypes /\ LineOrdered
               /\ Books(Taken, ToSet(pending), sent, slot, call))'
  BY InvParts, PTL
<1> QED
  BY <1>1

LEMMA WaitersTypes == Inv => waiters \in Seq(Procs)
  BY DEF Inv, TypeOK

LEMMA RecvNowInv == ASSUME Inv, NEW p \in Procs, RecvNow(p) PROVE Inv'
<1>1. /\ LineTypes' /\ LineOrdered'
      /\ Books(Taken', ToSet(pending'), sent', slot', call)
  BY TakeKeeps DEF RecvNow
<1>2. OtherTypes'
  BY OtherTypesKept, WaitersTypes DEF RecvNow
<1>3. call' = call
  BY DEF RecvNow
<1> QED
  BY <1>1, <1>2, <1>3, InvFromParts

LEMMA RecvWaitInv ==
  ASSUME Inv, NEW p \in Procs, NEW timeout, RecvWait(p, timeout)
  PROVE  Inv'
<1> DEFINE n == Leaving(IF MayTake THEN RoomToTake ELSE Room)
<1>1. /\ call[p].pc = "idle" /\ buffer' = Stream(n) /\ Leave(n)
      /\ MayTake => Stream(n) = <<>>
      /\ UNCHANGED <<setting, closed, received, cancelled>>
  BY DEF RecvWait
<1>2. n \in 0..Len(pending) /\ Len(Stream(n)) <= capacity
  <2>1. CASE MayTake
    <3>1. n \in 0..Len(pending) /\ capacity \in Nat
      BY <2>1, RoomFacts
    <3>2. Len(Stream(n)) = 0
      BY <1>1, <2>1
    <3> QED
      BY <3>1, <3>2
  <2>2. CASE ~MayTake
    BY <2>2, RoomFacts
  <2> QED
    BY <2>1, <2>2
<1> HIDE DEF n
<1>3. /\ LineTypes' /\ LineOrdered'
      /\ Books(Taken', ToSet(pending'), sent', slot', call)
  BY <1>1, <1>2, PromoteKeeps
<1>4. CASE p \in cancelled \/ timeout = "zero"
  <2>1. waiters' = waiters /\ call' = call
    BY <1>4 DEF RecvWait
  <2>2. OtherTypes'
    BY <1>1, <2>1, OtherTypesKept, WaitersTypes
  <2> QED
    BY <1>3, <2>1, <2>2, InvFromParts
<1>5. CASE ~(p \in cancelled \/ timeout = "zero")
  <2> DEFINE c == [Idle EXCEPT !.pc = "recv", !.timed = timeout = "later"]
  <2>1. waiters' = Append(waiters, p) /\ call' = [call EXCEPT ![p] = c]
    BY <1>5 DEF RecvWait
  <2>2. c \in CallRecord /\ c.pc = "recv"
    BY DEF Idle, CallRecord
  <2>3. waiters' \in Seq(Procs)
    BY <2>1, WaitersTypes, AppendProperties
  <2>4. OtherTypes'
    BY <1>1, <2>3, OtherTypesKept
  <2> HIDE DEF c
  <2>5. Books(Taken', ToSet(pending'), sent', slot', call')
    BY <1>1, <1>3, <2>1, <2>2, RecvBooks
  <2> QED
    BY <1>3, <2>4, <2>5, InvFromParts
<1> QED
  BY <1>4, <1>5

LEMMA IdleType == Idle \in CallRecord /\ Idle.pc = "idle"
  BY DEF Idle, CallRecord

LEMMA RecvServedInv == ASSUME Inv, NEW p \in Procs, RecvServed(p) PROVE Inv'
<1>1. /\ call[p].pc = "recv" /\ AtFront(p) /\ waiters' = Tail(waiters)
      /\ call' = [call EXCEPT ![p] = Idle]
      /\ UNCHANGED <<setting, closed, cancelled>>
      /\ \/ Take(Leaving(RoomToTake))
         \/ UNCHANGED <<buffer, pending, sent, received, slot>>
  BY DEF RecvServed
<1>2. /\ LineTypes' /\ LineOrdered'
      /\ Books(Taken', ToSet(pending'), sent', slot', call)
  BY <1>1, TakeKeeps, LineStays
<1>3. waiters' \in Seq(Procs)
  BY <1>1, WaitersTypes, HeadTailProperties DEF AtFront
<1>4. OtherTypes'
  BY <1>1, <1>3, OtherTypesKept
<1>5. Books(Taken', ToSet(pending'), sent', slot', call')
  BY <1>1, <1>2, IdleType, RecvBooks
<1> QED
  BY <1>2, <1>4, <1>5, InvFromParts

LEMMA RecvUnservedInv == ASSUME Inv, NEW p \in Procs, RecvUnserved(p) PROVE Inv'
<1>1. /\ call[p].pc = "recv"
      /\ UNCHANGED <<setting, buffer, closed, received, cancelled>>
  BY DEF RecvUnserved
<1>2. /\ LineTypes' /\ LineOrdered'
      /\ Books(Taken', ToSet(pending'), sent', slot', call)
  <2>1. CASE AtFront(p)
    <3> DEFINE n == Leaving(RoomToTake)
    <3>1. n \in 0..Len(pending) /\ capacity \in Nat
      BY RoomFacts
    <3>2. Stream(n) = <<>> /\ Leave(n)
      BY <2>1 DEF RecvUnserved
    <3> HIDE DEF n
    <3>3. Len(Stream(n)) = 0
      BY <3>2
    <3>4. Len(buffer) \in Nat /\ Len(Delivered[n]) \in Nat
          /\ Len(Stream(n)) = Len(buffer) + Len(Delivered[n])
      <4>1. /\ buffer \in Seq(Numbers) /\ pending \in Seq(Numbers)
            /\ Ascending(pending) /\ MaxSends \in Nat
        BY BoundsNat DEF Inv, TypeOK, LineOrdered
      <4>2. Delivered[n] \in Seq(Numbers)
        BY <3>1, <4>1, DeliveredFacts
      <4> QED
        BY <3>1, <4>1, <4>2, LenProperties, StreamFacts
    <3>5. buffer' = Stream(n)
      <4>1. buffer \in Seq(Numbers)
        BY DEF Inv, TypeOK
      <4>2. Len(buffer) = 0
        <5>1. \A a, b \in Nat : a + b = 0 => a = 0
          OBVIOUS
        <5>2. Len(buffer) + Len(Delivered[n]) = 0
          BY <3>3, <3>4, Zenon
        <5> QED
          BY <3>4, <5>1, <5>2, Zenon
      <4>3. buffer = <<>>
        BY <4>1, <4>2, EmptySeq
      <4> QED
        BY <1>1, <3>2, <4>3
    <3>6. Len(Stream(n)) <= capacity
      BY <3>1, <3>3
    <3> QED
      BY <1>1, <3>1, <3>2, <3>5, <3>6, PromoteKeeps
  <2>2. CASE ~AtFront(p)
    <3>1. UNCHANGED <<pending, sent, slot>>
      BY <2>2 DEF RecvUnserved
    <3> QED
      BY <1>1, <3>1, LineStays
  <2> QED
    BY <2>1, <2>2
<1>3. CASE p \in cancelled \/ call[p].timed
  <2>1. waiters' = RemoveFirst(waiters, p) /\ call' = [call EXCEPT ![p] = Idle]
    BY <1>3 DEF RecvUnserved, Without
  <2>2. waiters' \in Seq(Procs)
    BY <2>1, WaitersTypes, RemoveFirstFacts
  <2>3. OtherTypes'
    BY <1>1, <2>2, OtherTypesKept
  <2>4. Books(Taken', ToSet(pending'), sent', slot', call')
    BY <1>1, <1>2, <2>1, IdleType, RecvBooks
  <2> QED
    BY <1>2, <2>3, <2>4, InvFromParts
<1>4. CASE ~(p \in cancelled \/ call[p].timed)
  <2>1. waiters' = waiters /\ call' = call
    BY <1>4 DEF RecvUnserved
  <2>2. OtherTypes'
    BY <1>1, <2>1, OtherTypesKept, WaitersTypes
  <2> QED
    BY <1>2, <2>1, <2>2, InvFromParts
<1> QED
  BY <1>3, <1>4

LEMMA ReserveInv ==
  ASSUME Inv, NEW p \in Procs, NEW s \in Slots, Reserve(p, s)
  PROVE  Inv'
<1> DEFINE c == [Idle EXCEPT !.pc = "reserved", !.slot = s]
<1>1. /\ call[p].pc = "idle" /\ slot[s].state = "Ready"
      /\ slot' = [slot EXCEPT ![s] = [@ EXCEPT !.state = "Reserved", !.holder = p]]
      /\ call' = [call EXCEPT ![p] = c]
      /\ UNCHANGED <<setting, buffer, pending, waiters, closed, sent, received,
                     cancelled>>
  BY DEF Reserve
<1>2. LineTypes /\ LineOrdered /\ Books(Taken, ToSet(pending), sent, slot, call)
  BY InvParts
<1>3. /\ slot' \in [Slots -> SlotRecord]
      /\ \A u \in Slots :
           IF u = s
           THEN /\ slot'[u].state = "Reserved" /\ slot'[u].holder = p
                /\ slot'[u].content = slot[u].content
           ELSE slot'[u] = slot[u]
  BY <1>1, <1>2 DEF Books, Types, SlotRecord
<1>4. c \in CallRecord /\ c.pc = "reserved" /\ c.slot = s
  BY DEF Idle, CallRecord
<1> HIDE DEF c
<1>5. Books(Taken, ToSet(pending), sent, slot', [call EXCEPT ![p] = c])
  <2>1. call[p].pc = "idle" /\ slot[s].state = "Ready"
    BY <1>1
  <2> QED
    BY <1>2, <1>3, <1>4, <2>1, ReserveBooks
<1>6. LineTypes' /\ LineOrdered'
  BY <1>1, <1>2 DEF LineTypes, LineOrdered, capacity
<1>7. OtherTypes'
  BY <1>1, OtherTypesKept, WaitersTypes
<1>8. Books(Taken', ToSet(pending'), sent', slot', call')
  <2>1. Taken' = Taken /\ pending' = pending /\ sent' = sent
    BY <1>1 DEF Taken
  <2> QED
    BY <1>1, <1>5, <2>1
<1> QED
  BY <1>6, <1>7, <1>8, InvFromParts

LEMMA ResetInv == ASSUME Inv, NEW s \in Slots, Reset(s) PROVE Inv'
<1>1. /\ slot[s].content < MaxResets
      /\ slot' = [slot EXCEPT ![s] = [state |-> "Ready", holder |-> None,
                                      content |-> @.content + 1]]
      /\ UNCHANGED <<setting, buffer, pending, waiters, closed, sent, received, call,
                     cancelled>>
  BY DEF Reset
<1>2. LineTypes /\ LineOrdered /\ Books(Taken, ToSet(pending), sent, slot, call)
  BY InvParts
<1>3. /\ slot' \in [Slots -> SlotRecord]
      /\ \A u \in Slots :
           IF u = s
           THEN /\ slot'[u].state = "Ready" /\ slot'[u].holder = None
                /\ slot'[u].content = slot[u].content + 1
           ELSE slot'[u] = slot[u]
  <2>1. slot \in [Slots -> SlotRecord]
    BY <1>2 DEF Books, Types
  <2>2. [state |-> "Ready", holder |-> None, content |-> slot[s].content + 1]
          \in SlotRecord
    BY <1>1, <2>1, BoundsNat DEF SlotRecord
  <2> QED
    BY <1>1, <2>1, <2>2
<1>4. Books(Taken, ToSet(pending), sent, slot', call)
  BY <1>2, <1>3, ResetBooks
<1>5. LineTypes' /\ LineOrdered'
  BY <1>1, <1>2 DEF LineTypes, LineOrdered, capacity
<1>6. OtherTypes'
  BY <1>1, OtherTypesKept, WaitersTypes
<1>7. Books(Taken', ToSet(pending'), sent', slot', call')
  <2>1. Taken' = Taken /\ pending' = pending /\ sent' = sent /\ call' = call
    BY <1>1 DEF Taken
  <2> QED
    BY <1>4, <2>1
<1> QED
  BY <1>5, <1>6, <1>7, InvFromParts
-----------------------------------------------------------------------------
(* The steps of senders *)

LEMMA NewSendType ==
  ASSUME slot \in [Slots -> SlotRecord], NEW p \in Procs,
         NEW s \in Slots \cup {None}, NEW state \in SendStates
  PROVE  /\ NewSend(p, s, state) \in SendRecord
         /\ NewSend(p, s, state).by = p
         /\ NewSend(p, s, state).slot = s
         /\ NewSend(p, s, state).state = state
         /\ s # None => NewSend(p, s, state).content = slot[s].content
<1>1. s # None => slot[s].content \in 0..MaxResets
  BY DEF SlotRecord
<1>2. (IF s = None THEN 0 ELSE slot[s].content) \in 0..MaxResets
  BY <1>1, BoundsNat
<1> QED
  BY <1>2 DEF NewSend, SendRecord

\* Sends that leave the queue do not touch the slot of a caller that is about to send.
LEMMA AboutSlot ==
  ASSUME Inv, NEW n \in 0..Len(pending), NEW p \in Procs, NEW s, About(p, s, call)
  PROVE  /\ s \in Slots \cup {None}
         /\ s # None =>
              /\ SlotAfter(n)[s].content = slot[s].content
              /\ SlotAfter(n)[s].holder = p <=> slot[s].holder = p
              /\ slot[s].holder = p => SlotAfter(n)[s] = slot[s]
<1>1. /\ Books(Taken, ToSet(pending), sent, slot, call)
      /\ Types(sent, slot, call) /\ Lined(Taken, ToSet(pending), sent)
  BY DEF Inv, Books
<1>2. /\ s \in Slots \cup {None}
      /\ \A i \in DOMAIN sent : sent[i].state \in Unanswered => sent[i].by # p
      /\ p # None /\ None \notin Slots
  BY <1>1, AboutFacts, NoneIsNothing
<1>3. \A i \in Passed(n) : i \in DOMAIN sent /\ sent[i].by # p /\ Deliverable(i)
  <2>1. Left(n) \subseteq ToSet(pending)
    BY LeftPending DEF Inv
  <2> QED
    BY <1>1, <1>2, <2>1 DEF Passed, Lined, Unanswered
<1>4. \A u \in Slots :
        IF \E i \in Passed(n) : sent[i].slot = u
        THEN /\ SlotAfter(n)[u].state = "Moved"
             /\ SlotAfter(n)[u].holder = None
             /\ SlotAfter(n)[u].content = slot[u].content
        ELSE SlotAfter(n)[u] = slot[u]
  BY <1>1, SlotAfterFacts DEF Types
<1>5. ASSUME s # None
      PROVE  /\ SlotAfter(n)[s].content = slot[s].content
             /\ SlotAfter(n)[s].holder = p <=> slot[s].holder = p
             /\ slot[s].holder = p => SlotAfter(n)[s] = slot[s]
  <2>1. s \in Slots
    BY <1>2, <1>5
  <2>2. CASE \E i \in Passed(n) : sent[i].slot = s
    <3>1. PICK i \in Passed(n) : sent[i].slot = s
      BY <2>2
    <3>2. slot[s].holder = sent[i].by /\ sent[i].by # p
      BY <1>3, <1>5, <3>1 DEF Deliverable, Committable
    <3> QED
      BY <1>2, <1>4, <2>1, <2>2, <3>2
  <2>3. CASE ~\E i \in Passed(n) : sent[i].slot = s
    BY <1>4, <2>1, <2>3
  <2> QED
    BY <2>2, <2>3
<1> QED
  BY <1>2, <1>5

\* What Released does to the slots.
LEMMA ReleasedFacts ==
  ASSUME slot \in [Slots -> SlotRecord], NEW slt \in [Slots -> SlotRecord],
         NEW p \in Procs, NEW s \in Slots \cup {None},
         s # None => (slt[s].holder = p <=> slot[s].holder = p)
  PROVE  /\ Released(p, s, slt) \in [Slots -> SlotRecord]
         /\ \A u \in Slots :
              IF u = s /\ slt[u].holder = p
              THEN /\ Released(p, s, slt)[u].state = "Ready"
                   /\ Released(p, s, slt)[u].holder = None
                   /\ Released(p, s, slt)[u].content = slt[u].content
              ELSE Released(p, s, slt)[u] = slt[u]
<1>1. None \notin Slots
  BY NoneIsNothing
<1>2. CASE s # None /\ Committable(p, s)
  <2>1. Released(p, s, slt) = [slt EXCEPT ![s] = [@ EXCEPT !.state = "Ready",
                                                          !.holder = None]]
    BY <1>2 DEF Released
  <2>2. s \in Slots /\ slt[s].holder = p
    BY <1>2 DEF Committable
  <2> DEFINE r == [slt[s] EXCEPT !.state = "Ready", !.holder = None]
  <2>3. slt[s] \in SlotRecord
    BY <2>2
  <2>4. /\ r \in SlotRecord /\ r.state = "Ready" /\ r.holder = None
        /\ r.content = slt[s].content
    BY <2>3 DEF SlotRecord
  <2>5. Released(p, s, slt) = [slt EXCEPT ![s] = r]
    BY <2>1
  <2> HIDE DEF r
  <2> QED
    BY <2>2, <2>4, <2>5
<1>3. CASE ~(s # None /\ Committable(p, s))
  <2>1. Released(p, s, slt) = slt
    BY <1>3 DEF Released
  <2>2. \A u \in Slots : ~(u = s /\ slt[u].holder = p)
    BY <1>1, <1>3 DEF Committable
  <2> QED
    BY <2>1, <2>2
<1> QED
  BY <1>2, <1>3

LEMMA SendClosedInv == ASSUME Inv, NEW p \in Procs, SendClosed(p) PROVE Inv'
<1> DEFINE s == call[p].slot
<1>1. /\ About(p, s, call)
      /\ slot' = Released(p, s, slot)
      /\ call' = [call EXCEPT ![p] = Idle]
      /\ UNCHANGED <<setting, buffer, pending, waiters, closed, sent, received,
                     cancelled>>
  BY DEF SendClosed, About
<1>2. LineTypes /\ LineOrdered /\ Books(Taken, ToSet(pending), sent, slot, call)
  BY InvParts
<1> HIDE DEF s
<1>3. s \in Slots \cup {None} /\ slot \in [Slots -> SlotRecord]
  BY <1>1, <1>2, AboutFacts DEF Books, Types
<1>4. /\ slot' \in [Slots -> SlotRecord]
      /\ \A u \in Slots :
           IF u = s /\ slot[u].holder = p
           THEN /\ slot'[u].state = "Ready" /\ slot'[u].holder = None
                /\ slot'[u].content = slot[u].content
           ELSE slot'[u] = slot[u]
  BY <1>1, <1>3, ReleasedFacts
<1>5. Books(Taken, ToSet(pending), sent, slot', [call EXCEPT ![p] = Idle])
  <2>1. About(p, s, call)
    BY <1>1
  <2> QED
    BY <1>2, <1>4, <2>1, ReleaseBooks
<1>6. LineTypes' /\ LineOrdered'
  BY <1>1, <1>2 DEF LineTypes, LineOrdered, capacity
<1>7. OtherTypes'
  BY <1>1, OtherTypesKept, WaitersTypes
<1>8. Books(Taken', ToSet(pending'), sent', slot', call')
  <2>1. Taken' = Taken /\ pending' = pending /\ sent' = sent
    BY <1>1 DEF Taken
  <2> QED
    BY <1>1, <1>5, <2>1
<1> QED
  BY <1>6, <1>7, <1>8, InvFromParts

LEMMA SendAnsweredInv == ASSUME Inv, NEW p \in Procs, SendAnswered(p) PROVE Inv'
<1> DEFINE i == call[p].id
           st == IF sent[i].state = "consumed" THEN "ok" ELSE "refused"
<1>1. /\ call[p].pc = "send" /\ sent[i].state \in {"consumed", "failed"}
      /\ sent' = [sent EXCEPT ![i].state = IF @ = "consumed" THEN "ok" ELSE "refused"]
      /\ call' = [call EXCEPT ![p] = Idle]
      /\ UNCHANGED <<setting, buffer, pending, waiters, closed, received, slot,
                     cancelled>>
  BY DEF SendAnswered
<1>2. LineTypes /\ LineOrdered /\ Books(Taken, ToSet(pending), sent, slot, call)
  BY InvParts
<1>3. i \in DOMAIN sent /\ sent \in Seq(SendRecord)
  BY <1>1, <1>2 DEF Books, Types, Awaited
<1>4. sent' = [sent EXCEPT ![i].state = st]
  BY <1>1, <1>3
<1>5. Books(Taken, ToSet(pending), [sent EXCEPT ![i].state = st], slot,
            [call EXCEPT ![p] = Idle])
  <2>1. call[p].pc = "send" /\ sent[i].state # "pending"
    BY <1>1
  <2> QED
    BY <1>2, <2>1, AnswerBooks
<1>6. sent' \in Seq(SendRecord) /\ Len(sent') = Len(sent)
  <2>1. st \in SendStates
    BY DEF SendStates
  <2> HIDE DEF st, i
  <2> QED
    BY <1>3, <1>4, <2>1, UpdatedSend
<1>7. LineTypes' /\ LineOrdered'
  <2>1. LineTypes'
    BY <1>1, <1>2, <1>6 DEF LineTypes, capacity
  <2>2. LineOrdered'
    BY <1>1, <1>2 DEF LineOrdered
  <2> QED
    BY <2>1, <2>2
<1>8. OtherTypes'
  BY <1>1, OtherTypesKept, WaitersTypes
<1>9. Books(Taken', ToSet(pending'), sent', slot', call')
  <2>1. Taken' = Taken /\ pending' = pending /\ slot' = slot
    BY <1>1 DEF Taken
  <2> QED
    BY <1>1, <1>4, <1>5, <2>1
<1> QED
  BY <1>7, <1>8, <1>9, InvFromParts

LEMMA SendUnansweredInv == ASSUME Inv, NEW p \in Procs, SendUnanswered(p) PROVE Inv'
<1> DEFINE i == call[p].id
           s == call[p].slot
<1>1. /\ call[p].pc = "send" /\ sent[i].state = "pending"
      /\ pending' = RemoveFirst(pending, i)
      /\ sent' = [sent EXCEPT ![i].state = "refused"]
      /\ slot' = Released(p, s, slot)
      /\ call' = [call EXCEPT ![p] = Idle]
      /\ UNCHANGED <<setting, buffer, waiters, closed, received, cancelled>>
  BY DEF SendUnanswered, StillPending
<1>2. LineTypes /\ LineOrdered /\ Books(Taken, ToSet(pending), sent, slot, call)
  BY InvParts
<1>3. /\ i \in DOMAIN sent /\ sent \in Seq(SendRecord) /\ sent[i].slot = s
      /\ slot \in [Slots -> SlotRecord]
  BY <1>1, <1>2 DEF Books, Types, Awaited
<1>4. s \in Slots \cup {None}
  BY <1>3, SendTypes
<1>5. /\ slot' \in [Slots -> SlotRecord]
      /\ \A u \in Slots :
           IF u = s /\ slot[u].holder = p
           THEN /\ slot'[u].state = "Ready" /\ slot'[u].holder = None
                /\ slot'[u].content = slot[u].content
           ELSE slot'[u] = slot[u]
  <2>1. slot' = Released(p, s, slot)
    BY <1>1
  <2> HIDE DEF s
  <2>2. /\ Released(p, s, slot) \in [Slots -> SlotRecord]
        /\ \A u \in Slots :
             IF u = s /\ slot[u].holder = p
             THEN /\ Released(p, s, slot)[u].state = "Ready"
                  /\ Released(p, s, slot)[u].holder = None
                  /\ Released(p, s, slot)[u].content = slot[u].content
             ELSE Released(p, s, slot)[u] = slot[u]
    BY <1>3, <1>4, ReleasedFacts
  <2> QED
    BY <2>1, <2>2
<1>6. Books(Taken, ToSet(pending) \ {i}, [sent EXCEPT ![i].state = "refused"], slot',
            [call EXCEPT ![p] = Idle])
  <2>1. call[p].pc = "send" /\ sent[i].state = "pending"
    BY <1>1
  <2> QED
    BY <1>2, <1>5, <2>1, GiveUpBooks
<1>7. sent' \in Seq(SendRecord) /\ Len(sent') = Len(sent)
  <2>1. "refused" \in SendStates
    BY DEF SendStates
  <2> HIDE DEF i
  <2> QED
    BY <1>1, <1>3, <2>1, UpdatedSend
<1>8. /\ pending' \in Seq(Numbers) /\ Ascending(pending')
      /\ ToSet(pending') = ToSet(pending) \ {i}
  <2>1. pending \in Seq(Numbers) /\ Ascending(pending) /\ Numbers \subseteq Nat
    BY <1>2 DEF LineTypes, LineOrdered, Numbers
  <2> HIDE DEF i
  <2> QED
    BY <1>1, <2>1, RemoveFirstFacts
<1>9. LineTypes'
  BY <1>1, <1>2, <1>7, <1>8 DEF LineTypes, capacity
<1>10. LineOrdered'
  BY <1>1, <1>2, <1>8 DEF LineOrdered, Before
<1>11. OtherTypes'
  BY <1>1, OtherTypesKept, WaitersTypes
<1>12. Books(Taken', ToSet(pending'), sent', slot', call')
  <2>1. Taken' = Taken
    BY <1>1 DEF Taken
  <2> QED
    BY <1>1, <1>6, <1>8, <2>1
<1> QED
  BY <1>9, <1>10, <1>11, <1>12, InvFromParts

\* What holds when p enters a send, once the pending sends are promoted.
LEMMA EnterFacts ==
  ASSUME Inv, NEW p \in Procs, NEW s, Sending(p, s), Len(sent) < setting.sends,
         NEW n, n = Leaving(Room)
  PROVE  /\ n \in 0..Len(pending)
         /\ About(p, s, call)
         /\ s \in Slots \cup {None}
         /\ Len(sent) + 1 \in Numbers
         /\ Len(SentAfter(n)) = Len(sent)
         /\ SentAfter(n) \in Seq(SendRecord)
         /\ SlotAfter(n) \in [Slots -> SlotRecord]
         /\ slot \in [Slots -> SlotRecord]
         /\ Books(Taken \cup Passed(n), ToSet(Rest(n)), SentAfter(n), SlotAfter(n), call)
         /\ \A i \in Taken \cup ToSet(pending) : i \in Nat /\ i < Len(sent) + 1
<1>1. n \in 0..Len(pending)
  BY RoomFacts
<1>2. About(p, s, call)
  BY DEF About, Sending
<1>3. s \in Slots \cup {None}
  BY <1>1, <1>2, AboutSlot
<1>4. /\ setting \in Settings /\ sent \in Seq(SendRecord)
      /\ slot \in [Slots -> SlotRecord]
  BY DEF Inv, TypeOK
<1>5. setting.sends \in 0..MaxSends
  BY <1>4, SettingsKnown
<1>6. Len(sent) + 1 \in Numbers
  BY <1>4, <1>5, LenProperties, BoundsNat DEF Numbers
<1>7. Len(SentAfter(n)) = Len(sent) /\ SentAfter(n) \in Seq(SendRecord)
  BY <1>4, SentAfterFacts
<1>8. SlotAfter(n) \in [Slots -> SlotRecord]
  BY <1>4, SlotAfterFacts
<1>9. Books(Taken \cup Passed(n), ToSet(Rest(n)), SentAfter(n), SlotAfter(n), call)
  <2>1. ToSet(Rest(n)) = ToSet(pending) \ Left(n)
    BY <1>1, StreamFacts
  <2> QED
    BY <1>1, <2>1, LeaveBooks
<1> QED
  BY <1>1, <1>2, <1>3, <1>4, <1>6, <1>7, <1>8, <1>9, LineBelow

LEMMA SendWaitInv ==
  ASSUME Inv, NEW p \in Procs, NEW s, NEW timeout, SendWait(p, s, timeout)
  PROVE  Inv'
<1> DEFINE n == Leaving(Room)
           k == Len(sent) + 1
           r == NewSend(p, s, "pending")
           c == [pc |-> "send", id |-> k, slot |-> s, timed |-> timeout = "later"]
<1>1. /\ Sending(p, s) /\ Len(sent) < setting.sends
      /\ buffer' = Stream(n)
      /\ pending' = Append(Rest(n), k)
      /\ sent' = Append(SentAfter(n), r)
      /\ slot' = SlotAfter(n)
      /\ call' = [call EXCEPT ![p] = c]
      /\ UNCHANGED <<setting, waiters, closed, received, cancelled>>
  BY DEF SendWait, Rest
<1>2. /\ n \in 0..Len(pending) /\ About(p, s, call) /\ s \in Slots \cup {None}
      /\ k \in Numbers /\ Len(SentAfter(n)) = Len(sent)
      /\ SentAfter(n) \in Seq(SendRecord)
      /\ SlotAfter(n) \in [Slots -> SlotRecord] /\ slot \in [Slots -> SlotRecord]
      /\ Books(Taken \cup Passed(n), ToSet(Rest(n)), SentAfter(n), SlotAfter(n), call)
      /\ \A i \in Taken \cup ToSet(pending) : i \in Nat /\ i < k
  <2>1. Sending(p, s) /\ Len(sent) < setting.sends /\ n = Leaving(Room)
    BY <1>1
  <2> HIDE DEF n, r, c
  <2> QED
    BY <2>1, EnterFacts
<1>3. Len(Stream(n)) <= capacity
  BY RoomFacts
<1>4. c \in CallRecord /\ c.pc = "send" /\ c.id = k /\ c.slot = s
  BY <1>2 DEF CallRecord
<1>5. "pending" \in SendStates
  BY DEF SendStates
<1> HIDE DEF n, c, r
<1>6. /\ r \in SendRecord /\ r.by = p /\ r.slot = s /\ r.state = "pending"
      /\ s # None => r.content = slot[s].content
  BY <1>2, <1>5, NewSendType DEF r
<1>7. s # None => r.content = SlotAfter(n)[s].content
  BY <1>2, <1>6, AboutSlot
<1>8. /\ Stream(n) \in Seq(Numbers) /\ Rest(n) \in Seq(Numbers)
      /\ ToSet(Stream(n)) = ToSet(buffer) \cup Passed(n)
      /\ ToSet(Rest(n)) = ToSet(pending) \ Left(n)
      /\ Passed(n) \subseteq ToSet(pending)
      /\ Ascending(Stream(n)) /\ Ascending(Rest(n))
      /\ Before(ToSet(received), ToSet(Stream(n)))
      /\ Before(ToSet(received), ToSet(Rest(n)))
      /\ Before(ToSet(Stream(n)), ToSet(Rest(n)))
  BY <1>2, StreamFacts
<1> HIDE DEF k
<1>9. /\ pending' \in Seq(Numbers) /\ Ascending(pending')
      /\ ToSet(pending') = ToSet(Rest(n)) \cup {k}
  <2>1. \A i \in ToSet(Rest(n)) : i < k
    BY <1>2, <1>8
  <2> QED
    BY <1>1, <1>2, <1>8, <2>1, AscendingAppend
<1>10. Taken' = Taken \cup Passed(n)
  BY <1>1, <1>8 DEF Taken
<1>11. Books(Taken', ToSet(pending'), sent', slot', call')
  <2>1. c.id = Len(SentAfter(n)) + 1 /\ k = Len(SentAfter(n)) + 1
    BY <1>2, <1>4 DEF k
  <2>2. Books(Taken \cup Passed(n), ToSet(Rest(n)) \cup {Len(SentAfter(n)) + 1},
              Append(SentAfter(n), r), SlotAfter(n), [call EXCEPT ![p] = c])
    BY <1>2, <1>4, <1>6, <1>7, <2>1, WaitBooks
  <2> QED
    BY <1>1, <1>9, <1>10, <2>1, <2>2
<1>12. LineTypes'
  <2>1. sent' \in Seq(SendRecord) /\ Len(sent') = k
    BY <1>1, <1>2, <1>6, AppendProperties DEF k
  <2>2. Len(sent') <= MaxSends
    BY <1>2, <2>1 DEF Numbers
  <2>3. received \in Seq(Numbers)
    BY DEF Inv, TypeOK
  <2> QED
    BY <1>1, <1>3, <1>8, <1>9, <2>1, <2>2, <2>3 DEF LineTypes, capacity
<1>13. LineOrdered'
  <2>1. Ascending(received)
    BY DEF Inv, LineOrdered
  <2>2. \A i \in ToSet(received) \cup ToSet(Stream(n)) : i < k
    BY <1>2, <1>8 DEF Taken
  <2>3. Before(ToSet(received), ToSet(pending'))
    BY <1>8, <1>9, <2>2 DEF Before
  <2>4. Before(ToSet(Stream(n)), ToSet(pending'))
    BY <1>8, <1>9, <2>2 DEF Before
  <2> QED
    BY <1>1, <1>8, <1>9, <2>1, <2>3, <2>4 DEF LineOrdered
<1>14. OtherTypes'
  BY <1>1, OtherTypesKept, WaitersTypes
<1> QED
  BY <1>11, <1>12, <1>13, <1>14, InvFromParts

LEMMA SendGivesUpInv ==
  ASSUME Inv, NEW p \in Procs, NEW s, NEW timeout, SendGivesUp(p, s, timeout)
  PROVE  Inv'
<1> DEFINE n == Leaving(Room)
           r == NewSend(p, s, "refused")
           slt == Released(p, s, SlotAfter(n))
<1>1. /\ Sending(p, s) /\ Len(sent) < setting.sends
      /\ buffer' = Stream(n)
      /\ pending' = Rest(n)
      /\ sent' = Append(SentAfter(n), r)
      /\ slot' = slt
      /\ call' = [call EXCEPT ![p] = Idle]
      /\ UNCHANGED <<setting, waiters, closed, received, cancelled>>
  BY DEF SendGivesUp, Rest
<1>2. /\ n \in 0..Len(pending) /\ About(p, s, call) /\ s \in Slots \cup {None}
      /\ Len(sent) + 1 \in Numbers /\ Len(SentAfter(n)) = Len(sent)
      /\ SentAfter(n) \in Seq(SendRecord)
      /\ SlotAfter(n) \in [Slots -> SlotRecord] /\ slot \in [Slots -> SlotRecord]
      /\ Books(Taken \cup Passed(n), ToSet(Rest(n)), SentAfter(n), SlotAfter(n), call)
  BY <1>1, EnterFacts
<1>3. Len(Stream(n)) <= capacity
  BY RoomFacts
<1>4. "refused" \in SendStates
  BY DEF SendStates
<1>5. None \notin Slots
  BY NoneIsNothing
<1> HIDE DEF n, r, slt
<1>6. /\ r \in SendRecord /\ r.by = p /\ r.slot = s /\ r.state = "refused"
      /\ s # None => r.content = slot[s].content
  BY <1>2, <1>4, NewSendType DEF r
<1>7. s # None => /\ SlotAfter(n)[s].content = slot[s].content
                  /\ SlotAfter(n)[s].holder = p <=> slot[s].holder = p
  BY <1>2, AboutSlot
<1>8. /\ slt \in [Slots -> SlotRecord]
      /\ \A u \in Slots :
           IF u = s /\ SlotAfter(n)[u].holder = p
           THEN /\ slt[u].state = "Ready" /\ slt[u].holder = None
                /\ slt[u].content = SlotAfter(n)[u].content
           ELSE slt[u] = SlotAfter(n)[u]
  BY <1>2, <1>7, ReleasedFacts DEF slt
<1>9. Books(Taken \cup Passed(n), ToSet(Rest(n)), SentAfter(n), slt,
            [call EXCEPT ![p] = Idle])
  <2> DEFINE T == Taken \cup Passed(n)
             W == ToSet(Rest(n))
             snt == SentAfter(n)
             old == SlotAfter(n)
  <2>1. /\ Books(T, W, snt, old, call) /\ About(p, s, call)
        /\ slt \in [Slots -> SlotRecord]
        /\ \A u \in Slots :
             IF u = s /\ old[u].holder = p
             THEN /\ slt[u].state = "Ready" /\ slt[u].holder = None
                  /\ slt[u].content = old[u].content
             ELSE slt[u] = old[u]
    BY <1>2, <1>8
  <2> HIDE DEF T, W, snt, old
  <2>2. Books(T, W, snt, slt, [call EXCEPT ![p] = Idle])
    BY <2>1, ReleaseBooks
  <2> QED
    BY <2>2 DEF T, W, snt, old
<1>10. Books(Taken \cup Passed(n), ToSet(Rest(n)), Append(SentAfter(n), r), slt,
             [call EXCEPT ![p] = Idle])
  <2>1. r.slot # None => r.content <= slt[r.slot].content
    <3>1. ASSUME s # None PROVE r.content = slt[s].content /\ r.content \in Nat
      <4>1. s \in Slots /\ slot[s].content \in Nat
        BY <1>2, <3>1, BoundsNat DEF SlotRecord
      <4> QED
        BY <1>6, <1>7, <1>8, <3>1, <4>1
    <3> QED
      BY <1>6, <3>1
  <2> QED
    BY <1>6, <1>9, <2>1, RefusedBooks
<1>11. /\ Stream(n) \in Seq(Numbers) /\ Rest(n) \in Seq(Numbers)
       /\ ToSet(Stream(n)) = ToSet(buffer) \cup Passed(n)
       /\ Ascending(Stream(n)) /\ Ascending(Rest(n))
       /\ Before(ToSet(received), ToSet(Stream(n)))
       /\ Before(ToSet(received), ToSet(Rest(n)))
       /\ Before(ToSet(Stream(n)), ToSet(Rest(n)))
  BY <1>2, StreamFacts
<1>12. Taken' = Taken \cup Passed(n)
  BY <1>1, <1>11 DEF Taken
<1>13. Books(Taken', ToSet(pending'), sent', slot', call')
  BY <1>1, <1>10, <1>12
<1>14. LineTypes'
  <2>1. sent' \in Seq(SendRecord) /\ Len(sent') = Len(sent) + 1
    BY <1>1, <1>2, <1>6, AppendProperties
  <2>2. Len(sent') <= MaxSends
    BY <1>2, <2>1 DEF Numbers
  <2>3. received \in Seq(Numbers)
    BY DEF Inv, TypeOK
  <2> QED
    BY <1>1, <1>3, <1>11, <2>1, <2>2, <2>3 DEF LineTypes, capacity
<1>15. LineOrdered'
  <2>1. Ascending(received)
    BY DEF Inv, LineOrdered
  <2> QED
    BY <1>1, <1>11, <2>1 DEF LineOrdered
<1>16. OtherTypes'
  BY <1>1, OtherTypesKept, WaitersTypes
<1> QED
  BY <1>13, <1>14, <1>15, <1>16, InvFromParts

LEMMA SendBufferedInv ==
  ASSUME Inv, NEW p \in Procs, NEW s, SendBuffered(p, s)
  PROVE  Inv'
<1> DEFINE n == Leaving(Room)
           k == Len(sent) + 1
           r == NewSend(p, s, "ok")
<1>1. /\ Sending(p, s) /\ Len(sent) < setting.sends
      /\ n = Len(pending) /\ Len(Stream(n)) < capacity
      /\ pending' = <<>>
      /\ call' = [call EXCEPT ![p] = Idle]
      /\ UNCHANGED <<setting, waiters, closed, received, cancelled>>
  BY DEF SendBuffered, FitsBuffer
<1>2. /\ n \in 0..Len(pending) /\ About(p, s, call) /\ s \in Slots \cup {None}
      /\ k \in Numbers /\ Len(SentAfter(n)) = Len(sent)
      /\ SentAfter(n) \in Seq(SendRecord)
      /\ SlotAfter(n) \in [Slots -> SlotRecord] /\ slot \in [Slots -> SlotRecord]
      /\ Books(Taken \cup Passed(n), ToSet(Rest(n)), SentAfter(n), SlotAfter(n), call)
      /\ \A i \in Taken \cup ToSet(pending) : i \in Nat /\ i < k
  BY <1>1, EnterFacts
<1>3. capacity \in Nat
  BY RoomFacts
<1>4. /\ Stream(n) \in Seq(Numbers)
      /\ ToSet(Stream(n)) = ToSet(buffer) \cup Passed(n)
      /\ Passed(n) \subseteq ToSet(pending)
      /\ Ascending(Stream(n))
      /\ Before(ToSet(received), ToSet(Stream(n)))
  BY <1>2, StreamFacts
<1>5. /\ Rest(n) = <<>> /\ ToSet(<<>>) = {}
      /\ pending' \in Seq(Numbers) /\ Ascending(pending')
  <2>1. Len(pending) \in Nat
    BY LenProperties DEF Inv, TypeOK
  <2>2. Rest(n) = <<>>
    BY <1>1, <2>1, SubSeqEmpty DEF Rest
  <2>3. DOMAIN <<>> = {}
    OBVIOUS
  <2>4. ToSet(<<>>) = {}
    BY <2>3, Zenon DEF ToSet
  <2> QED
    BY <1>1, <2>2, <2>3, <2>4 DEF Ascending
<1>6. "ok" \in SendStates /\ None \notin Slots
  BY NoneIsNothing DEF SendStates
<1>7. received \in Seq(Numbers) /\ Ascending(received)
  BY DEF Inv, TypeOK, LineOrdered
<1>8. s # None => /\ SlotAfter(n)[s].content = slot[s].content
                  /\ SlotAfter(n)[s].holder = p <=> slot[s].holder = p
  BY <1>2, AboutSlot
<1>9. Len(Stream(n)) \in Nat
  BY <1>4, LenProperties
<1>10. OtherTypes'
  BY <1>1, OtherTypesKept, WaitersTypes
<1>11. Books(Taken \cup Passed(n), ToSet(pending'), SentAfter(n), SlotAfter(n), call)
  BY <1>1, <1>2, <1>5
<1>12. CASE Committable(p, s)
  <2> DEFINE slt == IF s = None THEN SlotAfter(n)
                    ELSE [SlotAfter(n) EXCEPT ![s] = Committed(s)]
  <2>1. /\ sent' = Append(SentAfter(n), r)
        /\ buffer' = Append(Stream(n), k)
        /\ slot' = slt
    BY <1>12 DEF SendBuffered
  <2> HIDE DEF n, r
  <2>2. /\ r \in SendRecord /\ r.by = p /\ r.slot = s /\ r.state = "ok"
        /\ s # None => r.content = slot[s].content
    BY <1>2, <1>6, NewSendType DEF r
  <2>3. /\ slt \in [Slots -> SlotRecord]
        /\ \A u \in Slots :
             IF u = s
             THEN /\ slt[u].state = "Moved" /\ slt[u].holder = None
                  /\ slt[u].content = SlotAfter(n)[u].content
             ELSE slt[u] = SlotAfter(n)[u]
    <3>1. CASE s = None
      BY <1>2, <1>6, <3>1
    <3>2. CASE s # None
      <4>1. s \in Slots
        BY <1>2, <3>2
      <4>2. /\ Committed(s) \in SlotRecord /\ Committed(s).state = "Moved"
            /\ Committed(s).holder = None
            /\ Committed(s).content = slot[s].content
        <5>1. slot[s] \in SlotRecord
          BY <1>2, <4>1
        <5> QED
          BY <5>1 DEF Committed, SlotRecord
      <4> QED
        BY <1>2, <1>8, <3>2, <4>1, <4>2
    <3> QED
      BY <3>1, <3>2
  <2> HIDE DEF slt
  <2>4. /\ s # None => SlotAfter(n)[s].holder = p
        /\ s # None => r.content = SlotAfter(n)[s].content
    BY <1>8, <1>12, <2>2 DEF Committable
  <2>5. Books(Taken \cup Passed(n) \cup {Len(SentAfter(n)) + 1}, ToSet(pending'),
              Append(SentAfter(n), r), slt, [call EXCEPT ![p] = Idle])
    BY <1>2, <1>11, <2>2, <2>3, <2>4, BufferedBooks
  <2>6. k = Len(SentAfter(n)) + 1
    BY <1>2
  <2>7. \A i \in ToSet(received) \cup ToSet(Stream(n)) : i < k
    BY <1>2, <1>4 DEF Taken
  <2>8. Len(Append(SentAfter(n), r)) = k
    BY <1>2, <2>2, AppendProperties
  <2>9. k <= MaxSends
    BY <1>2 DEF Numbers
  <2> HIDE DEF k
  <2>10. /\ buffer' \in Seq(Numbers) /\ Ascending(buffer')
         /\ ToSet(buffer') = ToSet(Stream(n)) \cup {k}
    BY <1>2, <1>4, <2>1, <2>7, AscendingAppend
  <2>11. Taken' = Taken \cup Passed(n) \cup {k}
    BY <1>1, <1>4, <2>10 DEF Taken
  <2>12. Books(Taken', ToSet(pending'), sent', slot', call')
    BY <1>1, <2>1, <2>5, <2>6, <2>11
  <2>13. LineTypes'
    <3>1. sent' \in Seq(SendRecord)
      BY <1>2, <2>1, <2>2, AppendProperties
    <3>2. Len(buffer') <= capacity' /\ Len(sent') <= MaxSends
      <4>1. Len(buffer') = Len(Stream(n)) + 1
        BY <1>2, <1>4, <2>1, AppendProperties
      <4>2. capacity' = capacity
        BY <1>1 DEF capacity
      <4> QED
        BY <1>1, <1>3, <1>9, <2>1, <2>8, <2>9, <4>1, <4>2
    <3> QED
      BY <1>1, <1>5, <1>7, <2>10, <3>1, <3>2 DEF LineTypes
  <2>14. LineOrdered'
    <3>1. Before(ToSet(received), ToSet(buffer'))
      BY <1>4, <2>7, <2>10 DEF Before
    <3>2. ToSet(pending') = {}
      BY <1>1, <1>5
    <3> QED
      BY <1>1, <1>5, <1>7, <2>10, <3>1, <3>2 DEF LineOrdered, Before
  <2> QED
    BY <1>10, <2>12, <2>13, <2>14, InvFromParts
<1>13. CASE ~Committable(p, s)
  <2>1. sent' = SentAfter(n) /\ buffer' = Stream(n) /\ slot' = SlotAfter(n)
    BY <1>13 DEF SendBuffered
  <2> HIDE DEF n
  <2>2. s \in Slots /\ SlotAfter(n)[s].holder # p
    BY <1>2, <1>8, <1>13 DEF Committable
  <2>3. Books(Taken \cup Passed(n), ToSet(pending'), SentAfter(n), SlotAfter(n),
              [call EXCEPT ![p] = Idle])
    BY <1>2, <1>11, <2>2, ReleaseBooks
  <2>4. Taken' = Taken \cup Passed(n)
    BY <1>1, <1>4, <2>1 DEF Taken
  <2>5. Books(Taken', ToSet(pending'), sent', slot', call')
    BY <1>1, <2>1, <2>3, <2>4
  <2>6. LineTypes'
    <3>1. Len(sent) <= MaxSends
      BY DEF Inv, TypeOK
    <3>2. Len(buffer') <= capacity'
      BY <1>1, <1>3, <1>9, <2>1 DEF capacity
    <3> QED
      BY <1>1, <1>2, <1>4, <1>5, <1>7, <2>1, <3>1, <3>2 DEF LineTypes
  <2>7. LineOrdered'
    <3>1. ToSet(pending') = {}
      BY <1>1, <1>5
    <3> QED
      BY <1>1, <1>4, <1>5, <1>7, <2>1, <3>1 DEF LineOrdered, Before
  <2> QED
    BY <1>10, <2>5, <2>6, <2>7, InvFromParts
<1> QED
  BY <1>12, <1>13

LEMMA CloseInv == ASSUME Inv, Close PROVE Inv'
<1>1. LineTypes' /\ LineOrdered' /\ Books(Taken', ToSet(pending'), sent', slot', call)
  BY LineStays DEF Close
<1>2. OtherTypes'
  BY InvParts DEF Close, OtherTypes
<1> QED
  BY <1>1, <1>2, InvFromParts DEF Close

LEMMA CancelInv == ASSUME Inv, NEW p \in Procs, Cancel(p) PROVE Inv'
<1>1. LineTypes' /\ LineOrdered' /\ Books(Taken', ToSet(pending'), sent', slot', call)
  BY LineStays DEF Cancel
<1>2. OtherTypes'
  BY InvParts DEF Cancel, OtherTypes
<1> QED
  BY <1>1, <1>2, InvFromParts DEF Cancel

LEMMA StutterInv == ASSUME Inv, UNCHANGED vars PROVE Inv'
<1>1. LineTypes' /\ LineOrdered' /\ Books(Taken', ToSet(pending'), sent', slot', call)
  BY LineStays DEF vars
<1>2. OtherTypes'
  BY OtherTypesKept, WaitersTypes DEF vars
<1> QED
  BY <1>1, <1>2, InvFromParts DEF vars

LEMMA StepInv == Inv /\ [Next]_vars => Inv'
<1> SUFFICES ASSUME Inv, [Next]_vars PROVE Inv'
  OBVIOUS
<1>1. ASSUME NEW p \in Procs, Poll(p) PROVE Inv'
  BY <1>1, RecvServedInv, RecvUnservedInv, SendAnsweredInv, SendUnansweredInv DEF Poll
<1>2. ASSUME NEW p \in Procs, Calls(p) PROVE Inv'
  <2>1. CASE RecvNow(p)
    BY <2>1, RecvNowInv
  <2>2. ASSUME NEW timeout, RecvWait(p, timeout) PROVE Inv'
    BY <2>2, RecvWaitInv
  <2>3. ASSUME NEW s \in Slots, Reserve(p, s) PROVE Inv'
    BY <2>3, ReserveInv
  <2>4. CASE SendClosed(p)
    BY <2>4, SendClosedInv
  <2>5. ASSUME NEW s, SendBuffered(p, s) PROVE Inv'
    BY <2>5, SendBufferedInv
  <2>6. ASSUME NEW s, NEW timeout, SendWait(p, s, timeout) PROVE Inv'
    BY <2>6, SendWaitInv
  <2>7. ASSUME NEW s, NEW timeout, SendGivesUp(p, s, timeout) PROVE Inv'
    BY <2>7, SendGivesUpInv
  <2> QED
    BY <1>2, <2>1, <2>2, <2>3, <2>4, <2>5, <2>6, <2>7 DEF Calls
<1>3. ASSUME NEW p \in Procs, Cancel(p) PROVE Inv'
  BY <1>3, CancelInv
<1>4. ASSUME NEW s \in Slots, Reset(s) PROVE Inv'
  BY <1>4, ResetInv
<1>5. CASE Close
  BY <1>5, CloseInv
<1>6. CASE UNCHANGED vars
  BY <1>6, StutterInv
<1> QED
  BY <1>1, <1>2, <1>3, <1>4, <1>5, <1>6 DEF Next

LEMMA InvHolds == Spec => []Inv
<1>1. Init => Inv
  BY InitInv
<1>2. Inv /\ [Next]_vars => Inv'
  BY StepInv
<1> QED
  BY <1>1, <1>2, PTL DEF Spec
-----------------------------------------------------------------------------
(* The channel as a FIFO queue.  A step of it is followed by what it does to the    *)
(* line, to the fates of the sends and to the room in the buffer.                   *)

\* Nobody waits to send while there is room.
FullIfPending == ~closed /\ pending # <<>> => Len(buffer) = capacity

\* At most one send enters, and a send that does not wait has its fate for good.
SentMoves ==
  /\ Len(sent') \in {Len(sent), Len(sent) + 1}
  /\ \A i \in DOMAIN sent :
       sent[i].state # "pending" => Fate(sent'[i].state) = Fate(sent[i].state)

\* At most one value is received, and a channel that is not closed may accept more.
LineMoves ==
  /\ Len(received') \in {Len(received), Len(received) + 1}
  /\ \E s \in Seq(Numbers) :
       /\ received' \o buffer' = (received \o buffer) \o s
       /\ closed => s = <<>>

Moved ==
  /\ SentMoves
  /\ LineMoves
  /\ FullIfPending'
  /\ setting' = setting
  /\ closed => closed'

LEMMA ConcatRegroups ==
  \A s, t, u \in Seq(Numbers) : (s \o t) \o u = s \o (t \o u)
<1> SUFFICES ASSUME NEW s \in Seq(Numbers), NEW t \in Seq(Numbers),
                    NEW u \in Seq(Numbers)
             PROVE  (s \o t) \o u = s \o (t \o u)
  OBVIOUS
<1> QED
  BY ConcatAssociative

\* Appending the head of what follows, and going on with its tail, changes nothing.
LEMMA HeadMoves ==
  ASSUME NEW D, NEW s \in Seq(D), NEW t \in Seq(D), t # <<>>
  PROVE  Append(s, Head(t)) \o Tail(t) = s \o t
<1>1. /\ Head(t) \in D /\ Tail(t) \in Seq(D) /\ Len(t) \in Nat \ {0}
      /\ Len(Tail(t)) = Len(t) - 1 /\ Len(s) \in Nat
  BY HeadTailProperties, EmptySeq, LenProperties
<1>2. /\ Append(s, Head(t)) \in Seq(D) /\ Len(Append(s, Head(t))) = Len(s) + 1
      /\ \A i \in 1..Len(s) : Append(s, Head(t))[i] = s[i]
      /\ Append(s, Head(t))[Len(s) + 1] = Head(t)
  BY <1>1, AppendProperties
<1> DEFINE a == Append(s, Head(t)) \o Tail(t)
           b == s \o t
<1>3. /\ a \in Seq(D) /\ b \in Seq(D) /\ Len(a) = Len(s) + Len(t)
      /\ Len(b) = Len(s) + Len(t)
  BY <1>1, <1>2, ConcatProperties
<1>4. ASSUME NEW i \in 1..Len(a) PROVE a[i] = b[i]
  <2>1. i \in 1..(Len(s) + Len(t))
    BY <1>3
  <2>2. b[i] = IF i <= Len(s) THEN s[i] ELSE t[i - Len(s)]
    BY <2>1, ConcatProperties
  <2>3. a[i] = IF i <= Len(s) + 1 THEN Append(s, Head(t))[i]
               ELSE Tail(t)[i - (Len(s) + 1)]
    <3>1. Len(Append(s, Head(t))) + Len(Tail(t)) = Len(s) + Len(t)
      BY <1>1, <1>2
    <3> QED
      BY <1>1, <1>2, <2>1, <3>1, ConcatProperties
  <2> HIDE DEF a, b
  <2>4. CASE i <= Len(s)
    <3>1. i \in 1..Len(s) /\ i <= Len(s) + 1
      BY <1>1, <2>1, <2>4
    <3> QED
      BY <1>2, <2>2, <2>3, <2>4, <3>1
  <2>5. CASE i = Len(s) + 1
    <3>1. t[1] = Head(t)
      BY <1>1, HeadTailProperties
    <3> QED
      BY <1>1, <1>2, <2>2, <2>3, <2>5, <3>1
  <2>6. CASE i > Len(s) + 1
    <3>1. i - (Len(s) + 1) \in 1..Len(Tail(t)) /\ i - (Len(s) + 1) + 1 = i - Len(s)
      BY <1>1, <2>1, <2>6
    <3>2. Tail(t)[i - (Len(s) + 1)] = t[i - (Len(s) + 1) + 1]
      BY <1>1, <3>1, HeadTailProperties
    <3> QED
      BY <1>1, <2>1, <2>2, <2>3, <2>6, <3>1, <3>2
  <2> QED
    BY <1>1, <2>1, <2>4, <2>5, <2>6
<1> HIDE DEF a, b
<1>5. a = b
  BY <1>3, <1>4, SeqEqual
<1> QED
  BY <1>5 DEF a, b

\* What the line has at its front when something is added at its end.
LEMMA PrefixOfConcat ==
  ASSUME NEW D, NEW s \in Seq(D), NEW t \in Seq(D)
  PROVE  IsPrefix(s, s \o t)
<1> DEFINE u == s \o t
           v == SubSeq(u, 1, Len(s))
           w == SubSeq(s, 1, Len(s))
<1>1. /\ u \in Seq(D) /\ Len(u) = Len(s) + Len(t)
      /\ \A i \in 1..Len(s) : u[i] = s[i]
      /\ Len(s) \in Nat /\ Len(t) \in Nat
  BY ConcatProperties, LenProperties
<1>2. \A i \in 1..Len(s) : s[i] \in D
  BY LenProperties
<1> HIDE DEF u
<1>3. v \in Seq(D) /\ Len(v) = Len(s) /\ \A i \in 1..Len(s) : v[i] = u[i]
  BY <1>1, <1>2, SubSeqProperties
<1>4. w \in Seq(D) /\ Len(w) = Len(s) /\ \A i \in 1..Len(s) : w[i] = s[i]
  BY <1>1, <1>2, SubSeqProperties
<1> HIDE DEF v, w
<1>5. v = w
  BY <1>1, <1>3, <1>4, SeqEqual
<1>6. Len(s) <= Len(u)
  BY <1>1
<1> QED
  BY <1>5, <1>6 DEF u, v, w, IsPrefix

\* The queue of those who wait is moved until it is empty or there is no room left;
\* a closed channel moves nobody.
LEMMA LeavingFills ==
  ASSUME pending \in Seq(Numbers), NEW room \in Nat
  PROVE  /\ Accepting => \/ Leaving(room) = Len(pending)
                         \/ Len(Delivered[Leaving(room)]) = room
         /\ ~Accepting => Leaving(room) = 0
<1>1. CASE ~Accepting
  BY <1>1 DEF Leaving
<1>2. CASE Accepting
  <2> DEFINE Ends == {n \in 0..Len(pending) : Len(Delivered[n]) = room}
                       \cup {Len(pending)}
  <2>1. Leaving(room) = Min(Ends)
    BY <1>2 DEF Leaving
  <2>2. Min(Ends) \in Ends
    <3>1. Ends \subseteq Nat /\ Ends # {}
      BY LenProperties
    <3> HIDE DEF Ends
    <3> QED
      BY <3>1, LeastNatural
  <2> QED
    BY <1>2, <2>1, <2>2
<1> QED
  BY <1>1, <1>2

\* A send that does not wait is not in the queue, and moving the queue leaves it alone.
LEMMA SentAfterMoves ==
  ASSUME Inv, NEW n \in 0..Len(pending)
  PROVE  /\ Len(SentAfter(n)) = Len(sent)
         /\ \A i \in DOMAIN sent :
              sent[i].state # "pending" =>
                Fate(SentAfter(n)[i].state) = Fate(sent[i].state)
<1>1. /\ Len(SentAfter(n)) = Len(sent)
      /\ \A i \in DOMAIN sent :
           SentAfter(n)[i].state = IF i \in Passed(n) THEN "consumed"
                                   ELSE IF i \in Left(n) THEN "failed"
                                   ELSE sent[i].state
  BY SentAfterFacts DEF Inv, TypeOK
<1>2. Left(n) \subseteq ToSet(pending) /\ Passed(n) \subseteq Left(n)
  BY LeftPending DEF Inv, Passed
<1>3. \A i \in DOMAIN sent : (sent[i].state = "pending") = (i \in ToSet(pending))
  BY DEF Inv, Books, Lined
<1> QED
  BY <1>1, <1>2, <1>3

\* The same when a new send enters at the end.
LEMMA EnteringMoves ==
  ASSUME Inv, NEW n \in 0..Len(pending), NEW r \in SendRecord,
         sent' = Append(SentAfter(n), r)
  PROVE  SentMoves
<1>1. /\ Len(SentAfter(n)) = Len(sent)
      /\ \A i \in DOMAIN sent :
           sent[i].state # "pending" =>
             Fate(SentAfter(n)[i].state) = Fate(sent[i].state)
  BY SentAfterMoves
<1>2. SentAfter(n) \in Seq(SendRecord) /\ sent \in Seq(SendRecord)
  BY SentAfterFacts DEF Inv, TypeOK
<1>3. /\ Len(sent') = Len(sent) + 1
      /\ \A i \in 1..Len(sent) : sent'[i] = SentAfter(n)[i]
      /\ DOMAIN sent = 1..Len(sent)
  BY <1>1, <1>2, AppendProperties, LenProperties
<1> QED
  BY <1>1, <1>3 DEF SentMoves

\* What is promoted goes behind what is in the buffer, whether or not the first value
\* is received.
LEMMA StreamMoves ==
  ASSUME Inv, NEW n \in 0..Len(pending)
  PROVE  /\ Stream(n) \in Seq(Numbers) /\ Delivered[n] \in Seq(Numbers)
         /\ Len(Stream(n)) = Len(buffer) + Len(Delivered[n])
         /\ received \o Stream(n) = (received \o buffer) \o Delivered[n]
<1>1. /\ buffer \in Seq(Numbers) /\ received \in Seq(Numbers)
      /\ pending \in Seq(Numbers) /\ Ascending(pending) /\ MaxSends \in Nat
  BY BoundsNat DEF Inv, TypeOK, LineOrdered
<1>2. Delivered[n] \in Seq(Numbers)
  BY <1>1, DeliveredFacts
<1>3. Stream(n) \in Seq(Numbers) /\ Len(Stream(n)) = Len(buffer) + Len(Delivered[n])
  BY StreamFacts
<1>4. received \o (buffer \o Delivered[n]) = (received \o buffer) \o Delivered[n]
  <2> DEFINE d == Delivered[n]
  <2>1. d \in Seq(Numbers)
    BY <1>2
  <2> HIDE DEF d
  <2>2. (received \o buffer) \o d = received \o (buffer \o d)
    BY <1>1, <2>1, ConcatRegroups, Zenon
  <2> QED
    BY <2>2, Zenon DEF d
<1> QED
  BY <1>2, <1>3, <1>4 DEF Stream

\* A closed channel delivers nothing.
LEMMA ClosedDelivers ==
  ASSUME Inv, closed, NEW room \in Nat
  PROVE  Delivered[Leaving(room)] = <<>>
<1>1. pending \in Seq(Numbers)
  BY DEF Inv, TypeOK
<1>2. Leaving(room) = 0
  BY <1>1, LeavingFills DEF Accepting
<1> QED
  BY <1>1, <1>2, DeliveredNext

LEMMA RoomTypes ==
  ASSUME Inv
  PROVE  /\ capacity \in Nat /\ Len(buffer) \in Nat
         /\ Room \in Nat /\ RoomToTake \in Nat
         /\ Room = capacity - Len(buffer) /\ RoomToTake = Room + 1
<1>1. buffer \in Seq(Numbers) /\ Len(buffer) <= capacity
  BY DEF Inv, TypeOK
<1>2. capacity \in Nat
  BY RoomFacts
<1> QED
  BY <1>1, <1>2, LenProperties DEF Room, RoomToTake

\* The rest of a queue that was moved to its end is empty.
LEMMA RestEmpty ==
  ASSUME Inv
  PROVE  Rest(Len(pending)) = <<>>
<1>1. Len(pending) \in Nat
  BY LenProperties DEF Inv, TypeOK
<1> QED
  BY <1>1, SubSeqEmpty DEF Rest

\* The line when nobody receives.
LEMMA PromotedLine ==
  ASSUME Inv, NEW room \in Nat, Leaving(room) \in 0..Len(pending),
         received' = received, buffer' = Stream(Leaving(room))
  PROVE  LineMoves
<1> DEFINE n == Leaving(room)
<1>1. received' \o buffer' = (received \o buffer) \o Delivered[n]
      /\ Delivered[n] \in Seq(Numbers)
  BY StreamMoves
<1>2. closed => Delivered[n] = <<>>
  BY ClosedDelivers
<1> HIDE DEF n
<1> QED
  BY <1>1, <1>2 DEF LineMoves

LEMMA TakeMoved ==
  ASSUME Inv, Take(Leaving(RoomToTake)), UNCHANGED <<setting, closed>>
  PROVE  Moved
<1> DEFINE n == Leaving(RoomToTake)
           d == Delivered[n]
           t == Stream(n)
<1>1. /\ n \in 0..Len(pending) /\ pending \in Seq(Numbers)
      /\ received \in Seq(Numbers)
      /\ Len(buffer) \in Nat /\ capacity \in Nat
      /\ RoomToTake = capacity - Len(buffer) + 1 /\ RoomToTake \in Nat
  BY RoomFacts, RoomTypes DEF Inv, TypeOK
<1>2. /\ t # <<>> /\ received' = Append(received, Head(t)) /\ buffer' = Tail(t)
      /\ pending' = Rest(n) /\ sent' = SentAfter(n)
  BY DEF Take, Leave, Rest
<1>3. /\ t \in Seq(Numbers) /\ d \in Seq(Numbers)
      /\ Len(t) = Len(buffer) + Len(d)
      /\ received \o t = (received \o buffer) \o d
  BY <1>1, StreamMoves
<1>4. closed => d = <<>>
  BY <1>1, ClosedDelivers
<1>5. Accepting => n = Len(pending) \/ Len(d) = RoomToTake
  BY <1>1, LeavingFills
<1>6. SentMoves
  <2>1. sent \in Seq(SendRecord)
    BY DEF Inv, TypeOK
  <2> HIDE DEF n
  <2>2. Len(SentAfter(n)) = Len(sent)
    BY <1>1, SentAfterMoves
  <2> QED
    BY <1>1, <1>2, <2>2, SentAfterMoves DEF SentMoves
<1> HIDE DEF n, d, t
<1>7. /\ Head(t) \in Numbers /\ Len(Tail(t)) = Len(t) - 1
      /\ Len(received') = Len(received) + 1
      /\ received' \o buffer' = received \o t
  <2>1. Head(t) \in Numbers /\ Len(Tail(t)) = Len(t) - 1
    BY <1>2, <1>3, HeadTailProperties
  <2>2. Len(received') = Len(received) + 1
    BY <1>1, <1>2, <2>1, AppendProperties
  <2>3. Append(received, Head(t)) \o Tail(t) = received \o t
    BY <1>1, <1>2, <1>3, HeadMoves
  <2> QED
    BY <1>2, <2>1, <2>2, <2>3, Zenon
<1>8. LineMoves
  BY <1>3, <1>4, <1>7 DEF LineMoves
<1>9. FullIfPending'
  <2> SUFFICES ASSUME ~closed', pending' # <<>> PROVE Len(buffer') = capacity'
    BY DEF FullIfPending
  <2>1. n # Len(pending)
    BY <1>2, RestEmpty
  <2>2. Len(d) = RoomToTake
    BY <1>5, <2>1 DEF Accepting
  <2>3. capacity' = capacity
    BY DEF capacity
  <2> QED
    BY <1>1, <1>2, <1>3, <1>7, <2>2, <2>3
<1> QED
  BY <1>6, <1>8, <1>9 DEF Moved

\* A caller that moves the queue as far as there is room and takes nothing.
LEMMA PromoteFull ==
  ASSUME Inv, buffer' = Stream(Leaving(Room)), setting' = setting,
         ~closed, pending' # <<>> => Leaving(Room) # Len(pending)
  PROVE  pending' # <<>> => Len(buffer') = capacity'
<1>1. /\ Leaving(Room) \in 0..Len(pending) /\ pending \in Seq(Numbers)
      /\ Room \in Nat /\ Room = capacity - Len(buffer)
      /\ Len(buffer) \in Nat /\ capacity \in Nat
  BY RoomFacts, RoomTypes DEF Inv, TypeOK
<1>2. Leaving(Room) = Len(pending) \/ Len(Delivered[Leaving(Room)]) = Room
  BY <1>1, LeavingFills DEF Accepting
<1>3. Len(Stream(Leaving(Room))) = Len(buffer) + Len(Delivered[Leaving(Room)])
  BY <1>1, StreamMoves
<1>4. capacity' = capacity
  BY DEF capacity
<1> QED
  BY <1>1, <1>2, <1>3, <1>4

LEMMA RecvWaitMoved ==
  ASSUME Inv, NEW p \in Procs, NEW timeout, RecvWait(p, timeout)
  PROVE  Moved
<1>1. UNCHANGED <<setting, closed, received>>
  BY DEF RecvWait
<1>2. CASE MayTake
  <2> DEFINE n == Leaving(RoomToTake)
  <2>1. /\ Stream(n) = <<>> /\ ~closed /\ buffer' = Stream(n)
        /\ pending' = Rest(n) /\ sent' = SentAfter(n)
    BY <1>2 DEF RecvWait, Leave, Rest
  <2>2. /\ n \in 0..Len(pending) /\ pending \in Seq(Numbers)
        /\ Len(buffer) \in Nat /\ RoomToTake \in Nat /\ RoomToTake # 0
    BY RoomFacts, RoomTypes DEF Inv, TypeOK
  <2>3. LineMoves
    BY <1>1, <2>1, <2>2, PromotedLine
  <2>4. Accepting => n = Len(pending) \/ Len(Delivered[n]) = RoomToTake
    BY <2>2, LeavingFills
  <2>5. Len(Stream(n)) = Len(buffer) + Len(Delivered[n]) /\ Delivered[n] \in Seq(Numbers)
    BY <2>2, StreamMoves
  <2> HIDE DEF n
  <2>6. Len(Delivered[n]) = 0
    BY <2>1, <2>2, <2>5, LenProperties
  <2>7. pending' = <<>>
    BY <2>1, <2>2, <2>4, <2>6, RestEmpty DEF Accepting
  <2>8. Len(SentAfter(n)) = Len(sent)
    BY <2>2, SentAfterMoves
  <2>9. SentMoves
    BY <2>1, <2>2, <2>8, SentAfterMoves DEF SentMoves
  <2> QED
    BY <1>1, <2>3, <2>7, <2>9 DEF Moved, FullIfPending
<1>3. CASE ~MayTake
  <2> DEFINE n == Leaving(Room)
  <2>1. /\ buffer' = Stream(n)
        /\ pending' = Rest(n) /\ sent' = SentAfter(n)
    BY <1>3 DEF RecvWait, Leave, Rest
  <2>2. n \in 0..Len(pending) /\ Room \in Nat
    BY RoomFacts, RoomTypes
  <2>3. LineMoves
    BY <1>1, <2>1, <2>2, PromotedLine
  <2>4. FullIfPending'
    BY <1>1, <2>1, RestEmpty, PromoteFull DEF FullIfPending
  <2> HIDE DEF n
  <2>5. Len(SentAfter(n)) = Len(sent)
    BY <2>2, SentAfterMoves
  <2>6. SentMoves
    BY <2>1, <2>2, <2>5, SentAfterMoves DEF SentMoves
  <2> QED
    BY <1>1, <2>3, <2>4, <2>6 DEF Moved
<1> QED
  BY <1>2, <1>3

\* Nothing moves but, maybe, what the senders know of their sends.
LEMMA LineStaysMoved ==
  ASSUME Inv, UNCHANGED <<buffer, received>>
  PROVE  LineMoves
<1>1. received \in Seq(Numbers) /\ buffer \in Seq(Numbers)
  BY DEF Inv, TypeOK
<1>2. received \o buffer \in Seq(Numbers)
  BY <1>1, ConcatProperties
<1>3. (received \o buffer) \o <<>> = received \o buffer
  BY <1>2, ConcatEmptySeq
<1>4. <<>> \in Seq(Numbers)
  BY EmptySeq
<1> QED
  BY <1>3, <1>4 DEF LineMoves

LEMMA StaysMoved ==
  ASSUME Inv, FullIfPending, UNCHANGED <<setting, buffer, pending, received, sent>>,
         closed => closed'
  PROVE  Moved
<1>1. LineMoves
  BY LineStaysMoved
<1>2. SentMoves
  BY DEF SentMoves
<1>3. FullIfPending'
  <2>1. closed \in BOOLEAN
    BY DEF Inv, TypeOK
  <2> QED
    BY <2>1 DEF FullIfPending, capacity
<1> QED
  BY <1>1, <1>2, <1>3 DEF Moved

LEMMA RecvServedMoved ==
  ASSUME Inv, FullIfPending, NEW p \in Procs, RecvServed(p)
  PROVE  Moved
<1>1. CASE Take(Leaving(RoomToTake))
  BY <1>1, TakeMoved DEF RecvServed
<1>2. CASE ~Take(Leaving(RoomToTake))
  BY <1>2, StaysMoved DEF RecvServed
<1> QED
  BY <1>1, <1>2

LEMMA RecvUnservedMoved ==
  ASSUME Inv, FullIfPending, NEW p \in Procs, RecvUnserved(p)
  PROVE  Moved
<1>1. UNCHANGED <<setting, buffer, closed, received>>
  BY DEF RecvUnserved
<1>2. CASE ~AtFront(p)
  <2>1. UNCHANGED <<pending, sent>>
    BY <1>2 DEF RecvUnserved
  <2> QED
    BY <1>1, <2>1, StaysMoved
<1>3. CASE AtFront(p)
  <2> DEFINE n == Leaving(RoomToTake)
  <2>1. /\ Stream(n) = <<>> /\ ~closed
        /\ pending' = Rest(n) /\ sent' = SentAfter(n)
    BY <1>3 DEF RecvUnserved, Leave, Rest
  <2>2. /\ n \in 0..Len(pending) /\ pending \in Seq(Numbers)
        /\ Len(buffer) \in Nat /\ RoomToTake \in Nat /\ RoomToTake # 0
    BY RoomFacts, RoomTypes DEF Inv, TypeOK
  <2>3. Accepting => n = Len(pending) \/ Len(Delivered[n]) = RoomToTake
    BY <2>2, LeavingFills
  <2>4. Len(Stream(n)) = Len(buffer) + Len(Delivered[n]) /\ Delivered[n] \in Seq(Numbers)
    BY <2>2, StreamMoves
  <2> HIDE DEF n
  <2>5. Len(Delivered[n]) = 0
    BY <2>1, <2>2, <2>4, LenProperties
  <2>6. pending' = <<>>
    BY <2>1, <2>2, <2>3, <2>5, RestEmpty DEF Accepting
  <2>7. Len(SentAfter(n)) = Len(sent)
    BY <2>2, SentAfterMoves
  <2>8. SentMoves
    BY <2>1, <2>2, <2>7, SentAfterMoves DEF SentMoves
  <2>9. LineMoves
    BY <1>1, LineStaysMoved
  <2> QED
    BY <1>1, <2>6, <2>8, <2>9 DEF Moved, FullIfPending
<1> QED
  BY <1>2, <1>3

LEMMA SendAnsweredMoved ==
  ASSUME Inv, FullIfPending, NEW p \in Procs, SendAnswered(p)
  PROVE  Moved
<1> DEFINE i == call[p].id
<1>1. /\ UNCHANGED <<setting, buffer, pending, closed, received>>
      /\ sent[i].state \in {"consumed", "failed"} /\ call[p].pc = "send"
      /\ sent' = [sent EXCEPT ![i].state = IF @ = "consumed" THEN "ok" ELSE "refused"]
  BY DEF SendAnswered
<1>2. sent \in Seq(SendRecord) /\ i \in DOMAIN sent
  BY <1>1 DEF Inv, TypeOK, Books, Awaited
<1> HIDE DEF i
<1>3. sent[i] \in SendRecord /\ DOMAIN sent = 1..Len(sent) /\ Len(sent) \in Nat
  BY <1>2, LenProperties
<1>4. /\ DOMAIN sent' = DOMAIN sent
      /\ \A j \in DOMAIN sent : j # i => sent'[j] = sent[j]
      /\ sent'[i].state = IF sent[i].state = "consumed" THEN "ok" ELSE "refused"
  BY <1>1, <1>2, <1>3 DEF SendRecord
<1>5. Len(sent') = Len(sent)
  BY <1>1, <1>3
<1>6. Fate(sent'[i].state) = Fate(sent[i].state)
  BY <1>1, <1>4 DEF Fate
<1>7. SentMoves
  BY <1>4, <1>5, <1>6 DEF SentMoves
<1>8. FullIfPending'
  BY <1>1 DEF FullIfPending, capacity
<1>9. LineMoves
  BY <1>1, LineStaysMoved
<1> QED
  BY <1>1, <1>7, <1>8, <1>9 DEF Moved

LEMMA SendUnansweredMoved ==
  ASSUME Inv, FullIfPending, NEW p \in Procs, SendUnanswered(p)
  PROVE  Moved
<1> DEFINE i == call[p].id
<1>1. /\ UNCHANGED <<setting, buffer, closed, received>>
      /\ sent[i].state = "pending" /\ call[p].pc = "send"
      /\ pending' = RemoveFirst(pending, i)
      /\ sent' = [sent EXCEPT ![i].state = "refused"]
  BY DEF SendUnanswered, StillPending
<1>2. sent \in Seq(SendRecord) /\ i \in DOMAIN sent
  BY <1>1 DEF Inv, TypeOK, Books, Awaited
<1>3. pending = <<>> => pending' = <<>>
  BY <1>1 DEF RemoveFirst
<1> HIDE DEF i
<1>4. sent[i] \in SendRecord /\ DOMAIN sent = 1..Len(sent) /\ Len(sent) \in Nat
  BY <1>2, LenProperties
<1>5. Len(sent') = Len(sent) /\ \A j \in DOMAIN sent : j # i => sent'[j] = sent[j]
  BY <1>1, <1>2, <1>4 DEF SendRecord
<1>6. SentMoves
  BY <1>1, <1>5 DEF SentMoves
<1>7. FullIfPending'
  BY <1>1, <1>3 DEF FullIfPending, capacity
<1>8. LineMoves
  BY <1>1, LineStaysMoved
<1> QED
  BY <1>1, <1>6, <1>7, <1>8 DEF Moved

LEMMA SendBufferedMoved ==
  ASSUME Inv, NEW p \in Procs, NEW s, SendBuffered(p, s)
  PROVE  Moved
<1> DEFINE n == Leaving(Room)
           k == Len(sent) + 1
           d == Delivered[n]
           r == NewSend(p, s, "ok")
<1>1. /\ Sending(p, s) /\ Len(sent) < setting.sends /\ ~closed
      /\ pending' = <<>>
      /\ UNCHANGED <<setting, closed, received>>
  BY DEF SendBuffered
<1>2. /\ n \in 0..Len(pending) /\ k \in Numbers /\ s \in Slots \cup {None}
      /\ slot \in [Slots -> SlotRecord]
  BY <1>1, EnterFacts
<1>3. FullIfPending'
  BY <1>1 DEF FullIfPending
<1>4. /\ Stream(n) \in Seq(Numbers) /\ d \in Seq(Numbers)
      /\ received \o Stream(n) = (received \o buffer) \o d
  BY <1>2, StreamMoves
<1>5. Room \in Nat
  BY RoomTypes
<1>6. CASE Committable(p, s)
  <2>1. sent' = Append(SentAfter(n), r) /\ buffer' = Append(Stream(n), k)
    BY <1>6 DEF SendBuffered
  <2>2. r \in SendRecord
    <3>1. "ok" \in SendStates
      BY DEF SendStates
    <3> QED
      BY <1>2, <3>1, NewSendType
  <2> HIDE DEF n, r, k, d
  <2>3. SentMoves
    BY <1>2, <2>1, <2>2, EnteringMoves
  <2>4. /\ <<k>> \in Seq(Numbers)
        /\ received \in Seq(Numbers) /\ buffer \in Seq(Numbers)
        /\ Append(Stream(n), k) = Stream(n) \o <<k>>
    BY <1>2, <1>4, AppendFacts DEF Inv, TypeOK
  <2>5. received \o buffer \in Seq(Numbers) /\ d \o <<k>> \in Seq(Numbers)
    BY <1>4, <2>4, ConcatProperties
  <2>6. received \o (Stream(n) \o <<k>>) = (received \o Stream(n)) \o <<k>>
    BY <1>4, <2>4, ConcatRegroups
  <2>7. ((received \o buffer) \o d) \o <<k>> = (received \o buffer) \o (d \o <<k>>)
    <3> DEFINE l == received \o buffer
    <3>1. l \in Seq(Numbers)
      BY <2>5
    <3> HIDE DEF l
    <3>2. (l \o d) \o <<k>> = l \o (d \o <<k>>)
      BY <1>4, <2>4, <3>1, ConcatRegroups
    <3> QED
      BY <3>2, Zenon DEF l
  <2>8. received' \o buffer' = (received \o buffer) \o (d \o <<k>>)
    BY <1>1, <1>4, <2>1, <2>4, <2>6, <2>7, Zenon
  <2>9. Len(received') \in {Len(received), Len(received) + 1}
    BY <1>1
  <2>10. LineMoves
    BY <1>1, <2>5, <2>8, <2>9, Zenon DEF LineMoves
  <2> QED
    BY <1>1, <1>3, <2>3, <2>10 DEF Moved
<1>7. CASE ~Committable(p, s)
  <2>1. sent' = SentAfter(n) /\ buffer' = Stream(n)
    BY <1>7 DEF SendBuffered
  <2>2. LineMoves
    BY <1>1, <1>2, <1>5, <2>1, PromotedLine
  <2> HIDE DEF n
  <2>3. Len(SentAfter(n)) = Len(sent)
    BY <1>2, SentAfterMoves
  <2>4. SentMoves
    BY <1>2, <2>1, <2>3, SentAfterMoves DEF SentMoves
  <2> QED
    BY <1>1, <1>3, <2>2, <2>4 DEF Moved
<1> QED
  BY <1>6, <1>7

\* Whoever has to wait, or will not, has found the buffer full.
LEMMA NoRoomMoved ==
  ASSUME Inv, NEW p \in Procs, NEW s, Sending(p, s), Len(sent) < setting.sends,
         ~closed, NEW state \in SendStates,
         buffer' = Stream(Leaving(Room)),
         sent' = Append(SentAfter(Leaving(Room)), NewSend(p, s, state)),
         UNCHANGED <<setting, closed, received>>,
         pending' # <<>> => Len(buffer') = capacity'
  PROVE  Moved
<1> DEFINE n == Leaving(Room)
           r == NewSend(p, s, state)
<1>1. /\ n \in 0..Len(pending) /\ s \in Slots \cup {None}
      /\ slot \in [Slots -> SlotRecord]
  BY EnterFacts
<1>2. r \in SendRecord
  BY <1>1, NewSendType
<1>3. LineMoves
  BY <1>1, RoomTypes, PromotedLine
<1>4. FullIfPending'
  BY DEF FullIfPending
<1>5. sent' = Append(SentAfter(n), r)
  OBVIOUS
<1> HIDE DEF n, r
<1>6. SentMoves
  BY <1>1, <1>2, <1>5, EnteringMoves
<1> QED
  BY <1>3, <1>4, <1>6 DEF Moved

LEMMA SendWaitMoved ==
  ASSUME Inv, NEW p \in Procs, NEW s, NEW timeout, SendWait(p, s, timeout)
  PROVE  Moved
<1> DEFINE n == Leaving(Room)
<1>1. /\ Sending(p, s) /\ Len(sent) < setting.sends /\ ~closed /\ ~FitsBuffer(n)
      /\ buffer' = Stream(n)
      /\ sent' = Append(SentAfter(n), NewSend(p, s, "pending"))
      /\ UNCHANGED <<setting, closed, received>>
  BY DEF SendWait
<1>2. "pending" \in SendStates
  BY DEF SendStates
<1>3. /\ n \in 0..Len(pending) /\ pending \in Seq(Numbers)
      /\ Room \in Nat /\ Room = capacity - Len(buffer)
      /\ Len(buffer) \in Nat /\ capacity \in Nat /\ Len(Stream(n)) <= capacity
  BY RoomFacts, RoomTypes DEF Inv, TypeOK
<1>4. Accepting => n = Len(pending) \/ Len(Delivered[n]) = Room
  BY <1>3, LeavingFills
<1>5. Stream(n) \in Seq(Numbers) /\ Len(Stream(n)) = Len(buffer) + Len(Delivered[n])
  BY <1>3, StreamMoves
<1> HIDE DEF n
<1>6. Len(buffer') = capacity'
  <2>1. capacity' = capacity
    BY <1>1 DEF capacity
  <2>2. Len(Stream(n)) \in Nat
    BY <1>5, LenProperties
  <2>3. CASE n = Len(pending)
    BY <1>1, <1>3, <2>1, <2>2, <2>3 DEF FitsBuffer
  <2>4. CASE n # Len(pending)
    BY <1>1, <1>3, <1>4, <1>5, <2>1, <2>4 DEF Accepting
  <2> QED
    BY <2>3, <2>4
<1> QED
  BY <1>1, <1>2, <1>6, NoRoomMoved DEF n

LEMMA SendGivesUpMoved ==
  ASSUME Inv, NEW p \in Procs, NEW s, NEW timeout, SendGivesUp(p, s, timeout)
  PROVE  Moved
<1> DEFINE n == Leaving(Room)
<1>1. /\ Sending(p, s) /\ Len(sent) < setting.sends /\ ~closed
      /\ buffer' = Stream(n)
      /\ pending' = Rest(n)
      /\ sent' = Append(SentAfter(n), NewSend(p, s, "refused"))
      /\ UNCHANGED <<setting, closed, received>>
  BY DEF SendGivesUp, Rest
<1>2. "refused" \in SendStates
  BY DEF SendStates
<1>3. pending' # <<>> => Len(buffer') = capacity'
  BY <1>1, RestEmpty, PromoteFull
<1> QED
  BY <1>1, <1>2, <1>3, NoRoomMoved

LEMMA StepMoved ==
  ASSUME Inv, FullIfPending, [Next]_vars
  PROVE  Moved
<1>1. ASSUME NEW p \in Procs, Poll(p) PROVE Moved
  BY <1>1, RecvServedMoved, RecvUnservedMoved, SendAnsweredMoved, SendUnansweredMoved
     DEF Poll
<1>2. ASSUME NEW p \in Procs, Calls(p) PROVE Moved
  <2>1. CASE RecvNow(p)
    BY <2>1, TakeMoved DEF RecvNow
  <2>2. ASSUME NEW timeout, RecvWait(p, timeout) PROVE Moved
    BY <2>2, RecvWaitMoved
  <2>3. ASSUME NEW s \in Slots, Reserve(p, s) PROVE Moved
    BY <2>3, StaysMoved DEF Reserve
  <2>4. CASE SendClosed(p)
    BY <2>4, StaysMoved DEF SendClosed
  <2>5. ASSUME NEW s, SendBuffered(p, s) PROVE Moved
    BY <2>5, SendBufferedMoved
  <2>6. ASSUME NEW s, NEW timeout, SendWait(p, s, timeout) PROVE Moved
    BY <2>6, SendWaitMoved
  <2>7. ASSUME NEW s, NEW timeout, SendGivesUp(p, s, timeout) PROVE Moved
    BY <2>7, SendGivesUpMoved
  <2> QED
    BY <1>2, <2>1, <2>2, <2>3, <2>4, <2>5, <2>6, <2>7 DEF Calls
<1>3. ASSUME NEW p \in Procs, Cancel(p) PROVE Moved
  BY <1>3, StaysMoved DEF Cancel
<1>4. ASSUME NEW s \in Slots, Reset(s) PROVE Moved
  BY <1>4, StaysMoved DEF Reset
<1>5. CASE Close
  BY <1>5, StaysMoved DEF Close
<1>6. CASE UNCHANGED vars
  BY <1>6, StaysMoved DEF vars
<1> QED
  BY <1>1, <1>2, <1>3, <1>4, <1>5, <1>6 DEF Next

\* What a sender may be told of each send, by its number.
Fated == [i \in DOMAIN sent |-> Fate(sent[i].state)]

Line == received \o buffer

\* What a FIFO queue sees of the channel fits together.
FatesKnown ==
  /\ Len(Fated) = Len(sent) /\ DOMAIN Fated = DOMAIN sent
  /\ DOMAIN sent = 1..Len(sent) /\ Len(sent) \in Nat
  /\ \A i \in DOMAIN sent :
       /\ Fated[i] = Fate(sent[i].state)
       /\ Fated[i] \in Fifo!Fates
       /\ Fated[i] = "waits" <=> sent[i].state = "pending"
  /\ Fifo!Accepted(Fated) = Taken
  /\ Fifo!Waits(Fated) = ToSet(pending)

LineKnown ==
  /\ Line \in Seq(Numbers)
  /\ ToSet(Line) = Taken
  /\ Ascending(Line)
  /\ Before(Taken, ToSet(pending))
  /\ Len(Line) = Len(received) + Len(buffer)
  /\ Len(received) \in Nat /\ Len(buffer) \in Nat /\ capacity \in Nat
  /\ Len(buffer) <= capacity
  /\ ToSet(pending) # {} => pending # <<>>

LEMMA FatesFacts == Inv => FatesKnown
<1> SUFFICES ASSUME Inv PROVE FatesKnown
  OBVIOUS
<1>1. sent \in Seq(SendRecord) /\ Lined(Taken, ToSet(pending), sent)
  BY DEF Inv, TypeOK, Books
<1>2. DOMAIN sent = 1..Len(sent) /\ Len(sent) \in Nat
  BY <1>1, LenProperties
<1>3. DOMAIN Fated = DOMAIN sent /\ \A i \in DOMAIN sent : Fated[i] = Fate(sent[i].state)
  BY DEF Fated
<1>4. \A i \in DOMAIN sent :
        /\ Fated[i] \in Fifo!Fates
        /\ Fated[i] = "waits" <=> sent[i].state = "pending"
        /\ Fated[i] = "accepted" <=> sent[i].state \in {"ok", "consumed"}
  BY <1>3 DEF Fate, Fifo!Fates
<1>5. Len(Fated) = Len(sent)
  <2>1. Fated \in [1..Len(sent) -> Fifo!Fates]
    BY <1>2, <1>3, <1>4 DEF Fated
  <2> QED
    BY <1>2, <1>3, <2>1, ElementOfSeq, LenProperties
<1>6. \A i \in DOMAIN sent :
        /\ Fated[i] = "accepted" <=> i \in Taken
        /\ Fated[i] = "waits" <=> i \in ToSet(pending)
  BY <1>1, <1>4 DEF Lined
<1>7. Taken \subseteq DOMAIN sent /\ ToSet(pending) \subseteq DOMAIN sent
  BY <1>1 DEF Lined
<1>8. Fifo!Accepted(Fated) = Taken /\ Fifo!Waits(Fated) = ToSet(pending)
  BY <1>3, <1>6, <1>7 DEF Fifo!Accepted, Fifo!Waits
<1> QED
  BY <1>2, <1>3, <1>4, <1>5, <1>8 DEF FatesKnown

LEMMA LineFacts == Inv => LineKnown
<1> SUFFICES ASSUME Inv PROVE LineKnown
  OBVIOUS
<1>1. /\ received \in Seq(Numbers) /\ buffer \in Seq(Numbers)
      /\ Len(buffer) <= capacity
      /\ Ascending(received) /\ Ascending(buffer)
      /\ Before(ToSet(received), ToSet(buffer))
      /\ Before(ToSet(received), ToSet(pending))
      /\ Before(ToSet(buffer), ToSet(pending))
  BY DEF Inv, TypeOK, LineOrdered
<1>2. received \in Seq(Nat) /\ buffer \in Seq(Nat)
  <2>1. Numbers \subseteq Nat
    BY DEF Numbers
  <2> QED
    BY <1>1, <2>1, SeqMonotonic
<1>3. /\ Line \in Seq(Numbers) /\ Len(Line) = Len(received) + Len(buffer)
      /\ ToSet(Line) = Taken
  BY <1>1, ConcatProperties, ToSetConcat DEF Line, Taken
<1>4. Ascending(Line)
  BY <1>1, <1>2, AscendingConcat DEF Line
<1>5. Before(Taken, ToSet(pending))
  BY <1>1 DEF Before, Taken
<1>6. ToSet(pending) # {} => pending # <<>>
  <2>1. DOMAIN <<>> = {}
    OBVIOUS
  <2>2. ToSet(<<>>) = {}
    BY <2>1, Zenon DEF ToSet
  <2> QED
    BY <2>2
<1> QED
  BY <1>1, <1>3, <1>4, <1>5, <1>6, RoomFacts, LenProperties DEF LineKnown

LEMMA MovedIsFifo ==
  ASSUME Inv, Inv', Moved
  PROVE  Fifo!Next
<1>1. FatesKnown /\ LineKnown
  BY FatesFacts, LineFacts
<1>2. FatesKnown' /\ LineKnown'
  <2>1. (Inv => FatesKnown /\ LineKnown)'
    BY FatesFacts, LineFacts, PTL
  <2> QED
    BY <2>1
<1>3. SentMoves /\ LineMoves /\ FullIfPending' /\ setting' = setting
      /\ (closed => closed')
  BY DEF Moved
<1>4. capacity' = capacity
  BY <1>3 DEF capacity
<1>5. Fifo!Decided
  <2>1. Len(Fated') \in {Len(Fated), Len(Fated) + 1}
    BY <1>1, <1>2, <1>3 DEF FatesKnown, SentMoves
  <2>2. \A i \in DOMAIN Fated' : Fated'[i] \in Fifo!Fates
    BY <1>2 DEF FatesKnown
  <2>3. \A i \in DOMAIN Fated : Fated[i] # "waits" => Fated'[i] = Fated[i]
    <3> SUFFICES ASSUME NEW i \in DOMAIN Fated, Fated[i] # "waits"
                 PROVE  Fated'[i] = Fated[i]
      OBVIOUS
    <3>1. /\ i \in DOMAIN sent /\ Fated[i] = Fate(sent[i].state)
          /\ sent[i].state # "pending"
      BY <1>1 DEF FatesKnown
    <3>2. i \in DOMAIN sent'
      <4>1. i \in 1..Len(sent) /\ Len(sent) \in Nat /\ DOMAIN sent' = 1..Len(sent')
        BY <1>1, <1>2, <3>1 DEF FatesKnown
      <4>2. Len(sent') \in {Len(sent), Len(sent) + 1}
        BY <1>3 DEF SentMoves
      <4> DEFINE m == Len(sent)
                 k == Len(sent')
      <4>3. i \in 1..m /\ m \in Nat /\ (k = m \/ k = m + 1) /\ DOMAIN sent' = 1..k
        BY <4>1, <4>2, Zenon
      <4> HIDE DEF m, k
      <4> QED
        BY <4>3
    <3>3. Fated'[i] = Fate(sent'[i].state)
      BY <1>2, <3>2 DEF FatesKnown
    <3>4. Fate(sent'[i].state) = Fate(sent[i].state)
      BY <1>3, <3>1 DEF SentMoves
    <3> QED
      BY <3>1, <3>3, <3>4
  <2> QED
    BY <2>1, <2>2, <2>3, Zenon DEF Fifo!Decided, Fated, Fifo!Fates
<1>6. PICK s \in Seq(Numbers) : /\ received' \o buffer' = (received \o buffer) \o s
                                /\ closed => s = <<>>
  BY <1>3 DEF LineMoves
<1>7. Line' = Line \o s /\ Line \in Seq(Numbers)
  BY <1>1, <1>6 DEF Line, LineKnown
<1>8. Fifo!LineGrows
  <2>1. Fifo!IsPrefix(Line, Line')
    BY <1>7, PrefixOfConcat DEF IsPrefix, Fifo!IsPrefix
  <2>2. Fifo!ToSet(Line') = Fifo!Accepted(Fated')
    BY <1>2 DEF LineKnown, FatesKnown, ToSet, Fifo!ToSet
  <2>3. \A k, l \in DOMAIN Line' : k < l => Line'[k] < Line'[l]
    BY <1>2 DEF LineKnown, Ascending
  <2>4. \A i \in Fifo!Accepted(Fated'), j \in Fifo!Waits(Fated') : i < j
    BY <1>2 DEF LineKnown, FatesKnown, Before
  <2> QED
    BY <2>1, <2>2, <2>3, <2>4, Zenon DEF Fifo!LineGrows, Line, Fated
<1>9. Fifo!Received
  <2>1. Len(received') \in {Len(received), Len(received) + 1}
    BY <1>3 DEF LineMoves
  <2>2. Len(received') <= Len(Line') /\ Len(Line') <= Len(received') + capacity
    BY <1>2, <1>4 DEF LineKnown
  <2> QED
    BY <2>1, <2>2, Zenon DEF Fifo!Received, Line
<1>10. Fifo!FullIfWaiting
  <2>1. ASSUME ~closed', Fifo!Waits(Fated') # {}
        PROVE  Len(Line') = Len(received') + capacity
    <3>1. pending' # <<>>
      BY <1>2, <2>1 DEF FatesKnown, LineKnown
    <3>2. Len(buffer') = capacity
      BY <1>3, <1>4, <2>1, <3>1 DEF FullIfPending
    <3> QED
      BY <1>2, <3>2 DEF LineKnown
  <2> QED
    BY <2>1, Zenon DEF Fifo!FullIfWaiting, Line, Fated
<1>11. Fifo!ClosedForGood
  <2>1. closed => Line' = Line
    BY <1>6, <1>7, ConcatEmptySeq
  <2> QED
    BY <1>3, <2>1, Zenon DEF Fifo!ClosedForGood, Line
<1> QED
  BY <1>4, <1>5, <1>8, <1>9, <1>10, <1>11 DEF Fifo!Next

LEMMA InitIsFifo == Init => Fifo!Init /\ FullIfPending
<1> SUFFICES ASSUME Init PROVE Fifo!Init /\ FullIfPending
  OBVIOUS
<1>1. capacity \in Nat
  BY SettingsKnown DEF Init, capacity
<1>2. /\ sent = <<>> /\ received = <<>> /\ buffer = <<>> /\ pending = <<>>
      /\ closed = FALSE
  BY DEF Init
<1>3. received \o buffer = <<>> /\ Len(received) = 0
  BY <1>2
<1>4. [i \in DOMAIN sent |-> Fate(sent[i].state)] = <<>>
  BY <1>2
<1>5. Fifo!Init
  BY <1>1, <1>2, <1>3, <1>4 DEF Fifo!Init
<1> QED
  BY <1>2, <1>5 DEF FullIfPending
-----------------------------------------------------------------------------
(* What follows *)

\* The channel never holds more values than its capacity, and every variable keeps
\* the kind of value it has in RuntimeChannel::Impl and RuntimeMoveSlot::Impl.
THEOREM ChannelTypes == Spec => []TypeOK
<1>1. Inv => TypeOK
  BY DEF Inv
<1> QED
  BY <1>1, InvHolds, PTL

\* Values are received in the order in which their senders entered the channel, each
\* at most once, for any number of senders and receivers that race, time out, are
\* cancelled or fail to commit.
THEOREM ChannelOrder == Spec => []ValuesInOrder
<1>1. Inv => ValuesInOrder
  <2> SUFFICES ASSUME Inv PROVE ValuesInOrder
    OBVIOUS
  <2>1. /\ received \in Seq(Nat) /\ buffer \in Seq(Nat) /\ pending \in Seq(Nat)
    <3>1. Numbers \subseteq Nat
      BY DEF Numbers
    <3>2. /\ received \in Seq(Numbers) /\ buffer \in Seq(Numbers)
          /\ pending \in Seq(Numbers)
      BY DEF Inv, TypeOK
    <3> QED
      BY <3>1, <3>2, SeqMonotonic
  <2>2. /\ Ascending(received) /\ Ascending(buffer) /\ Ascending(pending)
        /\ Before(ToSet(received), ToSet(buffer))
        /\ Before(ToSet(received), ToSet(pending))
        /\ Before(ToSet(buffer), ToSet(pending))
    BY DEF Inv, LineOrdered
  <2>3. /\ received \o buffer \in Seq(Nat)
        /\ ToSet(received \o buffer) = ToSet(received) \cup ToSet(buffer)
    BY <2>1, ConcatProperties, ToSetConcat
  <2>4. Ascending(received \o buffer)
    BY <2>1, <2>2, AscendingConcat
  <2>5. Before(ToSet(received \o buffer), ToSet(pending))
    BY <2>2, <2>3 DEF Before
  <2>6. Ascending((received \o buffer) \o pending)
    BY <2>1, <2>2, <2>3, <2>4, <2>5, AscendingConcat
  <2> QED
    BY <2>6 DEF ValuesInOrder, Ascending
<1> QED
  BY <1>1, InvHolds, PTL

\* A sender is told ok if and only if the channel took its value: also when a
\* receiver took it while the sender was timing out, being cancelled or closed.
THEOREM ChannelAnswers == Spec => []AnswersTrue
<1>1. Inv => AnswersTrue
  BY DEF Inv, Books, Lined, AnswersTrue
<1> QED
  BY <1>1, InvHolds, PTL

\* The content of a move slot is taken at most once, a slot is Moved exactly when the
\* channel took what it has, and no caller leaves a reservation behind.
THEOREM ChannelSlots == Spec => []SlotsOwned
<1>1. Inv => SlotsOwned
  <2> SUFFICES ASSUME Inv PROVE SlotsOwned
    OBVIOUS
  <2>1. Owned(Taken, sent, slot) /\ Held(sent, slot, call)
    BY DEF Inv, Books
  <2>2. MovedOnce
    BY <2>1 DEF Owned, MovedOnce
  <2>3. ReservationsHeld
    BY <2>1 DEF Held, ReservationsHeld
  <2> QED
    BY <2>2, <2>3 DEF SlotsOwned
<1> QED
  BY <1>1, InvHolds, PTL

\* The channel implements a FIFO queue of bounded capacity: for any number of callers
\* that race, time out, are cancelled, send from slots that are reset, or close it, a
\* value that was accepted keeps its place, its sender is told ok and no other is,
\* nobody is overtaken, and nobody waits to send while there is room.
THEOREM ChannelImplementsFifo == Spec => ImplementsFifo
<1>1. Init => Inv /\ FullIfPending /\ Fifo!Init
  BY InitInv, InitIsFifo
<1>2. Inv /\ FullIfPending /\ [Next]_vars => Inv' /\ FullIfPending' /\ Fifo!Next
  <2> SUFFICES ASSUME Inv, FullIfPending, [Next]_vars
               PROVE  Inv' /\ FullIfPending' /\ Fifo!Next
    OBVIOUS
  <2>1. Inv' /\ Moved
    BY StepInv, StepMoved
  <2> QED
    BY <2>1, MovedIsFifo DEF Moved
<1> QED
  BY <1>1, <1>2, PTL DEF Spec, ImplementsFifo, Fifo!Spec
=============================================================================
