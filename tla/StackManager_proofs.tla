------------------------ MODULE StackManager_proofs ------------------------
(***************************************************************************)
(* Proofs about StackManager, for any set of alloc_ids of any positive     *)
(* sizes.                                                                  *)
(*                                                                         *)
(* The safety properties talk about the blocks the generator holds; the    *)
(* allocator knows only its list.  The inductive invariant says that the   *)
(* list is ordered, has no free slot at its end and no two free slots next *)
(* to each other, and that its slots in use are exactly the held blocks.   *)
(***************************************************************************)
EXTENDS StackManager, SequenceLemmas

(* Slots are not empty and do not overlap, in list order.                  *)
Ordered(s) ==
  \A i \in 1 .. Len(s) :
    /\ s[i].start < s[i].end
    /\ \A j \in 1 .. Len(s) : i < j => s[i].end <= s[j].start

(* A free slot is followed by a slot in use.                               *)
FollowedByUsed(s, i) == s[i].in_use \/ (i < Len(s) /\ s[i + 1].in_use)

Coalesced(s) == \A i \in 1 .. Len(s) : FollowedByUsed(s, i)

(* The end of the list is the end of its last slot.                        *)
EndOf(s) == IF s = <<>> THEN 0 ELSE s[Len(s)].end

(* Slot i holds the byte at address x.                                     *)
HasByte(s, i, x) == s[i].start <= x /\ x < s[i].end

(* Every byte of the frame is in a slot, in use or free.                   *)
Tiled(s) == \A x \in Nat : x < EndOf(s) => \E i \in 1 .. Len(s) : HasByte(s, i, x)

InUse(s) == {<<s[i].start, s[i].end>> : i \in {k \in 1 .. Len(s) : s[k].in_use}}

HeldBlocks == {<<stack_addrs[id], BlockEnd(id)>> : id \in Held}

IInv ==
  /\ TypeOK
  /\ Ordered(m_slots)
  /\ Coalesced(m_slots)
  /\ Tiled(m_slots)
  /\ InUse(m_slots) = HeldBlocks
  /\ \A a, b \in Held : stack_addrs[a] = stack_addrs[b] => a = b
  /\ ~asserted

-----------------------------------------------------------------------------
(* What each list operation does to the slots                              *)

WellFormed(s) == s \in Seq(slot) /\ Ordered(s) /\ Coalesced(s) /\ Tiled(s)

LEMMA SlotFacts ==
  ASSUME NEW s \in Seq(slot)
  PROVE  /\ Len(s) \in Nat
         /\ \A i \in 1 .. Len(s) : /\ s[i] \in slot
                                   /\ s[i].start \in Nat
                                   /\ s[i].end \in Nat
                                   /\ s[i].in_use \in BOOLEAN
<1>1. Len(s) \in Nat /\ \A i \in 1 .. Len(s) : s[i] \in slot
  BY LenProperties, ElementOfSeq
<1> QED BY <1>1 DEF slot

LEMMA AppendSlot ==
  ASSUME NEW s, WellFormed(s), NEW sz \in Nat, sz > 0
  PROVE  LET t == Append(s, [start |-> EndOf(s), end |-> EndOf(s) + sz, in_use |-> TRUE])
         IN  /\ EndOf(s) \in Nat
             /\ WellFormed(t)
             /\ InUse(t) = InUse(s) \cup {<<EndOf(s), EndOf(s) + sz>>}
             /\ \A i \in 1 .. Len(s) : s[i].end <= EndOf(s)
<1> DEFINE e == EndOf(s)
           n == [start |-> e, end |-> e + sz, in_use |-> TRUE]
           t == Append(s, n)
<1> HIDE DEF e, n, t
<1>0. s \in Seq(slot) /\ Len(s) \in Nat /\ (s # <<>> => Len(s) > 0)
  BY SlotFacts, EmptySeq DEF WellFormed
<1>1. e \in Nat
  BY <1>0, SlotFacts DEF e, EndOf
<1>2. \A i \in 1 .. Len(s) : s[i].end <= e
  <2> SUFFICES ASSUME NEW i \in 1 .. Len(s) PROVE s[i].end <= e
    OBVIOUS
  <2>1. e = s[Len(s)].end /\ s[Len(s)].start < s[Len(s)].end
    <3>1. s # <<>>
      BY <1>0, EmptySeq
    <3>2. Len(s) \in 1 .. Len(s)
      BY <3>1, <1>0
    <3> QED BY <3>1, <3>2 DEF e, EndOf, WellFormed, Ordered
  <2>2. CASE i = Len(s)
    BY <2>1, <2>2, <1>0, <1>1
  <2>3. CASE i < Len(s)
    <3>1. Len(s) \in 1 .. Len(s)
      BY <2>3, <1>0
    <3>2. s[i].end <= s[Len(s)].start
      BY <2>3, <3>1, <1>0 DEF WellFormed, Ordered
    <3> QED BY <3>1, <3>2, <2>1, <1>0, SlotFacts
  <2>4. i < Len(s) \/ i = Len(s)
    BY <1>0
  <2> QED BY <2>2, <2>3, <2>4
<1>3. n \in slot /\ n.start = e /\ n.end = e + sz /\ n.in_use = TRUE
  BY <1>1 DEF n, slot
<1>4. /\ t \in Seq(slot)
      /\ Len(t) = Len(s) + 1
      /\ \A i \in 1 .. Len(s) : t[i] = s[i]
      /\ t[Len(s) + 1] = n
  BY <1>0, <1>3, AppendProperties DEF t
<1>5. Ordered(t)
  <2>1. ASSUME NEW i \in 1 .. Len(t), NEW j \in 1 .. Len(t), i < j
        PROVE  t[i].end <= t[j].start
    <3>1. i \in 1 .. Len(s) /\ (j \in 1 .. Len(s) \/ j = Len(s) + 1)
      BY <2>1, <1>0, <1>4
    <3>2. CASE j \in 1 .. Len(s)
      BY <3>1, <3>2, <2>1, <1>4 DEF Ordered, WellFormed
    <3>3. CASE j = Len(s) + 1
      BY <3>1, <3>3, <1>2, <1>3, <1>4
    <3> QED BY <3>1, <3>2, <3>3
  <2>2. ASSUME NEW i \in 1 .. Len(t)
        PROVE  t[i].start < t[i].end
    <3>1. CASE i \in 1 .. Len(s)
      BY <3>1, <1>4 DEF Ordered, WellFormed
    <3>2. CASE i = Len(s) + 1
      BY <3>2, <1>1, <1>3, <1>4
    <3> QED BY <3>1, <3>2, <1>0, <1>4
  <2> QED BY <2>1, <2>2 DEF Ordered
<1>6. Coalesced(t)
  BY <1>0, <1>3, <1>4 DEF Coalesced, FollowedByUsed, WellFormed
<1>7. InUse(t) = InUse(s) \cup {<<e, e + sz>>}
  BY <1>0, <1>3, <1>4 DEF InUse
<1>8. Tiled(t)
  <2> SUFFICES ASSUME NEW x \in Nat, x < EndOf(t)
               PROVE  \E i \in 1 .. Len(t) : HasByte(t, i, x)
    BY DEF Tiled
  <2>1. EndOf(t) = e + sz
    BY <1>0, <1>3, <1>4, EmptySeq DEF EndOf
  <2>2. CASE x < e
    <3>1. PICK i \in 1 .. Len(s) : HasByte(s, i, x)
      BY <2>2 DEF WellFormed, Tiled, e
    <3>2. i \in 1 .. Len(t) /\ t[i] = s[i]
      BY <1>0, <1>4
    <3> QED BY <3>1, <3>2 DEF HasByte
  <2>3. CASE e <= x
    <3>1. Len(s) + 1 \in 1 .. Len(t)
      BY <1>0, <1>4
    <3>2. HasByte(t, Len(s) + 1, x)
      BY <2>1, <2>3, <1>3, <1>4 DEF HasByte
    <3> QED BY <3>1, <3>2
  <2> QED BY <2>2, <2>3, <1>1
<1> QED BY <1>1, <1>2, <1>4, <1>5, <1>6, <1>7, <1>8 DEF WellFormed, e, n, t

(* Changing only in_use leaves the list ordered.                           *)
LEMMA MarkSlot ==
  ASSUME NEW s \in Seq(slot), Ordered(s), NEW i \in 1 .. Len(s), NEW b \in BOOLEAN
  PROVE  LET t == [s EXCEPT ![i].in_use = b]
         IN  /\ t \in Seq(slot)
             /\ Ordered(t)
             /\ Len(t) = Len(s)
             /\ \A k \in 1 .. Len(s) : k # i => t[k] = s[k]
             /\ \A k \in 1 .. Len(s) : t[k].start = s[k].start /\ t[k].end = s[k].end
             /\ t[i].in_use = b
             /\ Tiled(s) => Tiled(t)
<1> DEFINE n == [s[i] EXCEPT !.in_use = b]
           t == [s EXCEPT ![i] = n]
<1> HIDE DEF n, t
<1>1. s[i] \in slot
  BY SlotFacts
<1>2. n \in slot /\ n.start = s[i].start /\ n.end = s[i].end /\ n.in_use = b
  BY <1>1 DEF n, slot
<1>3. /\ t \in Seq(slot) /\ Len(t) = Len(s)
      /\ \A k \in 1 .. Len(s) : t[k] = IF k = i THEN n ELSE s[k]
  BY <1>2, ExceptSeq DEF t
<1>4. \A k \in 1 .. Len(s) : t[k].start = s[k].start /\ t[k].end = s[k].end
  BY <1>2, <1>3
<1>5. Ordered(t)
  BY <1>3, <1>4 DEF Ordered
<1>6. t = [s EXCEPT ![i].in_use = b]
  BY DEF t, n
<1> HIDE DEF t
<1>7. t[i].in_use = b
  BY <1>2, <1>3
<1>8. Tiled(s) => Tiled(t)
  <2>1. Len(s) \in Nat /\ Len(s) \in 1 .. Len(s) /\ s # <<>> /\ t # <<>>
    BY <1>3, LenProperties, EmptySeq
  <2>2. EndOf(t) = EndOf(s)
    BY <2>1, <1>3, <1>4 DEF EndOf
  <2>3. \A x \in Nat : \A k \in 1 .. Len(s) : HasByte(s, k, x) => HasByte(t, k, x)
    BY <1>4 DEF HasByte
  <2> QED BY <2>2, <2>3, <1>3 DEF Tiled
<1> QED BY <1>3, <1>4, <1>5, <1>6, <1>7, <1>8

(* The blocks in use of a list, one by one.                                *)
LEMMA InUseElement ==
  ASSUME NEW s, NEW x
  PROVE  x \in InUse(s)
           <=> \E k \in 1 .. Len(s) : s[k].in_use /\ x = <<s[k].start, s[k].end>>
  BY DEF InUse

LEMMA TakeSlot ==
  ASSUME NEW s, WellFormed(s), NEW i \in 1 .. Len(s), ~s[i].in_use
  PROVE  LET t == [s EXCEPT ![i].in_use = TRUE]
         IN  /\ WellFormed(t)
             /\ InUse(t) = InUse(s) \cup {<<s[i].start, s[i].end>>}
<1> DEFINE t == [s EXCEPT ![i].in_use = TRUE]
<1>0. s \in Seq(slot) /\ Ordered(s) /\ Coalesced(s) /\ Tiled(s) /\ Len(s) \in Nat
  BY SlotFacts DEF WellFormed
<1>1. /\ t \in Seq(slot)
      /\ Ordered(t)
      /\ Tiled(t)
      /\ Len(t) = Len(s)
      /\ \A k \in 1 .. Len(s) : k # i => t[k] = s[k]
      /\ \A k \in 1 .. Len(s) : t[k].start = s[k].start /\ t[k].end = s[k].end
      /\ t[i].in_use = TRUE
  BY <1>0, MarkSlot
<1> HIDE DEF t
<1>2. Coalesced(t)
  <2> SUFFICES ASSUME NEW k \in 1 .. Len(t), ~t[k].in_use
               PROVE  k < Len(t) /\ t[k + 1].in_use
    BY DEF Coalesced, FollowedByUsed
  <2>1. k \in 1 .. Len(s) /\ ~s[k].in_use
    BY <1>1
  <2>2. k < Len(s) /\ s[k + 1].in_use
    BY <2>1, <1>0 DEF Coalesced, FollowedByUsed
  <2>3. k + 1 \in 1 .. Len(s)
    BY <2>2, <1>0
  <2> QED BY <2>2, <2>3, <1>1
<1>3. InUse(t) = InUse(s) \cup {<<s[i].start, s[i].end>>}
  <2>1. ASSUME NEW x, NEW k \in 1 .. Len(t), t[k].in_use, x = <<t[k].start, t[k].end>>
        PROVE  x \in InUse(s) \cup {<<s[i].start, s[i].end>>}
    BY <2>1, <1>1, InUseElement
  <2>2. ASSUME NEW x, NEW k \in 1 .. Len(s), s[k].in_use, x = <<s[k].start, s[k].end>>
        PROVE  x \in InUse(t)
    BY <2>2, <1>1, InUseElement
  <2>3. <<s[i].start, s[i].end>> \in InUse(t)
    BY <1>1, InUseElement
  <2> QED BY <2>1, <2>2, <2>3, InUseElement
<1> QED BY <1>1, <1>2, <1>3 DEF WellFormed, t

LEMMA SplitSlot ==
  ASSUME NEW s, WellFormed(s), NEW i \in 1 .. Len(s), ~s[i].in_use,
         NEW sz \in Nat, sz > 0, s[i].end - s[i].start > sz
  PROVE  LET mid == s[i].start + sz
             t == InsertAt([s EXCEPT ![i] = [start |-> s[i].start, end |-> mid, in_use |-> TRUE]],
                           i + 1, [start |-> mid, end |-> s[i].end, in_use |-> FALSE])
         IN  /\ WellFormed(t)
             /\ InUse(t) = InUse(s) \cup {<<s[i].start, mid>>}
<1> DEFINE mid == s[i].start + sz
           A == [start |-> s[i].start, end |-> mid, in_use |-> TRUE]
           B == [start |-> mid, end |-> s[i].end, in_use |-> FALSE]
           r == [s EXCEPT ![i] = A]
           t == InsertAt(r, i + 1, B)
<1>0. /\ s \in Seq(slot) /\ Ordered(s) /\ Coalesced(s) /\ Len(s) \in Nat
      /\ \A k \in 1 .. Len(s) : s[k].start \in Nat /\ s[k].end \in Nat
  BY SlotFacts DEF WellFormed
<1>1. /\ mid \in Nat /\ s[i].start < mid /\ mid < s[i].end
  BY <1>0
<1> HIDE DEF mid
<1>2. /\ A \in slot /\ A.start = s[i].start /\ A.end = mid /\ A.in_use = TRUE
      /\ B \in slot /\ B.start = mid /\ B.end = s[i].end /\ B.in_use = FALSE
  BY <1>0, <1>1 DEF slot
<1> HIDE DEF A, B
<1>3. /\ r \in Seq(slot) /\ Len(r) = Len(s)
      /\ \A k \in 1 .. Len(s) : r[k] = IF k = i THEN A ELSE s[k]
  BY <1>0, <1>2, ExceptSeq
<1> HIDE DEF r
<1>4. /\ t \in Seq(slot) /\ Len(t) = Len(s) + 1
      /\ \A k \in 1 .. Len(s) + 1 :
           t[k] = IF k < i + 1 THEN r[k] ELSE IF k = i + 1 THEN B ELSE r[k - 1]
  <2>1. i + 1 \in 1 .. Len(r) + 1
    BY <1>0, <1>3
  <2>2. r \in Seq(slot) /\ B \in slot
    BY <1>2, <1>3
  <2>3. t = InsertAt(r, i + 1, B)
    OBVIOUS
  <2> HIDE DEF t
  <2>4. t \in Seq(slot) /\ Len(t) = Len(r) + 1
    BY <2>1, <2>2, <2>3, InsertAtProps
  <2>5. \A k \in 1 .. Len(r) + 1 :
          t[k] = IF k < i + 1 THEN r[k] ELSE IF k = i + 1 THEN B ELSE r[k - 1]
    <3> SUFFICES ASSUME NEW k \in 1 .. Len(r) + 1
                 PROVE  t[k] = IF k < i + 1 THEN r[k] ELSE IF k = i + 1 THEN B ELSE r[k - 1]
      OBVIOUS
    <3> QED BY <2>1, <2>2, <2>3, InsertAtElement
  <2>6. Len(r) = Len(s)
    BY <1>3
  <2> QED BY <2>4, <2>5, <2>6
<1> HIDE DEF t
<1>5. \A k \in 1 .. i - 1 : t[k] = s[k]
  <2> SUFFICES ASSUME NEW k \in 1 .. i - 1 PROVE t[k] = s[k]
    OBVIOUS
  <2>1. k \in 1 .. Len(s) /\ k \in 1 .. Len(s) + 1 /\ k < i + 1 /\ k # i
    BY <1>0
  <2> QED BY <2>1, <1>3, <1>4
<1>6. t[i] = A /\ t[i + 1] = B
  BY <1>0, <1>3, <1>4
<1>7. \A k \in i + 1 .. Len(s) : t[k + 1] = s[k]
  <2> SUFFICES ASSUME NEW k \in i + 1 .. Len(s) PROVE t[k + 1] = s[k]
    OBVIOUS
  <2>1. /\ k + 1 \in 1 .. Len(s) + 1 /\ ~(k + 1 < i + 1) /\ k + 1 # i + 1
        /\ k + 1 - 1 = k /\ k \in 1 .. Len(s) /\ k # i
    BY <1>0
  <2> QED BY <2>1, <1>3, <1>4
<1>8. ASSUME NEW k \in 1 .. Len(t)
      PROVE  \/ k \in 1 .. i - 1
             \/ k = i
             \/ k = i + 1
             \/ \E j \in i + 1 .. Len(s) : k = j + 1
  <2>1. k \in i + 2 .. Len(s) + 1 => k - 1 \in i + 1 .. Len(s) /\ k = k - 1 + 1
    BY <1>0
  <2>2. k \in 1 .. i - 1 \/ k = i \/ k = i + 1 \/ k \in i + 2 .. Len(s) + 1
    BY <1>0, <1>4
  <2> QED BY <2>1, <2>2
<1>9. /\ 1 .. i - 1 \subseteq 1 .. Len(s)
      /\ i + 1 .. Len(s) \subseteq 1 .. Len(s)
      /\ 1 .. Len(s) \subseteq 1 .. Len(t)
      /\ \A k \in 1 .. Len(s) : k + 1 \in 1 .. Len(t)
      /\ \A k \in 1 .. Len(s) : k \in 1 .. i - 1 \/ k = i \/ k \in i + 1 .. Len(s)
  BY <1>0, <1>4
(* o[k] is the slot of s that slot k of t is, or is a part of              *)
<1> DEFINE o == [k \in 1 .. Len(t) |-> IF k <= i THEN k ELSE k - 1]
<1>10. ASSUME NEW k \in 1 .. Len(t)
       PROVE  /\ o[k] \in 1 .. Len(s)
              /\ s[o[k]].start <= t[k].start
              /\ t[k].end <= s[o[k]].end
              /\ t[k].start < t[k].end
  <2>1. CASE k \in 1 .. i - 1
    <3>1. o[k] = k /\ t[k] = s[k] /\ k \in 1 .. Len(s)
      BY <2>1, <1>0, <1>5
    <3> QED BY <3>1, <1>0 DEF Ordered
  <2>2. CASE k = i
    <3>1. o[k] = i /\ t[k] = A
      BY <2>2, <1>0, <1>6
    <3> QED BY <3>1, <1>0, <1>1, <1>2
  <2>3. CASE k = i + 1
    <3>1. o[k] = i /\ t[k] = B
      BY <2>3, <1>0, <1>6
    <3> QED BY <3>1, <1>0, <1>1, <1>2
  <2>4. CASE \E j \in i + 1 .. Len(s) : k = j + 1
    <3> PICK j \in i + 1 .. Len(s) : k = j + 1
      BY <2>4
    <3>1. o[k] = j /\ j \in 1 .. Len(s)
      BY <1>0
    <3>2. t[k] = s[j]
      BY <1>7
    <3> QED BY <3>1, <3>2, <1>0 DEF Ordered
  <2> QED BY <2>1, <2>2, <2>3, <2>4, <1>8
<1>11. \A j, k \in 1 .. Len(t) : j < k => o[j] < o[k] \/ (j = i /\ k = i + 1)
  BY <1>0, <1>4
<1> HIDE DEF o
<1>12. Ordered(t)
  <2>1. ASSUME NEW j \in 1 .. Len(t), NEW k \in 1 .. Len(t), j < k
        PROVE  t[j].end <= t[k].start
    <3>1. CASE j = i /\ k = i + 1
      BY <3>1, <1>1, <1>2, <1>6
    <3>2. CASE o[j] < o[k]
      <4>1. s[o[j]].end <= s[o[k]].start
        BY <1>0, <1>10, <3>2 DEF Ordered
      <4>2. t[j].end <= s[o[j]].end /\ s[o[k]].start <= t[k].start
        BY <1>10
      <4>3. /\ t[j].end \in Int /\ t[k].start \in Int
            /\ s[o[j]].end \in Int /\ s[o[k]].start \in Int
        <5>1. t[j].end \in Nat /\ t[k].start \in Nat
          BY <1>4, SlotFacts
        <5>2. s[o[j]].end \in Nat /\ s[o[k]].start \in Nat
          BY <1>0, <1>10
        <5> QED BY <5>1, <5>2
      <4> QED BY <4>1, <4>2, <4>3
    <3> QED BY <2>1, <3>1, <3>2, <1>11
  <2> QED BY <2>1, <1>10 DEF Ordered
<1>13. Coalesced(t)
  <2> SUFFICES ASSUME NEW k \in 1 .. Len(t), ~t[k].in_use
               PROVE  k < Len(t) /\ t[k + 1].in_use
    BY DEF Coalesced, FollowedByUsed
  <2>0. \A x \in 1 .. Len(s) : ~s[x].in_use => x < Len(s) /\ s[x + 1].in_use
    BY <1>0 DEF Coalesced, FollowedByUsed
  <2>1. CASE k \in 1 .. i - 1
    <3>1. k \in 1 .. Len(s) /\ t[k] = s[k]
      BY <2>1, <1>5, <1>9
    <3>2. s[k + 1].in_use
      BY <3>1, <2>0
    <3>3. k + 1 \in 1 .. i - 1
      <4>1. k + 1 # i
        BY <3>2
      <4> QED BY <4>1, <2>1, <1>0
    <3> QED BY <3>2, <3>3, <2>1, <1>0, <1>4, <1>5
  <2>2. CASE k = i
    BY <2>2, <1>2, <1>6
  <2>3. CASE k = i + 1
    <3>1. i < Len(s) /\ s[i + 1].in_use
      BY <2>0
    <3>2. i + 1 \in i + 1 .. Len(s)
      BY <3>1, <1>0
    <3>3. t[k + 1].in_use
      BY <3>1, <3>2, <2>3, <1>7
    <3> QED BY <3>1, <3>3, <2>3, <1>0, <1>4
  <2>4. CASE \E j \in i + 1 .. Len(s) : k = j + 1
    <3> PICK j \in i + 1 .. Len(s) : k = j + 1
      BY <2>4
    <3>1. j \in 1 .. Len(s) /\ t[k] = s[j]
      BY <1>7, <1>9
    <3>2. j < Len(s) /\ s[j + 1].in_use
      BY <3>1, <2>0
    <3>3. j + 1 \in i + 1 .. Len(s)
      BY <3>2, <1>0
    <3>4. t[k + 1] = s[j + 1]
      BY <3>3, <1>7
    <3> QED BY <3>2, <3>4, <1>0, <1>4
  <2> QED BY <2>1, <2>2, <2>3, <2>4, <1>8
<1>14. InUse(t) = InUse(s) \cup {<<s[i].start, mid>>}
  <2>1. ASSUME NEW x, NEW k \in 1 .. Len(t), t[k].in_use, x = <<t[k].start, t[k].end>>
        PROVE  x \in InUse(s) \cup {<<s[i].start, mid>>}
    <3>1. CASE k \in 1 .. i - 1
      BY <3>1, <2>1, <1>5, <1>9, InUseElement
    <3>2. CASE \E j \in i + 1 .. Len(s) : k = j + 1
      BY <3>2, <2>1, <1>7, <1>9, InUseElement
    <3> QED BY <3>1, <3>2, <2>1, <1>2, <1>6, <1>8
  <2>2. ASSUME NEW x, NEW k \in 1 .. Len(s), s[k].in_use, x = <<s[k].start, s[k].end>>
        PROVE  x \in InUse(t)
    <3>1. CASE k \in 1 .. i - 1
      BY <3>1, <2>2, <1>5, <1>9, InUseElement
    <3>2. CASE k \in i + 1 .. Len(s)
      BY <3>2, <2>2, <1>7, <1>9, InUseElement
    <3> QED BY <3>1, <3>2, <2>2, <1>9
  <2>3. <<s[i].start, mid>> \in InUse(t)
    BY <1>2, <1>6, <1>9, InUseElement
  <2> QED BY <2>1, <2>2, <2>3, InUseElement
<1>15. Tiled(t)
  <2> SUFFICES ASSUME NEW x \in Nat, x < EndOf(t)
               PROVE  \E k \in 1 .. Len(t) : HasByte(t, k, x)
    BY DEF Tiled
  <2>1. EndOf(t) = EndOf(s)
    <3>1. s # <<>> /\ t # <<>>
      BY <1>0, <1>4, EmptySeq
    <3>2. CASE i = Len(s)
      BY <3>1, <3>2, <1>2, <1>4, <1>6 DEF EndOf
    <3>3. CASE i # Len(s)
      <4>1. Len(s) \in i + 1 .. Len(s)
        BY <3>3, <1>0
      <4>2. t[Len(s) + 1] = s[Len(s)]
        BY <4>1, <1>7
      <4> QED BY <3>1, <4>2, <1>4 DEF EndOf
    <3> QED BY <3>2, <3>3
  <2>2. PICK k \in 1 .. Len(s) : HasByte(s, k, x)
    BY <2>1, <1>0 DEF WellFormed, Tiled
  <2>3. CASE k \in 1 .. i - 1
    BY <2>2, <2>3, <1>5, <1>9 DEF HasByte
  <2>4. CASE k = i
    <3>1. HasByte(t, i, x) \/ HasByte(t, i + 1, x)
      BY <2>2, <2>4, <1>0, <1>1, <1>2, <1>6 DEF HasByte
    <3> QED BY <3>1, <1>9
  <2>5. CASE k \in i + 1 .. Len(s)
    <3>1. HasByte(t, k + 1, x)
      BY <2>2, <2>5, <1>7 DEF HasByte
    <3> QED BY <3>1, <1>9
  <2> QED BY <2>3, <2>4, <2>5, <1>9
<1> QED BY <1>4, <1>12, <1>13, <1>14, <1>15 DEF WellFormed, t, r, A, B, mid

(* Joining two neighbouring free slots keeps the list ordered and loses no *)
(* block in use.                                                           *)
LEMMA MergeSlots ==
  ASSUME NEW s \in Seq(slot), Ordered(s), NEW i \in 1 .. Len(s) - 1,
         ~s[i].in_use, ~s[i + 1].in_use
  PROVE  LET t == Merge(s, i)
         IN  /\ t \in Seq(slot)
             /\ Len(t) = Len(s) - 1
             /\ Ordered(t)
             /\ \A k \in 1 .. i - 1 : t[k] = s[k]
             /\ ~t[i].in_use
             /\ \A k \in i + 1 .. Len(s) - 1 : t[k] = s[k + 1]
             /\ InUse(t) = InUse(s)
             /\ Tiled(s) => Tiled(t)
<1> DEFINE n == [s[i] EXCEPT !.end = s[i + 1].end]
           r == [s EXCEPT ![i] = n]
           t == RemoveAt(r, i + 1)
<1>0. /\ Len(s) \in Nat
      /\ \A k \in 1 .. Len(s) : s[k] \in slot /\ s[k].start \in Nat /\ s[k].end \in Nat
      /\ i \in 1 .. Len(s) /\ i + 1 \in 1 .. Len(s)
  BY SlotFacts
<1>1. n \in slot /\ n.start = s[i].start /\ n.end = s[i + 1].end /\ ~n.in_use
  BY <1>0 DEF slot
<1> HIDE DEF n
<1>2. /\ r \in Seq(slot) /\ Len(r) = Len(s)
      /\ \A k \in 1 .. Len(s) : r[k] = IF k = i THEN n ELSE s[k]
  BY <1>0, <1>1, ExceptSeq
<1> HIDE DEF r
<1>3. /\ t \in Seq(slot) /\ Len(t) = Len(s) - 1
      /\ \A k \in 1 .. Len(s) - 1 : t[k] = IF k < i + 1 THEN r[k] ELSE r[k + 1]
  <2>1. r \in Seq(slot) /\ i + 1 \in 1 .. Len(r)
    BY <1>0, <1>2
  <2>2. /\ t \in Seq(slot) /\ Len(t) = Len(r) - 1
        /\ \A k \in 1 .. Len(r) - 1 : t[k] = IF k < i + 1 THEN r[k] ELSE r[k + 1]
    BY <2>1, RemoveAtProps
  <2> HIDE DEF t
  <2> QED BY <2>2, <1>2
<1> HIDE DEF t
<1>4. \A k \in 1 .. i - 1 : t[k] = s[k]
  <2> SUFFICES ASSUME NEW k \in 1 .. i - 1 PROVE t[k] = s[k]
    OBVIOUS
  <2>1. k \in 1 .. Len(s) - 1 /\ k < i + 1 /\ k # i /\ k \in 1 .. Len(s)
    BY <1>0
  <2> QED BY <2>1, <1>2, <1>3
<1>5. t[i] = n
  BY <1>0, <1>2, <1>3
<1>6. \A k \in i + 1 .. Len(s) - 1 : t[k] = s[k + 1]
  <2> SUFFICES ASSUME NEW k \in i + 1 .. Len(s) - 1 PROVE t[k] = s[k + 1]
    OBVIOUS
  <2>1. k \in 1 .. Len(s) - 1 /\ ~(k < i + 1) /\ k + 1 # i /\ k + 1 \in 1 .. Len(s)
    BY <1>0
  <2> QED BY <2>1, <1>2, <1>3
<1>7. /\ \A k \in 1 .. Len(t) : k \in 1 .. i - 1 \/ k = i \/ k \in i + 1 .. Len(s) - 1
      /\ \A k \in 1 .. i - 1 : k \in 1 .. Len(s) /\ k \in 1 .. Len(t)
      /\ \A k \in i + 1 .. Len(s) - 1 : k + 1 \in 1 .. Len(s) /\ k \in 1 .. Len(t)
      /\ \A k \in 1 .. Len(s) : \/ k \in 1 .. i - 1 \/ k = i \/ k = i + 1
                                \/ \E j \in i + 1 .. Len(s) - 1 : k = j + 1
  <2>1. \A k \in i + 2 .. Len(s) : k - 1 \in i + 1 .. Len(s) - 1 /\ k = k - 1 + 1
    BY <1>0
  <2>2. \A k \in 1 .. Len(s) : \/ k \in 1 .. i - 1 \/ k = i \/ k = i + 1
                              \/ k \in i + 2 .. Len(s)
    BY <1>0
  <2>3. \A k \in 1 .. Len(s) : \/ k \in 1 .. i - 1 \/ k = i \/ k = i + 1
                              \/ \E j \in i + 1 .. Len(s) - 1 : k = j + 1
    BY <2>1, <2>2
  <2>4. \A k \in 1 .. Len(t) : k \in 1 .. i - 1 \/ k = i \/ k \in i + 1 .. Len(s) - 1
    BY <1>0, <1>3
  <2>5. /\ \A k \in 1 .. i - 1 : k \in 1 .. Len(s) /\ k \in 1 .. Len(t)
        /\ \A k \in i + 1 .. Len(s) - 1 : k + 1 \in 1 .. Len(s) /\ k \in 1 .. Len(t)
    BY <1>0, <1>3
  <2> QED BY <2>3, <2>4, <2>5
(* Slot k of t reaches from the start of slot lo[k] of s to the end of     *)
(* slot hi[k].                                                             *)
<1> DEFINE lo == [k \in 1 .. Len(t) |-> IF k <= i THEN k ELSE k + 1]
           hi == [k \in 1 .. Len(t) |-> IF k < i THEN k ELSE k + 1]
<1>8. ASSUME NEW k \in 1 .. Len(t)
      PROVE  /\ lo[k] \in 1 .. Len(s) /\ hi[k] \in 1 .. Len(s)
             /\ t[k].start = s[lo[k]].start
             /\ t[k].end = s[hi[k]].end
             /\ t[k].start < t[k].end
  <2>1. CASE k \in 1 .. i - 1
    <3>1. lo[k] = k /\ hi[k] = k /\ t[k] = s[k] /\ k \in 1 .. Len(s)
      BY <2>1, <1>0, <1>4
    <3> QED BY <3>1 DEF Ordered
  <2>2. CASE k = i
    <3>1. lo[k] = i /\ hi[k] = i + 1 /\ t[k] = n
      BY <2>2, <1>0, <1>5
    <3>2. s[i].start < s[i].end /\ s[i].end <= s[i + 1].start /\ s[i + 1].start < s[i + 1].end
      BY <1>0 DEF Ordered
    <3> QED BY <3>1, <3>2, <1>0, <1>1
  <2>3. CASE k \in i + 1 .. Len(s) - 1
    <3>1. lo[k] = k + 1 /\ hi[k] = k + 1 /\ t[k] = s[k + 1] /\ k + 1 \in 1 .. Len(s)
      BY <2>3, <1>0, <1>6
    <3> QED BY <3>1 DEF Ordered
  <2> QED BY <2>1, <2>2, <2>3, <1>7
<1>9. \A j, k \in 1 .. Len(t) : j < k => hi[j] < lo[k]
  BY <1>0, <1>3
<1> HIDE DEF lo, hi
<1>10. Ordered(t)
  <2>1. ASSUME NEW j \in 1 .. Len(t), NEW k \in 1 .. Len(t), j < k
        PROVE  t[j].end <= t[k].start
    <3>1. hi[j] < lo[k] /\ hi[j] \in 1 .. Len(s) /\ lo[k] \in 1 .. Len(s)
      BY <2>1, <1>8, <1>9
    <3>2. s[hi[j]].end <= s[lo[k]].start
      BY <3>1 DEF Ordered
    <3> QED BY <3>2, <1>8
  <2> QED BY <2>1, <1>8 DEF Ordered
<1>11. InUse(t) = InUse(s)
  <2>1. ASSUME NEW x, NEW k \in 1 .. Len(t), t[k].in_use, x = <<t[k].start, t[k].end>>
        PROVE  x \in InUse(s)
    <3>1. CASE k \in 1 .. i - 1
      BY <3>1, <2>1, <1>4, <1>7, InUseElement
    <3>2. CASE k \in i + 1 .. Len(s) - 1
      BY <3>2, <2>1, <1>6, <1>7, InUseElement
    <3> QED BY <3>1, <3>2, <2>1, <1>1, <1>5, <1>7
  <2>2. ASSUME NEW x, NEW k \in 1 .. Len(s), s[k].in_use, x = <<s[k].start, s[k].end>>
        PROVE  x \in InUse(t)
    <3>1. CASE k \in 1 .. i - 1
      BY <3>1, <2>2, <1>4, <1>7, InUseElement
    <3>2. CASE \E j \in i + 1 .. Len(s) - 1 : k = j + 1
      BY <3>2, <2>2, <1>6, <1>7, InUseElement
    <3> QED BY <3>1, <3>2, <2>2, <1>7
  <2> QED BY <2>1, <2>2, InUseElement
<1>12. Merge(s, i) = t
  BY DEF Merge, t, r, n
<1>13. ASSUME Tiled(s) PROVE Tiled(t)
  <2> SUFFICES ASSUME NEW x \in Nat, x < EndOf(t)
               PROVE  \E k \in 1 .. Len(t) : HasByte(t, k, x)
    BY DEF Tiled
  <2>1. EndOf(t) = EndOf(s)
    <3>1. s # <<>> /\ t # <<>>
      BY <1>0, <1>3, EmptySeq
    <3>2. CASE i = Len(s) - 1
      BY <3>1, <3>2, <1>0, <1>1, <1>3, <1>5 DEF EndOf
    <3>3. CASE i # Len(s) - 1
      <4>1. Len(s) - 1 \in i + 1 .. Len(s) - 1 /\ Len(s) - 1 + 1 = Len(s)
        BY <3>3, <1>0
      <4>2. t[Len(s) - 1] = s[Len(s)]
        BY <4>1, <1>6
      <4> QED BY <3>1, <4>2, <1>3 DEF EndOf
    <3> QED BY <3>2, <3>3
  <2>2. PICK k \in 1 .. Len(s) : HasByte(s, k, x)
    BY <2>1, <1>13 DEF Tiled
  <2>3. CASE k \in 1 .. i - 1
    BY <2>2, <2>3, <1>4, <1>7 DEF HasByte
  <2>4. CASE k = i \/ k = i + 1
    <3>1. s[i].start < s[i].end /\ s[i].end <= s[i + 1].start /\ s[i + 1].start < s[i + 1].end
      BY <1>0 DEF Ordered
    <3>2. HasByte(t, i, x)
      BY <3>1, <2>2, <2>4, <1>0, <1>1, <1>5 DEF HasByte
    <3>3. i \in 1 .. Len(t)
      BY <1>0, <1>3
    <3> QED BY <3>2, <3>3
  <2>5. CASE \E j \in i + 1 .. Len(s) - 1 : k = j + 1
    BY <2>2, <2>5, <1>6, <1>7 DEF HasByte
  <2> QED BY <2>3, <2>4, <2>5, <1>7
<1> QED BY <1>1, <1>3, <1>4, <1>5, <1>6, <1>10, <1>11, <1>12, <1>13

(* Removing the last slots, the last of which is the only one in use.      *)
LEMMA TruncateSlots ==
  ASSUME NEW s \in Seq(slot), Ordered(s), Tiled(s), NEW m \in 0 .. Len(s),
         \A k \in 1 .. m : k < m \/ s[k].in_use,
         \A k \in 1 .. m - 1 : FollowedByUsed(s, k)
  PROVE  LET t == SubSeq(s, 1, m)
         IN  /\ WellFormed(t)
             /\ \A x : x \in InUse(t)
                       <=> \E k \in 1 .. m : s[k].in_use /\ x = <<s[k].start, s[k].end>>
<1> DEFINE t == SubSeq(s, 1, m)
<1>0. Len(s) \in Nat /\ \A k \in 1 .. m : k \in 1 .. Len(s) /\ s[k] \in slot
  BY SlotFacts
<1>1. t \in Seq(slot) /\ Len(t) = m /\ \A k \in 1 .. m : t[k] = s[k]
  <2>1. \A k \in 1 .. m : s[k] \in slot
    BY <1>0
  <2>2. 1 \in Int /\ m \in Int
    OBVIOUS
  <2>3. /\ t \in Seq(slot)
        /\ Len(t) = IF 1 <= m THEN m - 1 + 1 ELSE 0
        /\ \A k \in 1 .. m - 1 + 1 : t[k] = s[1 + k - 1]
    BY <2>1, <2>2, SubSeqProperties
  <2> HIDE DEF t
  <2> QED BY <2>3, <1>0
<1> HIDE DEF t
<1>2. Ordered(t)
  BY <1>0, <1>1 DEF Ordered
<1>3. Coalesced(t)
  <2> SUFFICES ASSUME NEW k \in 1 .. Len(t), ~t[k].in_use
               PROVE  k < Len(t) /\ t[k + 1].in_use
    BY DEF Coalesced, FollowedByUsed
  <2>1. k \in 1 .. m /\ t[k] = s[k] /\ k < m
    BY <1>1
  <2>2. k \in 1 .. m - 1 /\ k + 1 \in 1 .. m
    BY <2>1
  <2>3. s[k + 1].in_use
    BY <2>1, <2>2 DEF FollowedByUsed
  <2> QED BY <2>1, <2>2, <2>3, <1>1
<1>4. ASSUME NEW x
      PROVE  x \in InUse(t) <=> \E k \in 1 .. m : s[k].in_use /\ x = <<s[k].start, s[k].end>>
  BY <1>1, InUseElement
<1>5. Tiled(t)
  <2> SUFFICES ASSUME NEW x \in Nat, x < EndOf(t)
               PROVE  \E k \in 1 .. Len(t) : HasByte(t, k, x)
    BY DEF Tiled
  <2>0. \A k \in 1 .. Len(s) : s[k].start \in Nat /\ s[k].end \in Nat
    BY SlotFacts
  <2>1. m > 0 /\ EndOf(t) = s[m].end
    BY <1>1, EmptySeq DEF EndOf
  <2>2. m \in 1 .. Len(s) /\ Len(s) \in 1 .. Len(s) /\ s # <<>>
    BY <2>1, <1>0, EmptySeq
  <2>3. s[m].end <= EndOf(s)
    <3>1. CASE m = Len(s)
      BY <3>1, <2>0, <2>2 DEF EndOf
    <3>2. CASE m < Len(s)
      <4>1. s[m].end <= s[Len(s)].start /\ s[Len(s)].start < s[Len(s)].end
        BY <3>2, <2>2 DEF Ordered
      <4> QED BY <4>1, <2>0, <2>2 DEF EndOf
    <3> QED BY <3>1, <3>2, <2>2, <1>0
  <2>4. PICK k \in 1 .. Len(s) : HasByte(s, k, x)
    <3>1. EndOf(s) \in Nat
      BY <2>0, <2>2 DEF EndOf
    <3>2. x < EndOf(s)
      BY <3>1, <2>0, <2>1, <2>2, <2>3
    <3> QED BY <3>2 DEF Tiled
  <2>5. k <= m
    <3> SUFFICES ASSUME m < k PROVE FALSE
      BY <2>2, <1>0
    <3>1. s[m].end <= s[k].start
      BY <2>2 DEF Ordered
    <3> QED BY <3>1, <2>0, <2>1, <2>2, <2>4 DEF HasByte
  <2> QED BY <2>4, <2>5, <1>1 DEF HasByte
<1> QED BY <1>1, <1>2, <1>3, <1>4, <1>5 DEF WellFormed, t

(* Two different slots of an ordered list start at different addresses.    *)
LEMMA StartsDiffer ==
  ASSUME NEW s \in Seq(slot), Ordered(s),
         NEW i \in 1 .. Len(s), NEW j \in 1 .. Len(s), i # j
  PROVE  s[i].start # s[j].start
<1>1. ASSUME NEW a \in 1 .. Len(s), NEW b \in 1 .. Len(s), a < b
      PROVE  s[a].start # s[b].start
  <2>1. s[a].start < s[a].end /\ s[a].end <= s[b].start
    BY <1>1 DEF Ordered
  <2>2. s[a].start \in Nat /\ s[a].end \in Nat /\ s[b].start \in Nat
    BY SlotFacts
  <2> QED BY <2>1, <2>2
<1>2. i < j \/ j < i
  BY SlotFacts
<1> QED BY <1>1, <1>2

(* free of a slot in use: the list stays well formed and loses exactly the *)
(* block that was freed.                                                   *)
LEMMA FreeSlotProps ==
  ASSUME WellFormed(m_slots), NEW i \in 1 .. Len(m_slots), m_slots[i].in_use
  PROVE  /\ WellFormed(FreeSlot(i))
         /\ InUse(FreeSlot(i)) = InUse(m_slots) \ {<<m_slots[i].start, m_slots[i].end>>}
<1> DEFINE s == m_slots
           x0 == <<s[i].start, s[i].end>>
<1>0. /\ s \in Seq(slot) /\ Ordered(s) /\ Tiled(s) /\ Len(s) \in Nat
      /\ \A k \in 1 .. Len(s) : FollowedByUsed(s, k)
  BY SlotFacts DEF WellFormed, Coalesced
<1>1. \A k \in 1 .. Len(s) : k # i => <<s[k].start, s[k].end>> # x0
  BY <1>0, StartsDiffer
<1>2. CASE i = Len(s)
  <2> DEFINE m == IF FreeAt(s, i - 1) THEN i - 2 ELSE i - 1
  <2>1. /\ m \in 0 .. Len(s)
        /\ \A k \in 1 .. m : k < m \/ s[k].in_use
        /\ \A k \in 1 .. m : k \in 1 .. Len(s) /\ k # i
        /\ \A k \in 1 .. Len(s) : k # i /\ k \notin 1 .. m => ~s[k].in_use
        /\ \A k \in 1 .. m - 1 : FollowedByUsed(s, k)
    <3>1. CASE FreeAt(s, i - 1)
      <4>1. m = i - 2 /\ i - 1 \in 1 .. Len(s) /\ ~s[i - 1].in_use
        BY <3>1 DEF FreeAt
      <4> HIDE DEF m
      <4>2. m \in 0 .. Len(s) /\ \A k \in 1 .. m : k \in 1 .. Len(s) /\ k # i
        BY <4>1, <1>2, <1>0
      <4>3. ASSUME m \in 1 .. m PROVE s[m].in_use
        <5>1. m \in 1 .. Len(s) /\ m + 1 = i - 1
          BY <4>1, <4>2, <4>3
        <5> QED BY <5>1, <4>1, <1>0 DEF FollowedByUsed
      <4>4. \A k \in 1 .. m : k < m \/ s[k].in_use
        BY <4>2, <4>3
      <4>5. \A k \in 1 .. Len(s) : k # i /\ k \notin 1 .. m => k = i - 1
        BY <4>1, <1>2, <1>0
      <4>6. \A k \in 1 .. m - 1 : k \in 1 .. Len(s)
        BY <4>2
      <4> QED BY <4>1, <4>2, <4>4, <4>5, <4>6, <1>0
    <3>2. CASE ~FreeAt(s, i - 1)
      <4>1. m = i - 1 /\ (i - 1 \in 1 .. Len(s) => s[i - 1].in_use)
        BY <3>2 DEF FreeAt
      <4> HIDE DEF m
      <4>2. m \in 0 .. Len(s) /\ \A k \in 1 .. m : k \in 1 .. Len(s) /\ k # i
        BY <4>1, <1>2, <1>0
      <4>3. \A k \in 1 .. m : k < m \/ s[k].in_use
        BY <4>1, <4>2
      <4>4. \A k \in 1 .. Len(s) : k # i => k \in 1 .. m
        BY <4>1, <1>2, <1>0
      <4>5. \A k \in 1 .. m - 1 : k \in 1 .. Len(s)
        BY <4>2
      <4> QED BY <4>2, <4>3, <4>4, <4>5, <1>0
    <3> QED BY <3>1, <3>2
  <2>2. FreeSlot(i) = SubSeq(s, 1, m)
    BY <1>2 DEF FreeSlot, DropLast
  <2> HIDE DEF m
  <2> DEFINE t == SubSeq(s, 1, m)
  <2>3. /\ WellFormed(t)
        /\ \A x : x \in InUse(t)
                  <=> \E k \in 1 .. m : s[k].in_use /\ x = <<s[k].start, s[k].end>>
    BY <2>1, <1>0, TruncateSlots
  <2> HIDE DEF t
  <2>4. ASSUME NEW x PROVE x \in InUse(t) <=> x \in InUse(s) /\ x # x0
    BY <2>1, <2>3, <1>1, InUseElement
  <2>5. InUse(t) = InUse(s) \ {x0}
    BY <2>4
  <2> QED BY <2>2, <2>3, <2>5 DEF t
<1>3. CASE i # Len(s)
  <2> DEFINE t == [s EXCEPT ![i].in_use = FALSE]
             u == JoinNext(t, i)
             v == JoinPrev(u, i)
  <2>0. i < Len(s) /\ i + 1 \in 1 .. Len(s)
    BY <1>0, <1>3
  <2>1. /\ t \in Seq(slot)
        /\ Ordered(t)
        /\ Tiled(t)
        /\ Len(t) = Len(s)
        /\ \A k \in 1 .. Len(s) : k # i => t[k] = s[k]
        /\ \A k \in 1 .. Len(s) : t[k].start = s[k].start /\ t[k].end = s[k].end
        /\ t[i].in_use = FALSE
    BY <1>0, MarkSlot
  <2> HIDE DEF t
  <2>2. InUse(t) = InUse(s) \ {x0}
    <3>1. ASSUME NEW x, NEW k \in 1 .. Len(s), t[k].in_use, x = <<t[k].start, t[k].end>>
          PROVE  x \in InUse(s) \ {x0}
      BY <3>1, <2>1, <1>1, InUseElement
    <3>2. ASSUME NEW x, NEW k \in 1 .. Len(s), s[k].in_use, x = <<s[k].start, s[k].end>>, x # x0
          PROVE  x \in InUse(t)
      BY <3>2, <2>1, InUseElement
    <3> QED BY <3>1, <3>2, <2>1, InUseElement
  <2>3. \A k \in 1 .. Len(s) : k # i /\ k # i - 1 => FollowedByUsed(t, k)
    <3> SUFFICES ASSUME NEW k \in 1 .. Len(s), k # i, k # i - 1, ~t[k].in_use
                 PROVE  k < Len(t) /\ t[k + 1].in_use
      BY DEF FollowedByUsed
    <3>1. k < Len(s) /\ s[k + 1].in_use
      BY <2>1, <1>0 DEF FollowedByUsed
    <3>2. k + 1 \in 1 .. Len(s) /\ k + 1 # i
      BY <3>1, <1>0
    <3> QED BY <3>1, <3>2, <2>1
  (* u: slot i is free and the slot after it is in use                     *)
  <2>4. /\ u \in Seq(slot) /\ Ordered(u) /\ Tiled(u) /\ InUse(u) = InUse(t)
        /\ i < Len(u) /\ ~u[i].in_use
        /\ \A k \in 1 .. Len(u) : k # i - 1 => FollowedByUsed(u, k)
        /\ \A k \in 1 .. i - 1 : u[k] = s[k]
    <3>1. CASE FreeAt(t, i + 1)
      <4>1. u = Merge(t, i) /\ i \in 1 .. Len(t) - 1 /\ ~t[i].in_use /\ ~t[i + 1].in_use
        BY <3>1, <2>0, <2>1, <1>0 DEF JoinNext, FreeAt
      <4> HIDE DEF u
      <4>2. /\ u \in Seq(slot) /\ Len(u) = Len(t) - 1 /\ Ordered(u)
            /\ \A k \in 1 .. i - 1 : u[k] = t[k]
            /\ ~u[i].in_use
            /\ \A k \in i + 1 .. Len(t) - 1 : u[k] = t[k + 1]
            /\ InUse(u) = InUse(t)
            /\ Tiled(u)
        BY <4>1, <2>1, MergeSlots
      <4>3. i + 1 < Len(s) /\ t[i + 2].in_use
        <5>1. i + 1 # i /\ i + 1 # i - 1 /\ i + 1 + 1 = i + 2
          OBVIOUS
        <5> QED BY <5>1, <4>1, <2>0, <2>1, <2>3 DEF FollowedByUsed
      <4>4. i < Len(u) /\ u[i + 1].in_use
        <5>1. i + 1 \in i + 1 .. Len(t) - 1 /\ i + 1 + 1 = i + 2
          BY <4>3, <2>1, <1>0
        <5> QED BY <5>1, <4>2, <4>3, <2>1, <1>0
      <4>5. \A k \in 1 .. i - 1 : u[k] = s[k]
        <5>1. \A k \in 1 .. i - 1 : k \in 1 .. Len(s) /\ k # i
          BY <1>0
        <5> QED BY <5>1, <4>2, <2>1
      <4>6. ASSUME NEW k \in 1 .. Len(u), k # i - 1, ~u[k].in_use
            PROVE  k < Len(u) /\ u[k + 1].in_use
        <5>1. CASE k \in 1 .. i - 2
          <6>1. k \in 1 .. i - 1 /\ k + 1 \in 1 .. i - 1 /\ k \in 1 .. Len(s)
            BY <5>1, <1>0
          <6> QED BY <6>1, <4>4, <4>5, <4>6, <1>0 DEF FollowedByUsed
        <5>2. CASE k = i
          BY <5>2, <4>4
        <5>3. CASE k \in i + 1 .. Len(t) - 1
          <6>1. k + 1 \in 1 .. Len(s) /\ k + 1 # i /\ k + 1 # i - 1
            BY <5>3, <2>1, <1>0
          <6>2. k + 1 < Len(t) /\ t[k + 1 + 1].in_use
            BY <6>1, <5>3, <4>2, <4>6, <2>3 DEF FollowedByUsed
          <6>3. k + 1 \in i + 1 .. Len(t) - 1
            BY <6>2, <5>3, <2>1, <1>0
          <6> QED BY <6>2, <6>3, <4>2, <2>1, <1>0
        <5> QED BY <5>1, <5>2, <5>3, <4>2, <4>6, <2>1, <1>0
      <4>7. \A k \in 1 .. Len(u) : k # i - 1 => FollowedByUsed(u, k)
        BY <4>6 DEF FollowedByUsed
      <4> QED BY <4>2, <4>4, <4>5, <4>7
    <3>2. CASE ~FreeAt(t, i + 1)
      <4>1. u = t /\ t[i + 1].in_use
        BY <3>2, <2>0, <2>1 DEF JoinNext, FreeAt
      <4> HIDE DEF u
      <4>2. FollowedByUsed(t, i)
        BY <4>1, <2>0, <2>1 DEF FollowedByUsed
      <4>3. \A k \in 1 .. i - 1 : k \in 1 .. Len(s) /\ k # i
        BY <1>0
      <4> QED BY <4>1, <4>2, <4>3, <2>0, <2>1, <2>3
    <3> QED BY <3>1, <3>2
  <2> HIDE DEF u
  <2>5. WellFormed(v) /\ InUse(v) = InUse(u)
    <3>0. Len(u) \in Nat
      BY <2>4, SlotFacts
    <3>1. CASE FreeAt(u, i - 1)
      <4> DEFINE p == i - 1
      <4>1. v = Merge(u, p) /\ p \in 1 .. Len(u) /\ ~u[p].in_use
        BY <3>1 DEF JoinPrev, FreeAt
      <4> HIDE DEF v
      <4>2. p \in 1 .. Len(u) - 1 /\ p + 1 = i /\ i - 1 = p
        BY <4>1, <2>4, <3>0
      <4> HIDE DEF p
      <4>3. /\ v \in Seq(slot) /\ Len(v) = Len(u) - 1 /\ Ordered(v)
            /\ \A k \in 1 .. p - 1 : v[k] = u[k]
            /\ ~v[p].in_use
            /\ \A k \in p + 1 .. Len(u) - 1 : v[k] = u[k + 1]
            /\ InUse(v) = InUse(u)
            /\ Tiled(v)
        <5>1. u \in Seq(slot) /\ Ordered(u) /\ Tiled(u) /\ ~u[p + 1].in_use
          BY <4>2, <2>4
        <5>2. ~u[p].in_use /\ p \in 1 .. Len(u) - 1
          BY <4>1, <4>2
        <5>3. v = Merge(u, p)
          BY <4>1
        <5>4. /\ Merge(u, p) \in Seq(slot) /\ Len(Merge(u, p)) = Len(u) - 1
              /\ Ordered(Merge(u, p))
              /\ \A k \in 1 .. p - 1 : Merge(u, p)[k] = u[k]
              /\ ~Merge(u, p)[p].in_use
              /\ \A k \in p + 1 .. Len(u) - 1 : Merge(u, p)[k] = u[k + 1]
              /\ InUse(Merge(u, p)) = InUse(u)
              /\ Tiled(Merge(u, p))
          BY <5>1, <5>2, MergeSlots
        <5> QED BY <5>3, <5>4
      <4>4. ASSUME NEW k \in 1 .. Len(v), ~v[k].in_use
            PROVE  k < Len(v) /\ v[k + 1].in_use
        <5>0. u[i + 1].in_use
          <6>1. i \in 1 .. Len(u) /\ i # i - 1
            BY <2>4, <3>0
          <6> QED BY <6>1, <2>4 DEF FollowedByUsed
        <5>1. CASE k \in 1 .. p - 1
          <6>1. k \in 1 .. Len(u) /\ k # p /\ ~u[k].in_use
            BY <5>1, <4>2, <4>3, <4>4, <3>0
          <6>2. u[k + 1].in_use
            BY <6>1, <4>2, <2>4 DEF FollowedByUsed
          <6>3. k + 1 # p
            BY <6>2, <4>1
          <6>4. k + 1 \in 1 .. p - 1 /\ k < Len(v)
            BY <6>3, <5>1, <4>2, <4>3, <3>0
          <6> QED BY <6>2, <6>4, <4>3
        <5>2. CASE k = p
          <6>1. p + 1 \in p + 1 .. Len(u) - 1 /\ p < Len(v)
            BY <4>2, <4>3, <2>4, <3>0
          <6>2. v[p + 1] = u[p + 1 + 1] /\ p + 1 + 1 = i + 1
            BY <6>1, <4>2, <4>3
          <6> QED BY <6>1, <6>2, <5>0, <5>2
        <5>3. CASE k \in p + 1 .. Len(u) - 1
          <6>1. k + 1 \in 1 .. Len(u) /\ k + 1 # i - 1 /\ ~u[k + 1].in_use
            BY <5>3, <4>2, <4>3, <4>4, <3>0
          <6>2. k + 1 < Len(u) /\ u[k + 1 + 1].in_use
            BY <6>1, <2>4 DEF FollowedByUsed
          <6>3. k + 1 \in p + 1 .. Len(u) - 1
            BY <6>2, <5>3, <4>2, <3>0
          <6> QED BY <6>2, <6>3, <4>3, <3>0
        <5> QED BY <5>1, <5>2, <5>3, <4>2, <4>3, <3>0
      <4>5. Coalesced(v)
        BY <4>4 DEF Coalesced, FollowedByUsed
      <4> QED BY <4>3, <4>5 DEF WellFormed
    <3>2. CASE ~FreeAt(u, i - 1)
      <4>1. v = u /\ (i - 1 \in 1 .. Len(u) => u[i - 1].in_use)
        BY <3>2 DEF JoinPrev, FreeAt
      <4> HIDE DEF v
      <4>2. Coalesced(u)
        BY <4>1, <2>4 DEF Coalesced, FollowedByUsed
      <4> QED BY <4>1, <4>2, <2>4 DEF WellFormed
    <3> QED BY <3>1, <3>2
  <2>6. FreeSlot(i) = v
    BY <1>3 DEF FreeSlot, u, t
  <2> QED BY <2>2, <2>4, <2>5, <2>6
<1> QED BY <1>2, <1>3

-----------------------------------------------------------------------------
(* The inductive invariant                                                 *)

LEMMA BlockFacts ==
  ASSUME TypeOK
  PROVE  /\ \A id \in AllocIds : SizeOf[id] \in Nat
         /\ \A id \in Held : stack_addrs[id] \in Nat /\ BlockEnd(id) \in Nat
  BY SizesAssumption, NoAddrAssumption DEF TypeOK, Addr, Held, BlockEnd

(* A held block is a slot in use, and a slot in use is a held block.       *)
LEMMA HeldIsSlot ==
  ASSUME IInv
  PROVE  /\ \A id \in Held : \E i \in 1 .. Len(m_slots) :
              /\ m_slots[i].in_use
              /\ m_slots[i].start = stack_addrs[id]
              /\ m_slots[i].end = BlockEnd(id)
         /\ \A i \in 1 .. Len(m_slots) :
              m_slots[i].in_use => \E id \in Held : /\ m_slots[i].start = stack_addrs[id]
                                                  /\ m_slots[i].end = BlockEnd(id)
<1>1. ASSUME NEW id \in Held
      PROVE  \E i \in 1 .. Len(m_slots) : /\ m_slots[i].in_use
                                         /\ m_slots[i].start = stack_addrs[id]
                                         /\ m_slots[i].end = BlockEnd(id)
  <2>1. <<stack_addrs[id], BlockEnd(id)>> \in InUse(m_slots)
    BY DEF IInv, HeldBlocks
  <2> QED BY <2>1, InUseElement
<1>2. ASSUME NEW i \in 1 .. Len(m_slots), m_slots[i].in_use
      PROVE  \E id \in Held : m_slots[i].start = stack_addrs[id] /\ m_slots[i].end = BlockEnd(id)
  <2>1. <<m_slots[i].start, m_slots[i].end>> \in HeldBlocks
    BY <1>2, InUseElement DEF IInv
  <2> QED BY <2>1 DEF HeldBlocks
<1> QED BY <1>1, <1>2

(* The blocks after id, which was not held, has been given [a, a + size).  *)
LEMMA HeldAfterAlloc ==
  ASSUME IInv, NEW id \in AllocIds, stack_addrs[id] = NoAddr, NEW a \in Nat,
         stack_addrs' = [stack_addrs EXCEPT ![id] = a],
         \A other \in Held : stack_addrs[other] # a
  PROVE  /\ stack_addrs' \in [AllocIds -> Addr]
         /\ HeldBlocks' = HeldBlocks \cup {<<a, a + SizeOf[id]>>}
         /\ \A x, y \in Held' : stack_addrs'[x] = stack_addrs'[y] => x = y
<1>1. stack_addrs \in [AllocIds -> Addr] /\ a # NoAddr
  BY NoAddrAssumption DEF IInv, TypeOK
<1>2. Held' = Held \cup {id} /\ id \notin Held
  BY <1>1 DEF Held
<1>3. /\ stack_addrs'[id] = a
      /\ \A other \in Held : stack_addrs'[other] = stack_addrs[other]
  BY <1>1, <1>2 DEF Held
<1>4. stack_addrs' \in [AllocIds -> Addr]
  BY <1>1 DEF Addr
<1>5. HeldBlocks' = HeldBlocks \cup {<<a, a + SizeOf[id]>>}
  BY <1>2, <1>3 DEF HeldBlocks, BlockEnd
<1>6. \A x, y \in Held' : stack_addrs'[x] = stack_addrs'[y] => x = y
  BY <1>2, <1>3 DEF IInv
<1> QED BY <1>4, <1>5, <1>6

LEMMA HeldAfterFree ==
  ASSUME IInv, NEW id \in Held, stack_addrs' = [stack_addrs EXCEPT ![id] = NoAddr]
  PROVE  /\ stack_addrs' \in [AllocIds -> Addr]
         /\ HeldBlocks' = HeldBlocks \ {<<stack_addrs[id], BlockEnd(id)>>}
         /\ \A x, y \in Held' : stack_addrs'[x] = stack_addrs'[y] => x = y
<1>1. stack_addrs \in [AllocIds -> Addr] /\ id \in AllocIds
  BY DEF IInv, TypeOK, Held
<1>2. Held' = Held \ {id}
  BY <1>1 DEF Held
<1>3. \A other \in Held \ {id} : stack_addrs'[other] = stack_addrs[other]
  BY <1>1 DEF Held
<1>4. stack_addrs' \in [AllocIds -> Addr]
  BY <1>1 DEF Addr
<1>5. HeldBlocks' = HeldBlocks \ {<<stack_addrs[id], BlockEnd(id)>>}
  <2>1. \A other \in Held \ {id} : stack_addrs[other] # stack_addrs[id]
    BY DEF IInv
  <2> QED BY <1>2, <1>3, <2>1 DEF HeldBlocks, BlockEnd
<1>6. \A x, y \in Held' : stack_addrs'[x] = stack_addrs'[y] => x = y
  BY <1>2, <1>3 DEF IInv
<1> QED BY <1>4, <1>5, <1>6

NoEmptyBlocks == \A id \in AllocIds : SizeOf[id] > 0

LEMMA InitIInv == Init => IInv
<1> SUFFICES ASSUME Init PROVE IInv
  OBVIOUS
<1>1. TypeOK
  BY EmptySeq DEF Init, TypeOK, Addr
<1>2. Len(m_slots) = 0 /\ Held = {}
  BY DEF Init, Held
<1>3. Ordered(m_slots) /\ Coalesced(m_slots) /\ InUse(m_slots) = {} /\ HeldBlocks = {}
  BY <1>2 DEF Ordered, Coalesced, InUse, HeldBlocks
<1>4. Tiled(m_slots)
  BY DEF Init, Tiled, EndOf
<1> QED BY <1>1, <1>2, <1>3, <1>4 DEF IInv, Init

LEMMA AllocIInv ==
  ASSUME NoEmptyBlocks, IInv, NEW id \in AllocIds, StackAllocate(id)
  PROVE  IInv'
<1> DEFINE sz == SizeOf[id]
<1>0. /\ WellFormed(m_slots) /\ m_slots \in Seq(slot) /\ Ordered(m_slots)
      /\ InUse(m_slots) = HeldBlocks
      /\ sz \in Nat /\ sz > 0
      /\ stack_addrs[id] = NoAddr
      /\ UNCHANGED asserted
  BY BlockFacts DEF IInv, TypeOK, WellFormed, NoEmptyBlocks, StackAllocate
<1> HIDE DEF sz
<1>1. ASSUME NEW a \in Nat, WellFormed(m_slots'),
             InUse(m_slots') = InUse(m_slots) \cup {<<a, a + sz>>},
             stack_addrs' = [stack_addrs EXCEPT ![id] = a],
             \A other \in Held : stack_addrs[other] # a
      PROVE  IInv'
  <2>1. /\ stack_addrs' \in [AllocIds -> Addr]
        /\ HeldBlocks' = HeldBlocks \cup {<<a, a + SizeOf[id]>>}
        /\ \A x, y \in Held' : stack_addrs'[x] = stack_addrs'[y] => x = y
    BY <1>0, <1>1, HeldAfterAlloc
  <2>2. InUse(m_slots)' = HeldBlocks'
    BY <2>1, <1>0, <1>1 DEF sz, InUse
  <2>3. /\ m_slots' \in Seq(slot) /\ Ordered(m_slots)' /\ Coalesced(m_slots)' /\ Tiled(m_slots)'
    BY <1>1 DEF WellFormed, Ordered, Coalesced, FollowedByUsed, Tiled, EndOf, HasByte
  <2>4. asserted' \in BOOLEAN /\ ~asserted'
    BY <1>0 DEF IInv, TypeOK
  <2> QED BY <2>1, <2>2, <2>3, <2>4 DEF IInv, TypeOK
<1>2. CASE \E i \in 1 .. Len(m_slots) :
             /\ IsFirstFit(i, sz)
             /\ AllocInSlot(i, sz)
             /\ stack_addrs' = [stack_addrs EXCEPT ![id] = m_slots[i].start]
  <2> PICK i \in 1 .. Len(m_slots) :
             /\ IsFirstFit(i, sz)
             /\ AllocInSlot(i, sz)
             /\ stack_addrs' = [stack_addrs EXCEPT ![id] = m_slots[i].start]
    BY <1>2
  <2> DEFINE a == m_slots[i].start
             e == m_slots[i].end
  <2>1. a \in Nat /\ e \in Nat /\ ~m_slots[i].in_use /\ e - a >= sz
    BY <1>0, SlotFacts DEF IsFirstFit, Fits
  <2>2. \A other \in Held : stack_addrs[other] # a
    BY <2>1, <1>0, HeldIsSlot, StartsDiffer
  <2>3. WellFormed(m_slots') /\ InUse(m_slots') = InUse(m_slots) \cup {<<a, a + sz>>}
    <3>1. CASE e - a > sz
      <4>1. m_slots' = Split(i, sz)
        BY <3>1 DEF AllocInSlot
      <4>2. WellFormed(Split(i, sz))
            /\ InUse(Split(i, sz)) = InUse(m_slots) \cup {<<a, a + sz>>}
        <5>1. WellFormed(m_slots) /\ ~m_slots[i].in_use /\ sz \in Nat /\ sz > 0
              /\ m_slots[i].end - m_slots[i].start > sz
          BY <3>1, <2>1, <1>0
        <5> QED BY <5>1, SplitSlot DEF Split
      <4> QED BY <4>1, <4>2
    <3>2. CASE ~(e - a > sz)
      <4>0. e = a + sz
        BY <3>2, <2>1, <1>0
      <4>1. m_slots' = [m_slots EXCEPT ![i].in_use = TRUE]
        <5>1. AllocInSlot(i, sz) /\ ~(m_slots[i].end - m_slots[i].start > sz)
          BY <3>2
        <5> QED BY <5>1, Zenon DEF AllocInSlot
      <4>2. /\ WellFormed([m_slots EXCEPT ![i].in_use = TRUE])
            /\ InUse([m_slots EXCEPT ![i].in_use = TRUE]) = InUse(m_slots) \cup {<<a, e>>}
        BY <2>1, <1>0, TakeSlot
      <4> QED BY <4>0, <4>1, <4>2
    <3> QED BY <3>1, <3>2
  <2> QED BY <2>1, <2>2, <2>3, <1>1
<1>3. CASE AllocAtEnd(sz) /\ stack_addrs' = [stack_addrs EXCEPT ![id] = size]
  <2>1. EndOf(m_slots) = size
    BY DEF EndOf, size
  <2>2. m_slots' = Append(m_slots, [start |-> size, end |-> size + sz, in_use |-> TRUE])
    BY <1>3 DEF AllocAtEnd
  <2>3. /\ size \in Nat
        /\ WellFormed(m_slots')
        /\ InUse(m_slots') = InUse(m_slots) \cup {<<size, size + sz>>}
        /\ \A i \in 1 .. Len(m_slots) : m_slots[i].end <= size
    BY <2>1, <2>2, <1>0, AppendSlot
  <2>4. ASSUME NEW other \in Held PROVE stack_addrs[other] # size
    <3>1. PICK i \in 1 .. Len(m_slots) : m_slots[i].start = stack_addrs[other]
      BY HeldIsSlot
    <3>2. m_slots[i].start < m_slots[i].end /\ m_slots[i].end <= size
      BY <2>3, <1>0 DEF Ordered
    <3> QED BY <3>1, <3>2, <2>3, <1>0, SlotFacts
  <2> QED BY <2>3, <2>4, <1>1, <1>3
<1> QED BY <1>2, <1>3 DEF StackAllocate, sz

LEMMA FreeIInv ==
  ASSUME IInv, NEW id \in AllocIds, StackFree(id)
  PROVE  IInv'
<1>0. /\ WellFormed(m_slots) /\ m_slots \in Seq(slot) /\ Ordered(m_slots)
      /\ InUse(m_slots) = HeldBlocks
      /\ id \in Held
      /\ stack_addrs' = [stack_addrs EXCEPT ![id] = NoAddr]
  BY DEF IInv, TypeOK, WellFormed, Held, StackFree
<1>1. PICK j \in 1 .. Len(m_slots) : /\ m_slots[j].in_use
                                    /\ m_slots[j].start = stack_addrs[id]
                                    /\ m_slots[j].end = BlockEnd(id)
  BY <1>0, HeldIsSlot
<1>2. PICK i \in 1 .. Len(m_slots) : /\ IsFirstAt(i, stack_addrs[id])
                                    /\ m_slots' = FreeSlot(i)
                                    /\ UNCHANGED asserted
  BY <1>1 DEF StackFree
<1>3. i = j
  BY <1>0, <1>1, <1>2, StartsDiffer DEF IsFirstAt
<1>4. WellFormed(m_slots')
      /\ InUse(m_slots') = InUse(m_slots) \ {<<stack_addrs[id], BlockEnd(id)>>}
  BY <1>0, <1>1, <1>2, <1>3, FreeSlotProps
<1>5. /\ stack_addrs' \in [AllocIds -> Addr]
      /\ HeldBlocks' = HeldBlocks \ {<<stack_addrs[id], BlockEnd(id)>>}
      /\ \A x, y \in Held' : stack_addrs'[x] = stack_addrs'[y] => x = y
  BY <1>0, HeldAfterFree
<1>6. InUse(m_slots)' = HeldBlocks'
  BY <1>0, <1>4, <1>5 DEF InUse
<1>7. m_slots' \in Seq(slot) /\ Ordered(m_slots)' /\ Coalesced(m_slots)' /\ Tiled(m_slots)'
  BY <1>4 DEF WellFormed, Ordered, Coalesced, FollowedByUsed, Tiled, EndOf, HasByte
<1>8. asserted' \in BOOLEAN /\ ~asserted'
  BY <1>2 DEF IInv, TypeOK
<1> QED BY <1>5, <1>6, <1>7, <1>8 DEF IInv, TypeOK

LEMMA StutterIInv == IInv /\ UNCHANGED vars => IInv'
  BY DEF IInv, TypeOK, Ordered, Coalesced, FollowedByUsed, Tiled, EndOf, HasByte, InUse, HeldBlocks,
         Held, BlockEnd, vars

LEMMA NextIInv ==
  ASSUME NoEmptyBlocks, IInv, [Next]_vars
  PROVE  IInv'
<1>1. CASE Next
  BY <1>1, AllocIInv, FreeIInv DEF Next
<1>2. CASE UNCHANGED vars
  BY <1>2, StutterIInv
<1> QED BY <1>1, <1>2

(* The bookkeeping of the list and of the generator's table agree in every *)
(* reachable state: this is what alloc and free maintain.                  *)
THEOREM SlotsMatchBlocks ==
  ASSUME NoEmptyBlocks PROVE Spec => []IInv
<1>1. Init => IInv
  BY InitIInv
<1>2. IInv /\ [Next]_vars => IInv'
  BY NextIInv
<1> QED BY <1>1, <1>2, PTL DEF Spec

LEMMA IInvBlocksDisjoint ==
  ASSUME IInv PROVE BlocksDisjoint
<1>0. m_slots \in Seq(slot) /\ Ordered(m_slots) /\ Coalesced(m_slots)
  BY DEF IInv, TypeOK
<1>1. ASSUME NEW a \in Held, NEW b \in Held, a # b
      PROVE  BlockEnd(a) <= stack_addrs[b] \/ BlockEnd(b) <= stack_addrs[a]
  <2>1. PICK i \in 1 .. Len(m_slots) : m_slots[i].start = stack_addrs[a] /\ m_slots[i].end = BlockEnd(a)
    BY HeldIsSlot
  <2>2. PICK j \in 1 .. Len(m_slots) : m_slots[j].start = stack_addrs[b] /\ m_slots[j].end = BlockEnd(b)
    BY HeldIsSlot
  <2>3. i # j
    BY <1>1, <2>1, <2>2 DEF IInv
  <2>4. i < j \/ j < i
    BY <2>3, <1>0, SlotFacts
  <2> QED BY <2>1, <2>2, <2>4, <1>0 DEF Ordered
<1>2. ASSUME NEW a \in Held PROVE BlockEnd(a) <= size
  <2>1. PICK i \in 1 .. Len(m_slots) : m_slots[i].end = BlockEnd(a)
    BY HeldIsSlot
  <2>2. /\ Len(m_slots) \in Nat
        /\ \A k \in 1 .. Len(m_slots) : m_slots[k].start \in Nat /\ m_slots[k].end \in Nat
    BY <1>0, SlotFacts
  <2>3. Len(m_slots) \in 1 .. Len(m_slots) /\ m_slots # <<>>
    BY <2>2
  <2>4. size = m_slots[Len(m_slots)].end
    BY <2>3 DEF size
  <2>5. CASE i < Len(m_slots)
    <3>1. /\ m_slots[i].end <= m_slots[Len(m_slots)].start
          /\ m_slots[Len(m_slots)].start < m_slots[Len(m_slots)].end
      BY <2>3, <2>5, <1>0 DEF Ordered
    <3> QED BY <3>1, <2>1, <2>2, <2>3, <2>4
  <2>6. CASE i = Len(m_slots)
    BY <2>1, <2>2, <2>4, <2>6
  <2> QED BY <2>2, <2>5, <2>6
<1> QED BY <1>1, <1>2 DEF BlocksDisjoint

(* No two blocks of a frame overlap, and a callee's frame starts above all *)
(* of them, whatever the sizes and the order of allocations and frees.     *)
THEOREM BlocksNeverOverlap ==
  ASSUME NoEmptyBlocks PROVE Spec => []BlocksDisjoint
<1>1. IInv => BlocksDisjoint
  BY IInvBlocksDisjoint
<1> QED BY <1>1, SlotsMatchBlocks, PTL

(* The assert(false) of StackManager::free is never reached.               *)
THEOREM AssertNeverFails ==
  ASSUME NoEmptyBlocks PROVE Spec => []FreeFindsSlot
<1>1. IInv => FreeFindsSlot
  BY DEF IInv, FreeFindsSlot
<1> QED BY <1>1, SlotsMatchBlocks, PTL

(* The top of the frame is always the end of a held block.                 *)
THEOREM FrameAlwaysShrinks ==
  ASSUME NoEmptyBlocks PROVE Spec => []FrameShrinks
<1>1. IInv => FrameShrinks
  <2> SUFFICES ASSUME IInv, m_slots # <<>> PROVE \E id \in Held : BlockEnd(id) = size
    BY DEF FrameShrinks
  <2>1. m_slots \in Seq(slot) /\ Coalesced(m_slots)
    BY DEF IInv, TypeOK
  <2>2. Len(m_slots) \in 1 .. Len(m_slots)
    BY <2>1, EmptySeq, LenProperties
  <2>3. m_slots[Len(m_slots)].in_use
    BY <2>1, <2>2 DEF Coalesced, FollowedByUsed
  <2> QED BY <2>2, <2>3, HeldIsSlot DEF size
<1> QED BY <1>1, SlotsMatchBlocks, PTL

(* The variables keep their types: slots have addresses in Nat, and the    *)
(* generator's table has an address or none for each alloc_id.             *)
THEOREM TypesKept ==
  ASSUME NoEmptyBlocks PROVE Spec => []TypeOK
<1>1. IInv => TypeOK
  BY DEF IInv
<1> QED BY <1>1, SlotsMatchBlocks, PTL

(* A run of bytes that no held block touches lies in one free slot: a slot *)
(* in use would be a held block, and a free slot is followed by one.       *)
LEMMA GapIsInFreeSlot ==
  ASSUME IInv, NEW sz \in Nat, sz > 0, NEW a \in Nat, a + sz <= size, GapAt(a, sz)
  PROVE  \E i \in 1 .. Len(m_slots) : Fits(i, sz)
<1>0. /\ m_slots \in Seq(slot) /\ Ordered(m_slots) /\ Coalesced(m_slots) /\ Tiled(m_slots)
      /\ size = EndOf(m_slots) /\ Len(m_slots) \in Nat
      /\ \A k \in 1 .. Len(m_slots) : m_slots[k].start \in Nat /\ m_slots[k].end \in Nat
      /\ size \in Nat
  <2>1. m_slots \in Seq(slot) /\ size = EndOf(m_slots)
    BY DEF IInv, TypeOK, EndOf, size
  <2>2. /\ Len(m_slots) \in Nat
        /\ \A k \in 1 .. Len(m_slots) : m_slots[k].start \in Nat /\ m_slots[k].end \in Nat
    BY <2>1, SlotFacts
  <2>3. size \in Nat
    BY <2>1, <2>2, EmptySeq DEF size
  <2> QED BY <2>1, <2>2, <2>3 DEF IInv
(* A slot in use does not hold a byte of the gap.                          *)
<1>1. ASSUME NEW x \in Nat, a <= x, x < a + sz,
             NEW k \in 1 .. Len(m_slots), HasByte(m_slots, k, x)
      PROVE  ~m_slots[k].in_use
  <2> SUFFICES ASSUME m_slots[k].in_use PROVE FALSE
    OBVIOUS
  <2>1. PICK id \in Held : m_slots[k].start = stack_addrs[id] /\ m_slots[k].end = BlockEnd(id)
    BY HeldIsSlot
  <2>2. a + sz <= m_slots[k].start \/ m_slots[k].end <= a
    BY <2>1 DEF GapAt
  <2> QED BY <2>2, <1>0, <1>1 DEF HasByte
<1>2. PICK i \in 1 .. Len(m_slots) : HasByte(m_slots, i, a)
  <2>1. a < EndOf(m_slots)
    BY <1>0
  <2> QED BY <2>1, <1>0 DEF Tiled
<1>3. ~m_slots[i].in_use
  BY <1>1, <1>2
<1>4. a + sz <= m_slots[i].end
  <2> SUFFICES ASSUME m_slots[i].end < a + sz PROVE FALSE
    BY <1>0
  <2>1. i + 1 \in 1 .. Len(m_slots) /\ m_slots[i + 1].in_use
    BY <1>0, <1>3 DEF Coalesced, FollowedByUsed
  <2>2. PICK j \in 1 .. Len(m_slots) : HasByte(m_slots, j, m_slots[i].end)
    <3>1. m_slots[i].end < EndOf(m_slots) /\ m_slots[i].end \in Nat
      BY <1>0
    <3> QED BY <3>1, <1>0 DEF Tiled
  <2>3. j # i + 1
    <3>1. a <= m_slots[i].end
      BY <1>0, <1>2 DEF HasByte
    <3> QED BY <3>1, <2>1, <2>2, <1>0, <1>1
  <2>4. m_slots[j].start <= m_slots[i].end /\ m_slots[i].end < m_slots[j].end
    BY <2>2 DEF HasByte
  <2>5. CASE j < i + 1
    <3>1. j = i \/ m_slots[j].end <= m_slots[i].start
      BY <2>5, <1>0 DEF Ordered
    <3>2. m_slots[i].start < m_slots[i].end
      BY <1>0 DEF Ordered
    <3> QED BY <3>1, <3>2, <2>4, <1>0
  <2>6. CASE i + 1 < j
    <3>1. m_slots[i].end <= m_slots[i + 1].start /\ m_slots[i + 1].start < m_slots[i + 1].end
      BY <2>1, <1>0 DEF Ordered
    <3>2. m_slots[i + 1].end <= m_slots[j].start
      BY <2>1, <2>6, <1>0 DEF Ordered
    <3> QED BY <3>1, <3>2, <2>1, <2>4, <1>0
  <2> QED BY <2>3, <2>5, <2>6, <1>0
<1> QED BY <1>0, <1>2, <1>3, <1>4 DEF Fits, HasByte

(* First fit with coalescing wastes nothing: the frame grows only when no  *)
(* run of unheld bytes below its top could take the block.                 *)
THEOREM FreeSpaceIsFound ==
  ASSUME NoEmptyBlocks PROVE Spec => GrowsOnlyWhenFull
<1> DEFINE Grows ==
      \A id \in AllocIds :
        stack_addrs[id] = NoAddr /\ stack_addrs'[id] = size
          => \A a \in 0 .. size - SizeOf[id] : ~GapAt(a, SizeOf[id])
<1>1. IInv /\ [Next]_vars => Grows
  <2> SUFFICES ASSUME IInv, [Next]_vars, NEW id \in AllocIds,
                      stack_addrs[id] = NoAddr, stack_addrs'[id] = size,
                      NEW a \in 0 .. size - SizeOf[id], GapAt(a, SizeOf[id])
               PROVE  FALSE
    BY Zenon
  <2>0. /\ stack_addrs \in [AllocIds -> Addr]
        /\ m_slots \in Seq(slot) /\ Ordered(m_slots)
        /\ SizeOf[id] \in Nat /\ SizeOf[id] > 0
        /\ Len(m_slots) \in Nat
        /\ \A k \in 1 .. Len(m_slots) : m_slots[k].start \in Nat /\ m_slots[k].end \in Nat
    BY SlotFacts, SizesAssumption DEF IInv, TypeOK, NoEmptyBlocks
  <2>1. size \in Nat
    BY <2>0, EmptySeq DEF size
  <2>2. StackAllocate(id)
    <3>1. stack_addrs'[id] # stack_addrs[id]
      BY <2>1, NoAddrAssumption
    <3>2. PICK other \in AllocIds : StackAllocate(other) \/ StackFree(other)
      BY <3>1 DEF Next, vars
    <3>3. other = id
      BY <3>1, <3>2, <2>0 DEF StackAllocate, StackFree
    <3> QED BY <3>2, <3>3 DEF StackFree
  <2>3. PICK i \in 1 .. Len(m_slots) : Fits(i, SizeOf[id])
    <3>1. a \in Nat /\ a + SizeOf[id] <= size
      BY <2>0, <2>1
    <3> QED BY <3>1, <2>0, GapIsInFreeSlot
  <2>4. PICK k \in 1 .. Len(m_slots) : stack_addrs' = [stack_addrs EXCEPT ![id] = m_slots[k].start]
    BY <2>2, <2>3 DEF StackAllocate
  <2>5. stack_addrs'[id] = m_slots[k].start
    BY <2>4, <2>0
  <2>6. m_slots[k].start < size
    <3>1. m_slots[k].start < m_slots[k].end /\ m_slots[Len(m_slots)].start < m_slots[Len(m_slots)].end
      BY <2>0 DEF Ordered
    <3>2. k = Len(m_slots) \/ m_slots[k].end <= m_slots[Len(m_slots)].start
      BY <2>0 DEF Ordered
    <3>3. size = m_slots[Len(m_slots)].end
      BY <2>0, EmptySeq DEF size
    <3> QED BY <3>1, <3>2, <3>3, <2>0
  <2> QED BY <2>1, <2>5, <2>6
<1> QED BY <1>1, SlotsMatchBlocks, PTL DEF Spec, GrowsOnlyWhenFull

(* StackManager implements FrameBlocks.                                    *)
THEOREM ImplementsFrameBlocks ==
  ASSUME NoEmptyBlocks PROVE Spec => BlocksSpec
<1>1. Init => Blocks!Init
  BY DEF Init, Blocks!Init
<1>2. ASSUME IInv, BlocksDisjoint', TypeOK', [Next]_vars
      PROVE  [Blocks!Next]_stack_addrs
  <2>0. stack_addrs \in [AllocIds -> Addr] /\ stack_addrs' \in [AllocIds -> Addr]
    BY <1>2 DEF IInv, TypeOK
  <2>1. ASSUME NEW id \in AllocIds, StackAllocate(id)
        PROVE  Blocks!Reserve(id)
    <3>1. PICK a : /\ stack_addrs[id] = NoAddr
                   /\ stack_addrs' = [stack_addrs EXCEPT ![id] = a]
                   /\ a \in Nat
      <4>1. IInv /\ m_slots \in Seq(slot)
        BY <1>2 DEF IInv, TypeOK
      <4>2. size \in Nat
        BY <4>1, SlotFacts, EmptySeq DEF size
      <4> QED BY <2>1, <4>1, <4>2, SlotFacts DEF StackAllocate
    <3>2. stack_addrs'[id] = a /\ a # NoAddr
      BY <3>1, <2>0, NoAddrAssumption
    <3>3. ASSUME NEW other \in AllocIds, stack_addrs[other] # NoAddr
          PROVE  Blocks!Bytes(stack_addrs', id) \cap Blocks!Bytes(stack_addrs, other) = {}
      <4>1. other # id /\ stack_addrs'[other] = stack_addrs[other]
        BY <3>1, <3>3, <2>0
      <4>2. id \in Held' /\ other \in Held'
        BY <3>2, <3>3, <4>1 DEF Held
      <4>3. /\ stack_addrs'[id] \in Nat /\ stack_addrs[other] \in Nat
            /\ SizeOf[id] \in Nat \ {0} /\ SizeOf[other] \in Nat \ {0}
        BY <3>1, <3>2, <3>3, <2>0, SizesAssumption DEF Addr, NoEmptyBlocks
      <4>4. \/ stack_addrs'[id] + SizeOf[id] <= stack_addrs[other]
            \/ stack_addrs[other] + SizeOf[other] <= stack_addrs'[id]
        BY <1>2, <4>1, <4>2, <4>3 DEF BlocksDisjoint, BlockEnd
      <4> QED BY <4>3, <4>4 DEF Blocks!Bytes
    <3> QED BY <3>1, <3>2, <3>3 DEF Blocks!Reserve, Blocks!Held
  <2>2. ASSUME NEW id \in AllocIds, StackFree(id)
        PROVE  Blocks!Release(id)
    BY <2>2 DEF StackFree, Blocks!Release
  <2> QED BY <1>2, <2>1, <2>2 DEF Next, vars, Blocks!Next
<1>3. IInv => BlocksDisjoint /\ TypeOK
  BY IInvBlocksDisjoint DEF IInv
<1> QED BY <1>1, <1>2, <1>3, SlotsMatchBlocks, PTL DEF Spec, BlocksSpec, Blocks!Spec
=============================================================================
