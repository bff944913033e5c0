------------------------- MODULE EditTimelineProofs -------------------------
(***************************************************************************)
(* Theorems about the contents EditHistory goes through, for a window      *)
(* whose fields are dropdowns and switches: the history explains the       *)
(* content, and EditHistory implements UndoTimeline.                       *)
(***************************************************************************)
EXTENDS EditHistoryProofs, FiniteSetTheorems

(***************************************************************************)
(* What entries make of a content, slot by slot.                           *)
(***************************************************************************)

\* The entry of s that decides a slot when s is applied, or taken back.
LastOn(s, slot, i) ==
  /\ i \in 1 .. Len(s) /\ s[i].slot = slot
  /\ \A j \in 1 .. Len(s) : j > i => s[j].slot # slot

FirstOn(s, slot, i) ==
  /\ i \in 1 .. Len(s) /\ s[i].slot = slot
  /\ \A j \in 1 .. Len(s) : j < i => s[j].slot # slot

Untouched(s, slot) == \A i \in 1 .. Len(s) : s[i].slot # slot

LEMMA TouchingIs ==
  ASSUME NEW s \in Seq(EntryType), NEW slot \in Slots
  PROVE  /\ Len(s) \in Nat
         /\ Touching(s, slot) = {i \in 1 .. Len(s) : s[i].slot = slot}
         /\ Touching(s, slot) \in SUBSET (0 .. Len(s))
BY LenProperties DEF Touching

LEMMA ReapplyAt ==
  ASSUME NEW d, NEW s \in Seq(EntryType), NEW slot \in Slots
  PROVE  /\ Untouched(s, slot) => Reapply(d, s)[slot] = d[slot]
         /\ \A i : LastOn(s, slot, i) => Reapply(d, s)[slot] = s[i].after
         /\ Untouched(s, slot) \/ \E i : LastOn(s, slot, i)
<1> DEFINE T == Touching(s, slot)
<1>1. Reapply(d, s)[slot] = IF T = {} THEN d[slot] ELSE s[Max(T)].after
  BY DEF Reapply
<1>2. /\ Len(s) \in Nat /\ T = {i \in 1 .. Len(s) : s[i].slot = slot}
      /\ T \in SUBSET (0 .. Len(s))
  BY TouchingIs
<1>3. T = {} <=> Untouched(s, slot)
  BY <1>2 DEF Untouched
<1>4. T # {} => Max(T) \in T /\ \A x \in T : x <= Max(T)
  <2> HIDE DEF T
  <2> QED BY <1>2, MaxIsLast
<1> HIDE DEF T
<1>5. ASSUME T # {} PROVE LastOn(s, slot, Max(T))
  <2>1. Max(T) \in 1 .. Len(s) /\ s[Max(T)].slot = slot
    BY <1>2, <1>4, <1>5
  <2>2. ASSUME NEW j \in 1 .. Len(s), j > Max(T), s[j].slot = slot PROVE FALSE
    <3>1. j \in T
      BY <1>2, <2>2
    <3>2. j <= Max(T)
      BY <1>4, <1>5, <3>1
    <3> QED BY <1>2, <2>1, <2>2, <3>2
  <2> QED BY <2>1, <2>2 DEF LastOn
<1>6. \A i : LastOn(s, slot, i) => T # {} /\ i = Max(T)
  <2> SUFFICES ASSUME NEW i, LastOn(s, slot, i) PROVE T # {} /\ i = Max(T)
    OBVIOUS
  <2>1. i \in T
    BY <1>2 DEF LastOn
  <2>2. Max(T) \in T /\ i <= Max(T)
    BY <1>4, <2>1
  <2>3. ~(Max(T) > i)
    BY <1>2, <2>2 DEF LastOn
  <2> QED BY <1>2, <2>1, <2>2, <2>3
<1> QED BY <1>1, <1>3, <1>5, <1>6

LEMMA RevertAt ==
  ASSUME NEW d, NEW s \in Seq(EntryType), NEW slot \in Slots
  PROVE  /\ Untouched(s, slot) => Revert(d, s)[slot] = d[slot]
         /\ \A i : FirstOn(s, slot, i) => Revert(d, s)[slot] = s[i].before
         /\ Untouched(s, slot) \/ \E i : FirstOn(s, slot, i)
<1> DEFINE T == Touching(s, slot)
<1>1. Revert(d, s)[slot] = IF T = {} THEN d[slot] ELSE s[Min(T)].before
  BY DEF Revert
<1>2. /\ Len(s) \in Nat /\ T = {i \in 1 .. Len(s) : s[i].slot = slot}
      /\ T \in SUBSET (0 .. Len(s))
  BY TouchingIs
<1>3. T = {} <=> Untouched(s, slot)
  BY <1>2 DEF Untouched
<1>4. T # {} => Min(T) \in T /\ \A x \in T : Min(T) <= x
  <2> HIDE DEF T
  <2> QED BY <1>2, MinIsFirst
<1> HIDE DEF T
<1>5. ASSUME T # {} PROVE FirstOn(s, slot, Min(T))
  <2>1. Min(T) \in 1 .. Len(s) /\ s[Min(T)].slot = slot
    BY <1>2, <1>4, <1>5
  <2>2. ASSUME NEW j \in 1 .. Len(s), j < Min(T), s[j].slot = slot PROVE FALSE
    <3>1. j \in T
      BY <1>2, <2>2
    <3>2. Min(T) <= j
      BY <1>4, <1>5, <3>1
    <3> QED BY <1>2, <2>1, <2>2, <3>2
  <2> QED BY <2>1, <2>2 DEF FirstOn
<1>6. \A i : FirstOn(s, slot, i) => T # {} /\ i = Min(T)
  <2> SUFFICES ASSUME NEW i, FirstOn(s, slot, i) PROVE T # {} /\ i = Min(T)
    OBVIOUS
  <2>1. i \in T
    BY <1>2 DEF FirstOn
  <2>2. Min(T) \in T /\ Min(T) <= i
    BY <1>4, <2>1
  <2>3. ~(Min(T) < i)
    BY <1>2, <2>2 DEF FirstOn
  <2> QED BY <1>2, <2>1, <2>2, <2>3
<1> QED BY <1>1, <1>3, <1>5, <1>6

\* Two contents are equal if they agree on every slot.
LEMMA SameContent ==
  ASSUME NEW c \in Content, NEW d \in Content, \A slot \in Slots : c[slot] = d[slot]
  PROVE  c = d
BY DEF Content

LEMMA ReapplyNothing ==
  ASSUME NEW d \in Content
  PROVE  Reapply(d, <<>>) = d
<1>1. <<>> \in Seq(EntryType) /\ Len(<<>>) = 0
  BY EmptySeq
<1>2. \A slot \in Slots : Reapply(d, <<>>)[slot] = d[slot]
  <2> TAKE slot \in Slots
  <2>1. Untouched(<<>>, slot)
    BY <1>1 DEF Untouched
  <2> QED BY <1>1, <2>1, ReapplyAt
<1>3. Reapply(d, <<>>) \in Content
  BY <1>1, ReapplyTyped
<1> QED BY <1>2, <1>3, SameContent

\* s splits at n: the entries up to n, and those behind.
LEMMA SplitAt ==
  ASSUME NEW s \in Seq(EntryType), NEW n \in 0 .. Len(s), NEW m \in n .. Len(s)
  PROVE  /\ SubSeq(s, 1, n) \in Seq(EntryType) /\ Len(SubSeq(s, 1, n)) = n
         /\ \A i \in 1 .. n : SubSeq(s, 1, n)[i] = s[i]
         /\ SubSeq(s, n + 1, m) \in Seq(EntryType) /\ Len(SubSeq(s, n + 1, m)) = m - n
         /\ \A i \in 1 .. m - n : SubSeq(s, n + 1, m)[i] = s[n + i]
<1>1. /\ Len(s) \in Nat /\ n \in Nat /\ m \in Nat /\ n <= m /\ m <= Len(s)
      /\ \A i \in 1 .. Len(s) : s[i] \in EntryType
  BY LenProperties, ElementOfSeq
<1>2. \A i \in 1 .. n : s[i] \in EntryType
  BY <1>1
<1>3. \A i \in n + 1 .. m : s[i] \in EntryType
  BY <1>1
<1>4. /\ SubSeq(s, 1, n) \in Seq(EntryType) /\ Len(SubSeq(s, 1, n)) = n
      /\ \A i \in 1 .. n : SubSeq(s, 1, n)[i] = s[i]
  BY <1>1, <1>2, SubSeqProperties
<1>5. SubSeq(s, n + 1, m) \in Seq(EntryType) /\ Len(SubSeq(s, n + 1, m)) = m - n
  BY <1>1, <1>3, SubSeqProperties
<1>6. \A i \in 1 .. m - n : SubSeq(s, n + 1, m)[i] = s[n + i]
  <2> TAKE i \in 1 .. m - n
  <2>1. SubSeq(s, n + 1, m)[i] = s[(n + 1) + i - 1]
    BY <1>1, <1>3, <1>5, SubSeqProperties
  <2>2. (n + 1) + i - 1 = n + i
    BY <1>1
  <2> QED BY <2>1, <2>2
<1> QED BY <1>4, <1>5, <1>6

\* The content at a position of the history.
Point(d, s, n) == Reapply(d, SubSeq(s, 1, n))

\* Entry i decides a slot at position n.
LastBefore(s, n, slot, i) ==
  /\ i \in 1 .. n /\ s[i].slot = slot
  /\ \A j \in 1 .. n : j > i => s[j].slot # slot

LEMMA PointAt ==
  ASSUME NEW d, NEW s \in Seq(EntryType), NEW n \in 0 .. Len(s), NEW slot \in Slots
  PROVE  /\ (\A i \in 1 .. n : s[i].slot # slot) => Point(d, s, n)[slot] = d[slot]
         /\ (\A i \in 1 .. n : s[i].slot # slot) \/ \E i : LastBefore(s, n, slot, i)
<1> DEFINE t == SubSeq(s, 1, n)
<1>1. t \in Seq(EntryType) /\ Len(t) = n /\ \A i \in 1 .. n : t[i] = s[i]
  <2>1. n \in n .. Len(s)
    BY LenProperties
  <2> QED BY <2>1, SplitAt
<1> HIDE DEF t
<1>2. (\A i \in 1 .. n : s[i].slot # slot) <=> Untouched(t, slot)
  BY <1>1 DEF Untouched
<1>3. \A i : LastBefore(s, n, slot, i) <=> LastOn(t, slot, i)
  BY <1>1 DEF LastBefore, LastOn
<1>4. /\ Untouched(t, slot) => Reapply(d, t)[slot] = d[slot]
      /\ Untouched(t, slot) \/ \E i : LastOn(t, slot, i)
  BY <1>1, ReapplyAt
<1>5. Point(d, s, n) = Reapply(d, t)
  BY DEF Point, t
<1> QED BY <1>2, <1>3, <1>4, <1>5

LEMMA PointLast ==
  ASSUME NEW d, NEW s \in Seq(EntryType), NEW n \in 0 .. Len(s), NEW slot \in Slots,
         NEW i \in 1 .. n, LastBefore(s, n, slot, i)
  PROVE  Point(d, s, n)[slot] = s[i].after
<1> DEFINE t == SubSeq(s, 1, n)
<1>1. t \in Seq(EntryType) /\ Len(t) = n /\ \A j \in 1 .. n : t[j] = s[j]
  <2>1. n \in n .. Len(s)
    BY LenProperties
  <2> QED BY <2>1, SplitAt
<1> HIDE DEF t
<1>2. LastOn(t, slot, i)
  BY <1>1 DEF LastBefore, LastOn
<1>3. Reapply(d, t)[slot] = t[i].after
  BY <1>1, <1>2, ReapplyAt
<1> QED BY <1>1, <1>3 DEF Point, t

\* Entries that don't touch a slot leave it alone.
LEMMA PointPast ==
  ASSUME NEW d, NEW s \in Seq(EntryType), NEW n \in 0 .. Len(s), NEW m \in n .. Len(s),
         NEW slot \in Slots, \A i \in n + 1 .. m : s[i].slot # slot
  PROVE  Point(d, s, m)[slot] = Point(d, s, n)[slot]
<1>0. n \in Nat /\ m \in Nat /\ n <= m /\ m \in 0 .. Len(s) /\ Len(s) \in Nat
  BY LenProperties
<1>1. CASE \A i \in 1 .. n : s[i].slot # slot
  <2>1. \A i \in 1 .. m : s[i].slot # slot
    <3> TAKE i \in 1 .. m
    <3>1. i \in 1 .. n \/ i \in n + 1 .. m
      BY <1>0
    <3> QED BY <1>1, <3>1
  <2>2. Point(d, s, n)[slot] = d[slot]
    BY <1>1, PointAt
  <2>3. Point(d, s, m)[slot] = d[slot]
    BY <1>0, <2>1, PointAt
  <2> QED BY <2>2, <2>3
<1>2. CASE \E i : LastBefore(s, n, slot, i)
  <2>1. PICK i : LastBefore(s, n, slot, i)
    BY <1>2
  <2>2. LastBefore(s, m, slot, i)
    <3>1. i \in 1 .. m /\ s[i].slot = slot
      BY <1>0, <2>1 DEF LastBefore
    <3>2. ASSUME NEW j \in 1 .. m, j > i PROVE s[j].slot # slot
      <4>1. j \in 1 .. n \/ j \in n + 1 .. m
        BY <1>0
      <4> QED BY <2>1, <3>2, <4>1 DEF LastBefore
    <3> QED BY <3>1, <3>2 DEF LastBefore
  <2>3. Point(d, s, n)[slot] = s[i].after
    BY <2>1, PointLast DEF LastBefore
  <2>4. Point(d, s, m)[slot] = s[i].after
    BY <1>0, <2>2, PointLast DEF LastBefore
  <2> QED BY <2>3, <2>4
<1> QED BY <1>1, <1>2, PointAt

LEMMA PointTyped ==
  ASSUME NEW d \in Content, NEW s \in Seq(EntryType), NEW n \in 0 .. Len(s)
  PROVE  Point(d, s, n) \in Content
<1>1. n \in n .. Len(s)
  BY LenProperties
<1> QED BY <1>1, SplitAt, ReapplyTyped DEF Point

\* Redo: the entries from n to m lead from one position to the other.
LEMMA ReapplyFrom ==
  ASSUME NEW d \in Content, NEW s \in Seq(EntryType), NEW n \in 0 .. Len(s),
         NEW m \in n .. Len(s)
  PROVE  Reapply(Point(d, s, n), SubSeq(s, n + 1, m)) = Point(d, s, m)
<1> DEFINE t == SubSeq(s, n + 1, m)
           p == Point(d, s, n)
<1>0. n \in Nat /\ m \in Nat /\ n <= m /\ m \in 0 .. Len(s) /\ Len(s) \in Nat
  BY LenProperties
<1>1. t \in Seq(EntryType) /\ Len(t) = m - n /\ \A i \in 1 .. m - n : t[i] = s[n + i]
  BY SplitAt
<1> HIDE DEF t
<1>2. p \in Content /\ Point(d, s, m) \in Content /\ Reapply(p, t) \in Content
  BY <1>0, <1>1, PointTyped, ReapplyTyped
<1>3. ASSUME NEW slot \in Slots PROVE Reapply(p, t)[slot] = Point(d, s, m)[slot]
  <2>1. CASE Untouched(t, slot)
    <3>1. ASSUME NEW i \in n + 1 .. m PROVE s[i].slot # slot
      <4>1. i - n \in 1 .. m - n /\ n + (i - n) = i
        BY <1>0
      <4> QED BY <1>1, <2>1, <4>1 DEF Untouched
    <3>2. Point(d, s, m)[slot] = Point(d, s, n)[slot]
      BY <3>1, PointPast
    <3>3. Reapply(p, t)[slot] = p[slot]
      BY <1>1, <2>1, ReapplyAt
    <3> QED BY <3>2, <3>3
  <2>2. CASE \E k : LastOn(t, slot, k)
    <3>1. PICK k : LastOn(t, slot, k)
      BY <2>2
    <3>2. k \in 1 .. m - n /\ n + k \in 1 .. m /\ t[k] = s[n + k] /\ s[n + k].slot = slot
      BY <1>0, <1>1, <3>1 DEF LastOn
    <3>3. ASSUME NEW j \in 1 .. m, j > n + k PROVE s[j].slot # slot
      <4>1. j - n \in 1 .. m - n /\ n + (j - n) = j /\ j - n > k
        BY <1>0, <3>2, <3>3
      <4> QED BY <1>1, <3>1, <4>1 DEF LastOn
    <3>4. LastBefore(s, m, slot, n + k)
      BY <3>2, <3>3 DEF LastBefore
    <3>5. Point(d, s, m)[slot] = s[n + k].after
      BY <1>0, <3>2, <3>4, PointLast
    <3>6. Reapply(p, t)[slot] = t[k].after
      BY <1>1, <3>1, ReapplyAt
    <3> QED BY <3>2, <3>5, <3>6
  <2> QED BY <1>1, <2>1, <2>2, ReapplyAt
<1> QED BY <1>2, <1>3, SameContent DEF t

(***************************************************************************)
(* Every entry remembers the value it replaced.                            *)
(***************************************************************************)
Chained(d, s) ==
  \A i \in 1 .. Len(s) : s[i].before = Point(d, s, i - 1)[s[i].slot]

\* Undo: taking the entries from m down to n back leads to the content there.
LEMMA RevertTo ==
  ASSUME NEW d \in Content, NEW s \in Seq(EntryType), Chained(d, s),
         NEW n \in 0 .. Len(s), NEW m \in n .. Len(s)
  PROVE  Revert(Point(d, s, m), SubSeq(s, n + 1, m)) = Point(d, s, n)
<1> DEFINE t == SubSeq(s, n + 1, m)
           p == Point(d, s, m)
<1>0. n \in Nat /\ m \in Nat /\ n <= m /\ m \in 0 .. Len(s) /\ Len(s) \in Nat
  BY LenProperties
<1>1. t \in Seq(EntryType) /\ Len(t) = m - n /\ \A i \in 1 .. m - n : t[i] = s[n + i]
  BY SplitAt
<1> HIDE DEF t
<1>2. p \in Content /\ Point(d, s, n) \in Content /\ Revert(p, t) \in Content
  BY <1>0, <1>1, PointTyped, ReapplyTyped
<1>3. ASSUME NEW slot \in Slots PROVE Revert(p, t)[slot] = Point(d, s, n)[slot]
  <2>1. CASE Untouched(t, slot)
    <3>1. ASSUME NEW i \in n + 1 .. m PROVE s[i].slot # slot
      <4>1. i - n \in 1 .. m - n /\ n + (i - n) = i
        BY <1>0
      <4> QED BY <1>1, <2>1, <4>1 DEF Untouched
    <3>2. Point(d, s, m)[slot] = Point(d, s, n)[slot]
      BY <3>1, PointPast
    <3>3. Revert(p, t)[slot] = p[slot]
      BY <1>1, <2>1, RevertAt
    <3> QED BY <3>2, <3>3
  <2>2. CASE \E k : FirstOn(t, slot, k)
    <3>1. PICK k : FirstOn(t, slot, k)
      BY <2>2
    <3>2. /\ k \in 1 .. m - n /\ n + k \in 1 .. Len(s) /\ t[k] = s[n + k]
          /\ s[n + k].slot = slot
      BY <1>0, <1>1, <3>1 DEF FirstOn
    <3>3. Revert(p, t)[slot] = Point(d, s, n + k - 1)[slot]
      <4>1. Revert(p, t)[slot] = t[k].before
        BY <1>1, <3>1, RevertAt
      <4>2. s[n + k].before = Point(d, s, n + k - 1)[s[n + k].slot]
        BY <3>2 DEF Chained
      <4> QED BY <3>2, <4>1, <4>2
    <3>4. ASSUME NEW i \in n + 1 .. n + k - 1 PROVE s[i].slot # slot
      <4>1. i - n \in 1 .. m - n /\ n + (i - n) = i /\ i - n < k
        BY <1>0, <3>2
      <4> QED BY <1>1, <3>1, <4>1 DEF FirstOn
    <3>5. n + k - 1 \in n .. Len(s)
      BY <1>0, <3>2
    <3> QED BY <3>3, <3>4, <3>5, PointPast
  <2> QED BY <1>1, <2>1, <2>2, RevertAt
<1> QED BY <1>2, <1>3, SameContent DEF t

(***************************************************************************)
(* Two histories that agree on their first n entries.                      *)
(***************************************************************************)
SamePast(s, t, n) ==
  /\ n <= Len(s) /\ n <= Len(t)
  /\ SubSeq(s, 1, n) = SubSeq(t, 1, n)

LEMMA SamePastEntries ==
  ASSUME NEW s \in Seq(EntryType), NEW t \in Seq(EntryType), NEW n \in Nat, SamePast(s, t, n)
  PROVE  /\ \A i \in 1 .. n : s[i] = t[i]
         /\ \A k \in 0 .. n : SamePast(s, t, k)
         /\ \A k \in 0 .. n : SubSeq(s, 1, k) = SubSeq(t, 1, k)
<1>1. /\ n \in 0 .. Len(s) /\ n \in 0 .. Len(t) /\ n \in n .. Len(s) /\ n \in n .. Len(t)
      /\ Len(s) \in Nat /\ Len(t) \in Nat
  BY LenProperties DEF SamePast
<1>2. \A i \in 1 .. n : SubSeq(s, 1, n)[i] = s[i]
  BY <1>1, SplitAt
<1>3. \A i \in 1 .. n : SubSeq(t, 1, n)[i] = t[i]
  BY <1>1, SplitAt
<1>4. \A i \in 1 .. n : s[i] = t[i]
  BY <1>2, <1>3 DEF SamePast
<1>5. ASSUME NEW k \in 0 .. n PROVE SubSeq(s, 1, k) = SubSeq(t, 1, k)
  <2>1. k \in Nat /\ k <= Len(s) /\ k <= Len(t) /\ \A i \in 1 .. k : s[i] = t[i]
    BY <1>1, <1>4
  <2> QED BY <2>1, SamePrefix
<1>6. \A k \in 0 .. n : k <= Len(s) /\ k <= Len(t)
  BY <1>1
<1> QED BY <1>4, <1>5, <1>6 DEF SamePast

LEMMA SamePastPoint ==
  ASSUME NEW s \in Seq(EntryType), NEW t \in Seq(EntryType), NEW n \in Nat,
         SamePast(s, t, n), NEW d, NEW k \in 0 .. n
  PROVE  Point(d, s, k) = Point(d, t, k)
BY SamePastEntries DEF Point

LEMMA SamePastAgain ==
  ASSUME NEW s, NEW t, NEW u, NEW n \in Nat, SamePast(s, t, n), SamePast(t, u, n)
  PROVE  SamePast(s, u, n)
BY DEF SamePast

\* The entries dropped behind position n, and the one appended there.
LEMMA SamePastDropped ==
  ASSUME NEW s \in Seq(EntryType), NEW n \in 0 .. Len(s)
  PROVE  SamePast(s, SubSeq(s, 1, n), n)
<1>1. Len(SubSeq(s, 1, n)) = n /\ n \in n .. Len(s) /\ n \in 0 .. n /\ Len(s) \in Nat
  BY SplitAt, LenProperties
<1>2. SubSeq(SubSeq(s, 1, n), 1, n) = SubSeq(s, 1, n)
  BY <1>1, PrefixOfPrefix
<1> QED BY <1>1, <1>2 DEF SamePast

LEMMA PushKeeps ==
  ASSUME NEW l \in HistoryType, NEW entry \in EntryType
  PROVE  SamePast(l.entries, PushHistory(l, entry).entries, l.position)
<1> DEFINE rewrites == l.position < Len(l.entries)
           kept == IF rewrites THEN DropHistory(l, l.position) ELSE l
<1>0. /\ l \in [entries : Seq(EntryType), position : Nat,
                saved : Nat \cup {-1}, matches : BOOLEAN]
      /\ l.position <= Len(l.entries) /\ Len(l.entries) \in Nat
      /\ l.position \in 0 .. Len(l.entries)
  BY LenProperties DEF HistoryType
<1>1. /\ kept.entries \in Seq(EntryType) /\ Len(kept.entries) = l.position
      /\ SubSeq(kept.entries, 1, l.position) = SubSeq(l.entries, 1, l.position)
  <2>1. CASE rewrites
    <3>1. kept.entries = SubSeq(l.entries, 1, l.position)
      BY <1>0, <2>1, DropTyped
    <3>2. l.position \in 0 .. l.position
      BY <1>0
    <3>3. SubSeq(SubSeq(l.entries, 1, l.position), 1, l.position)
            = SubSeq(l.entries, 1, l.position)
      BY <1>0, <3>2, PrefixOfPrefix
    <3>4. kept.entries \in Seq(EntryType) /\ Len(kept.entries) = l.position
      BY <1>0, <2>1, DropTyped
    <3> HIDE DEF kept
    <3> QED BY <3>1, <3>3, <3>4
  <2>2. CASE ~rewrites
    BY <1>0, <2>2
  <2> QED BY <2>1, <2>2
<1>2. PushHistory(l, entry).entries = Append(kept.entries, entry)
  BY DEF PushHistory
<1> HIDE DEF kept
<1>3. Len(Append(kept.entries, entry)) = l.position + 1
  BY <1>1, AppendProperties
<1>4. SubSeq(Append(kept.entries, entry), 1, l.position)
        = SubSeq(kept.entries, 1, l.position)
  <2>1. l.position \in 0 .. Len(kept.entries)
    BY <1>0, <1>1
  <2> QED BY <1>1, <2>1, PrefixOfAppend
<1> QED BY <1>0, <1>1, <1>2, <1>3, <1>4 DEF SamePast

\* One more entry.
Applied(d, e) == [d EXCEPT ![e.slot] = e.after]

LEMMA PointNext ==
  ASSUME NEW d \in Content, NEW s \in Seq(EntryType), NEW n \in 1 .. Len(s)
  PROVE  Point(d, s, n) = Applied(Point(d, s, n - 1), s[n])
<1> DEFINE p == Point(d, s, n - 1)
           q == [p EXCEPT ![s[n].slot] = s[n].after]
<1>0. /\ n \in Nat /\ n - 1 \in 0 .. Len(s) /\ n \in 0 .. Len(s) /\ n \in n - 1 .. Len(s)
      /\ (n - 1) + 1 = n /\ Len(s) \in Nat /\ s[n] \in EntryType
  BY LenProperties, ElementOfSeq
<1>1. p \in Content /\ Point(d, s, n) \in Content
  BY <1>0, PointTyped
<1>2. s[n].slot \in Slots /\ s[n].after \in Values
  BY <1>0 DEF EntryType
<1>3. q \in Content
  BY <1>1, <1>2 DEF Content
<1>4. ASSUME NEW slot \in Slots PROVE Point(d, s, n)[slot] = q[slot]
  <2>1. CASE slot = s[n].slot
    <3>1. LastBefore(s, n, slot, n)
      BY <1>0, <2>1 DEF LastBefore
    <3>2. n \in 1 .. n
      BY <1>0
    <3>3. Point(d, s, n)[slot] = s[n].after
      BY <1>0, <3>1, <3>2, PointLast
    <3> QED BY <1>1, <1>2, <2>1, <3>3 DEF Content
  <2>2. CASE slot # s[n].slot
    <3>1. \A i \in (n - 1) + 1 .. n : s[i].slot # slot
      BY <1>0, <2>2
    <3>2. Point(d, s, n)[slot] = p[slot]
      BY <1>0, <3>1, PointPast
    <3> QED BY <1>1, <2>2, <3>2 DEF Content
  <2> QED BY <2>1, <2>2
<1> HIDE DEF q
<1>5. Point(d, s, n) = q
  BY <1>1, <1>3, <1>4, SameContent
<1> QED BY <1>5 DEF q, Applied

\* A history that is a past of a chained one, or that with one entry more.
LEMMA ChainedPast ==
  ASSUME NEW d, NEW s \in Seq(EntryType), NEW t \in Seq(EntryType), Chained(d, s),
         SamePast(s, t, Len(t))
  PROVE  Chained(d, t)
<1>0. Len(t) \in Nat /\ Len(s) \in Nat /\ Len(t) <= Len(s)
  BY LenProperties DEF SamePast
<1> SUFFICES ASSUME NEW i \in 1 .. Len(t)
             PROVE  t[i].before = Point(d, t, i - 1)[t[i].slot]
  BY DEF Chained
<1>1. i \in 1 .. Len(s) /\ i - 1 \in 0 .. Len(t)
  BY <1>0
<1>2. s[i] = t[i]
  BY <1>0, SamePastEntries
<1>3. Point(d, s, i - 1) = Point(d, t, i - 1)
  BY <1>0, <1>1, SamePastPoint
<1>4. s[i].before = Point(d, s, i - 1)[s[i].slot]
  BY <1>1 DEF Chained
<1> QED BY <1>2, <1>3, <1>4

LEMMA ChainedNext ==
  ASSUME NEW d, NEW s \in Seq(EntryType), NEW t \in Seq(EntryType), Chained(d, s),
         NEW n \in Nat, SamePast(s, t, n), Len(t) = n + 1,
         t[n + 1].before = Point(d, t, n)[t[n + 1].slot]
  PROVE  Chained(d, t)
<1>0. Len(s) \in Nat /\ n <= Len(s)
  BY LenProperties DEF SamePast
<1> SUFFICES ASSUME NEW i \in 1 .. n + 1
             PROVE  t[i].before = Point(d, t, i - 1)[t[i].slot]
  BY DEF Chained
<1>1. CASE i = n + 1
  <2>1. i - 1 = n
    BY <1>1
  <2> QED BY <1>1, <2>1
<1>2. CASE i # n + 1
  <2>1. i \in 1 .. n /\ i \in 1 .. Len(s) /\ i - 1 \in 0 .. n
    BY <1>0, <1>2
  <2>2. s[i] = t[i]
    BY <2>1, SamePastEntries
  <2>3. Point(d, s, i - 1) = Point(d, t, i - 1)
    BY <2>1, SamePastPoint
  <2>4. s[i].before = Point(d, s, i - 1)[s[i].slot]
    BY <2>1 DEF Chained
  <2> QED BY <2>2, <2>3, <2>4
<1> QED BY <1>1, <1>2

(***************************************************************************)
(* The invariant of a history l and the content d it led to.               *)
(***************************************************************************)
Explained(l, d) == d = Point(base, l.entries, l.position) /\ Chained(base, l.entries)

\* No entry is joined to nothing, and the position is not between joined ones.
Whole(l) ==
  /\ Len(l.entries) > 0 => ~l.entries[1].joined
  /\ l.position < Len(l.entries) => ~l.entries[l.position + 1].joined

\* new is what a change leaves of l: at most the newest entry is taken back,
\* and up to n entries follow.
Extended(l, new, n) ==
  /\ new.position = Len(new.entries)
  /\ \E kept \in Nat : /\ kept \in l.position - 1 .. l.position
                       /\ SamePast(l.entries, new.entries, kept)
                       /\ Len(new.entries) \in kept .. kept + n

LEMMA PushExplained ==
  ASSUME base \in Content, NEW l \in HistoryType, NEW d \in Content,
         NEW entry \in EntryType, Explained(l, d), Whole(l),
         entry.before = d[entry.slot], entry.joined => l.position > 0
  PROVE  LET new == PushHistory(l, entry)
         IN  /\ Explained(new, Applied(d, entry))
             /\ Whole(new)
             /\ Len(new.entries) = l.position + 1
<1> DEFINE new == PushHistory(l, entry)
           n   == l.position
<1>0. /\ n \in Nat /\ l.entries \in Seq(EntryType) /\ n \in 0 .. Len(l.entries)
      /\ Len(l.entries) \in Nat
  BY LenProperties DEF HistoryType
<1>1. /\ new \in HistoryType /\ new.position = n + 1
      /\ Len(new.entries) = n + 1 /\ new.entries[n + 1] = entry
  BY PushTyped
<1>2. new.entries \in Seq(EntryType)
  BY <1>1 DEF HistoryType
<1>3. SamePast(l.entries, new.entries, n)
  BY PushKeeps
<1> HIDE DEF new
<1>4. n \in 0 .. n
  BY <1>0
<1>5. Point(base, new.entries, n) = d
  <2>1. Point(base, l.entries, n) = Point(base, new.entries, n)
    BY <1>0, <1>2, <1>3, <1>4, SamePastPoint
  <2> QED BY <2>1 DEF Explained
<1>6. Chained(base, new.entries)
  <2>1. Chained(base, l.entries)
    BY DEF Explained
  <2> QED BY <1>0, <1>1, <1>2, <1>3, <1>5, <2>1, ChainedNext
<1>7. Point(base, new.entries, n + 1) = Applied(d, entry)
  <2> DEFINE m == n + 1
  <2>1. m \in 1 .. Len(new.entries) /\ m - 1 = n
    BY <1>0, <1>1
  <2> HIDE DEF m
  <2>2. Point(base, new.entries, m) = Applied(Point(base, new.entries, m - 1), new.entries[m])
    BY <1>2, <2>1, PointNext
  <2>3. new.entries[m] = entry
    BY <1>1 DEF m
  <2>4. Point(base, new.entries, m) = Applied(d, entry)
    BY <1>5, <2>1, <2>2, <2>3
  <2> QED BY <2>4 DEF m
<1>8. Explained(new, Applied(d, entry))
  BY <1>1, <1>6, <1>7 DEF Explained
<1>9. Whole(new)
  <2>1. CASE n = 0
    <3>1. new.entries[1] = entry /\ ~entry.joined
      BY <1>1, <2>1
    <3> QED BY <1>0, <1>1, <3>1 DEF Whole
  <2>2. CASE n > 0
    <3>1. 1 \in 1 .. n /\ Len(l.entries) > 0
      BY <1>0, <2>2
    <3>2. l.entries[1] = new.entries[1]
      BY <1>0, <1>2, <1>3, <3>1, SamePastEntries
    <3> QED BY <1>0, <1>1, <3>1, <3>2 DEF Whole
  <2> QED BY <1>0, <2>1, <2>2
<1> QED BY <1>1, <1>8, <1>9 DEF new

\* The pasts of a push: what it leaves of the history it extends.
LEMMA PushExtends ==
  ASSUME NEW l \in HistoryType, NEW new \in HistoryType, NEW entry \in EntryType,
         NEW n \in Nat, (new = l) \/ Extended(l, new, n)
  PROVE  Extended(l, PushHistory(new, entry), n + 1)
<1> DEFINE pushed == PushHistory(new, entry)
<1>0. /\ l.position \in Nat /\ new.position \in Nat /\ l.position <= Len(l.entries)
      /\ l.entries \in Seq(EntryType) /\ new.entries \in Seq(EntryType)
      /\ Len(l.entries) \in Nat /\ Len(new.entries) \in Nat
  BY LenProperties DEF HistoryType
<1>1. /\ pushed \in HistoryType /\ Len(pushed.entries) = new.position + 1
      /\ pushed.position = Len(pushed.entries)
  BY PushTyped
<1>2. pushed.entries \in Seq(EntryType)
  BY <1>1 DEF HistoryType
<1>3. SamePast(new.entries, pushed.entries, new.position)
  BY PushKeeps
<1> HIDE DEF pushed
<1>4. CASE new = l
  <2>1. /\ l.position \in l.position - 1 .. l.position
        /\ Len(pushed.entries) \in l.position .. l.position + (n + 1)
    BY <1>0, <1>1, <1>4
  <2> QED BY <1>0, <1>1, <1>3, <1>4, <2>1 DEF Extended, pushed
<1>5. CASE Extended(l, new, n)
  <2>1. PICK kept \in Nat : /\ kept \in l.position - 1 .. l.position
                            /\ SamePast(l.entries, new.entries, kept)
                            /\ Len(new.entries) \in kept .. kept + n
    BY <1>5 DEF Extended
  <2>2. new.position = Len(new.entries) /\ kept \in 0 .. new.position
    BY <1>0, <1>5, <2>1 DEF Extended
  <2>3. SamePast(new.entries, pushed.entries, kept)
    BY <1>0, <1>2, <1>3, <2>2, SamePastEntries
  <2>4. SamePast(l.entries, pushed.entries, kept)
    BY <2>1, <2>3, SamePastAgain
  <2>5. Len(pushed.entries) \in kept .. kept + (n + 1)
    BY <1>0, <1>1, <2>1, <2>2
  <2> QED BY <1>1, <2>1, <2>4, <2>5 DEF Extended, pushed
<1> QED BY <1>4, <1>5

\* No field is typed into: every value a field has can be given back.
NoText == TextFields = {}

\* No value is one a file may hold and nobody can type.
Restorable == NoText \/ Unwritable = {}

LEMMA AllRestored == ASSUME Restorable, NEW entry PROVE ~CannotRestore(entry)
BY DEF NoText, Restorable, CannotRestore

\* Taking the newest entry back leads to the position before it.
LEMMA TakeBack ==
  ASSUME base \in Content, NEW l \in HistoryType, NEW d \in Content, Explained(l, d),
         Whole(l), l.position > 0, l.position = Len(l.entries), NEW new,
         new.position = l.position - 1,
         new.entries = SubSeq(l.entries, 1, l.position - 1)
  PROVE  LET last == l.entries[l.position]
         IN  /\ Explained(new, [d EXCEPT ![last.slot] = last.before])
             /\ Whole(new)
             /\ Extended(l, new, 0)
<1> DEFINE s == l.entries
           n == l.position
           last == l.entries[l.position]
           p == Point(base, s, n - 1)
<1>0. /\ s \in Seq(EntryType) /\ n \in 1 .. Len(s) /\ n - 1 \in 0 .. Len(s)
      /\ n \in Nat /\ n - 1 \in Nat /\ Len(s) = n /\ last \in EntryType
      /\ s[n] = last
  BY LenProperties, ElementOfSeq DEF HistoryType
<1>1. /\ new.entries \in Seq(EntryType) /\ Len(new.entries) = n - 1
      /\ SamePast(s, new.entries, n - 1)
  <2>1. n - 1 \in n - 1 .. Len(s)
    BY <1>0
  <2> QED BY <1>0, <2>1, SplitAt, SamePastDropped
<1>2. p \in Content
  BY <1>0, PointTyped
<1>3. d = Point(base, s, n) /\ Chained(base, s)
  BY DEF Explained
<1> HIDE DEF last, s, n
<1>4. d = Applied(p, last)
  BY <1>0, <1>3, PointNext
<1>5. last.before = p[last.slot]
  BY <1>0, <1>3 DEF Chained
<1> HIDE DEF p
<1>6. [d EXCEPT ![last.slot] = last.before] = p
  <2>1. last.slot \in Slots /\ last.before \in Values /\ last.after \in Values
    BY <1>0 DEF EntryType
  <2>2. \A slot \in Slots : d[slot] = IF slot = last.slot THEN last.after ELSE p[slot]
    BY <1>2, <1>4, <2>1 DEF Applied, Content
  <2>3. [d EXCEPT ![last.slot] = last.before] \in Content
    BY <2>1 DEF Content
  <2>4. ASSUME NEW slot \in Slots
        PROVE  [d EXCEPT ![last.slot] = last.before][slot] = p[slot]
    BY <1>5, <2>1, <2>2 DEF Content
  <2> DEFINE q == [d EXCEPT ![last.slot] = last.before]
  <2>5. q \in Content /\ \A slot \in Slots : q[slot] = p[slot]
    BY <2>3, <2>4
  <2> HIDE DEF q
  <2>6. q = p
    BY <1>2, <2>5, SameContent
  <2> QED BY <2>6 DEF q
<1>7. Point(base, new.entries, n - 1) = p
  <2> DEFINE m == n - 1
             t == new.entries
  <2>1. /\ m \in Nat /\ m \in 0 .. m /\ SamePast(s, t, m)
        /\ s \in Seq(EntryType) /\ t \in Seq(EntryType)
    BY <1>0, <1>1
  <2> HIDE DEF m, t
  <2>2. Point(base, s, m) = Point(base, t, m)
    BY <2>1, SamePastPoint
  <2> QED BY <2>2 DEF p, m, t
<1>8. Chained(base, new.entries)
  BY <1>0, <1>1, <1>3, ChainedPast
<1>9. new.position = n - 1
  BY DEF n
<1>10. Explained(new, p)
  BY <1>7, <1>8, <1>9 DEF Explained
<1>11. Whole(new)
  <2>1. CASE n - 1 = 0
    BY <1>1, <1>9, <2>1 DEF Whole
  <2>2. CASE n - 1 > 0
    <3>1. 1 \in 1 .. n - 1
      BY <1>0, <2>2
    <3>2. s[1] = new.entries[1]
      BY <1>0, <1>1, <3>1, SamePastEntries, ZenonT(60)
    <3>3. ~s[1].joined
      BY <1>0 DEF Whole, s
    <3> QED BY <1>0, <1>1, <1>9, <3>2, <3>3 DEF Whole
  <2> QED BY <1>0, <2>1, <2>2
<1>12. Extended(l, new, 0)
  <2>1. n - 1 \in n - 1 .. n /\ Len(new.entries) \in n - 1 .. (n - 1) + 0
    BY <1>0, <1>1
  <2> QED BY <1>0, <1>1, <1>9, <2>1 DEF Extended, n, s
<1> QED BY <1>6, <1>10, <1>11, <1>12 DEF last

LEMMA DropFields ==
  ASSUME NEW l, NEW from
  PROVE  /\ DropHistory(l, from).entries = SubSeq(l.entries, 1, from)
         /\ DropHistory(l, from).position = l.position
BY DEF DropHistory

LEMMA FlushExplained ==
  ASSUME NoText, base \in Content, NEW l \in HistoryType, NEW d \in Content,
         NEW r \in RefreshType, NEW w \in RowType, Explained(l, d), Whole(l)
  PROVE  LET done == Flush(l, d, r, w)
         IN  /\ Explained(done.l, done.d)
             /\ Whole(done.l)
             /\ \/ done.l = l
                \/ \E entry \in EntryType : done.l = PushHistory(l, entry)
                \/ r # NoRefresh /\ JoinsLast(l, r) /\ Extended(l, done.l, 0)
             /\ done.l = l => done.d = d
<1> DEFINE outcome == RebuildOutcome(d, r)
           joined  == JoinsLast(l, r)
           last    == l.entries[l.position]
           undone  == [l EXCEPT !.position = @ - 1]
           done    == Flush(l, d, r, w)
<1>1. CASE outcome = "rebuilt"
  <2> DEFINE entry == Entry("replace", Built(r.field), d[Built(r.field)],
                            d[Value(r.field)], joined)
  <2>1. r \in [field : Fields, typeChanged : BOOLEAN, due : BOOLEAN]
    BY <1>1 DEF RebuildOutcome, RefreshType
  <2>2. Built(r.field) \in Slots /\ Value(r.field) \in Slots
    BY <2>1, SlotsOfFields
  <2>3. d[Built(r.field)] \in Values /\ d[Value(r.field)] \in Values /\ joined \in BOOLEAN
    BY <2>2 DEF Content, JoinsLast
  <2>4. entry \in EntryType
    BY <2>2, <2>3, EntryTyped
  <2>5. /\ entry.slot = Built(r.field) /\ entry.before = d[Built(r.field)]
        /\ entry.after = d[Value(r.field)] /\ entry.joined = joined
    BY DEF Entry
  <2>6. done.l = PushHistory(l, entry) /\ done.d = Applied(d, entry)
    BY <1>1, <2>5 DEF Flush, Applied
  <2>7. entry.joined => l.position > 0
    BY <2>5 DEF JoinsLast
  <2>8. entry.before = d[entry.slot]
    BY <2>5
  <2> HIDE DEF entry, done
  <2>9. /\ Explained(PushHistory(l, entry), Applied(d, entry))
        /\ Whole(PushHistory(l, entry))
        /\ Len(PushHistory(l, entry).entries) = l.position + 1
        /\ PushHistory(l, entry).position = l.position + 1
    BY <2>4, <2>7, <2>8, PushExplained, PushTyped
  <2>10. PushHistory(l, entry) # l
    BY <2>9 DEF HistoryType
  <2> QED BY <2>4, <2>6, <2>9, <2>10 DEF done
<1>2. CASE outcome = "refused" /\ joined
  <2>1. ~CannotRestore(last)
    BY AllRestored DEF Restorable
  <2>2. done = [l |-> DropHistory(undone, undone.position),
                d |-> [d EXCEPT ![last.slot] = last.before],
                rows |-> KeptRows({w}, <<last>>)]
    BY <1>2, <2>1 DEF Flush
  <2>3. r # NoRefresh /\ l.position > 0 /\ l.position = Len(l.entries)
    BY <1>2 DEF RebuildOutcome, JoinsLast
  <2>4. /\ done.l.entries = SubSeq(l.entries, 1, l.position - 1)
        /\ done.l.position = l.position - 1
    <3>1. undone.entries = l.entries /\ undone.position = l.position - 1
      BY DEF HistoryType
    <3>2. done.l = DropHistory(undone, undone.position)
      BY <2>2
    <3> HIDE DEF undone, done
    <3>3. /\ done.l.entries = SubSeq(undone.entries, 1, undone.position)
          /\ done.l.position = undone.position
      BY <3>2, DropFields
    <3> QED BY <3>1, <3>3
  <2>5. done.d = [d EXCEPT ![last.slot] = last.before]
    BY <2>2
  <2> HIDE DEF done
  <2>6. Explained(done.l, done.d) /\ Whole(done.l) /\ Extended(l, done.l, 0)
    <3> DEFINE new == done.l
    <3>1. /\ new.position = l.position - 1
          /\ new.entries = SubSeq(l.entries, 1, l.position - 1)
      BY <2>4
    <3> HIDE DEF new
    <3>2. /\ Explained(new, [d EXCEPT ![l.entries[l.position].slot]
                                     = l.entries[l.position].before])
          /\ Whole(new) /\ Extended(l, new, 0)
      BY <2>3, <3>1, TakeBack
    <3> QED BY <2>5, <3>2 DEF new
  <2>7. done.l # l
    BY <2>4 DEF HistoryType
  <2> QED BY <1>2, <2>3, <2>6, <2>7 DEF done
<1>3. CASE ~(outcome = "rebuilt") /\ ~(outcome = "refused" /\ joined)
  <2>1. done = [l |-> l, d |-> d, rows |-> {w}]
    BY <1>3 DEF Flush
  <2> QED BY <2>1
<1> QED BY <1>1, <1>2, <1>3

LEMMA ExtendedMore ==
  ASSUME NEW l \in HistoryType, NEW new \in HistoryType, NEW n \in Nat, NEW m \in Nat,
         n <= m, Extended(l, new, n)
  PROVE  Extended(l, new, m)
<1>1. PICK kept \in Nat : /\ kept \in l.position - 1 .. l.position
                          /\ SamePast(l.entries, new.entries, kept)
                          /\ Len(new.entries) \in kept .. kept + n
  BY DEF Extended
<1>2. Len(new.entries) \in kept .. kept + m
  BY <1>1
<1> QED BY <1>1, <1>2 DEF Extended

(***************************************************************************)
(* The steps, one after the other.                                         *)
(***************************************************************************)
Led == base \in Content /\ Explained(h, doc) /\ Whole(h)

\* A step that only moves the position is told apart from one that changes
\* the entries.
Grown(n) == h' = h \/ Extended(h, h', n)

LEMMA FlushedExplained ==
  ASSUME NoText, TypeOK, Led
  PROVE  /\ Flushed.l \in HistoryType /\ Flushed.d \in Content
         /\ Explained(Flushed.l, Flushed.d) /\ Whole(Flushed.l)
         /\ (Flushed.l = h) \/ Extended(h, Flushed.l, 1)
<1>1. /\ h \in HistoryType /\ doc \in Content /\ refresh \in RefreshType
      /\ row \in RowType /\ base \in Content /\ Explained(h, doc) /\ Whole(h)
  BY DEF TypeOK, Led
<1>2. Flushed.l \in HistoryType /\ Flushed.d \in Content
  BY FlushedTyped
<1>3. /\ Explained(Flushed.l, Flushed.d) /\ Whole(Flushed.l)
      /\ \/ Flushed.l = h
         \/ \E entry \in EntryType : Flushed.l = PushHistory(h, entry)
         \/ refresh # NoRefresh /\ JoinsLast(h, refresh) /\ Extended(h, Flushed.l, 0)
  BY <1>1, FlushExplained DEF Flushed
<1>4. CASE \E entry \in EntryType : Flushed.l = PushHistory(h, entry)
  <2>1. PICK entry \in EntryType : Flushed.l = PushHistory(h, entry)
    BY <1>4
  <2>2. Extended(h, PushHistory(h, entry), 0 + 1)
    BY <1>1, PushExtends
  <2> QED BY <1>2, <1>3, <2>1, <2>2
<1>5. CASE Extended(h, Flushed.l, 0)
  <2>1. Extended(h, Flushed.l, 1)
    BY <1>1, <1>2, <1>5, ExtendedMore
  <2> QED BY <1>2, <1>3, <2>1
<1> QED BY <1>2, <1>3, <1>4, <1>5

LEMMA ChangeExplained ==
  ASSUME NoText, TypeOK, Led, NEW f \in Fields, NEW v \in Values, NEW now, Change(f, v, now)
  PROVE  Explained(h', doc') /\ Whole(h') /\ Extended(h, h', 3)
<1> DEFINE entry == Entry("field", Value(f), doc[Value(f)], v, FALSE)
           d == [doc EXCEPT ![Value(f)] = v]
           l == PushHistory(h, entry)
           done == Flush(l, d, refresh, row)
<1>0. /\ h \in HistoryType /\ doc \in Content /\ refresh \in RefreshType
      /\ row \in RowType /\ base \in Content /\ Explained(h, doc) /\ Whole(h)
  BY DEF TypeOK, Led
<1>1. doc[Value(f)] \in Values /\ Value(f) \in Slots
  BY SlotsOfFields DEF TypeOK, Content
<1>2. /\ entry \in EntryType
      /\ entry.slot = Value(f) /\ entry.before = doc[Value(f)] /\ entry.after = v
      /\ entry.joined = FALSE
  BY <1>1, EntryTyped DEF Entry
<1>3. d \in Content /\ d = Applied(doc, entry)
  BY <1>0, <1>2 DEF Applied, Content
<1>4. \/ h' = l /\ doc' = d
      \/ refresh # NoRefresh /\ refresh.field # f /\ h' = done.l /\ doc' = done.d
  BY DEF Change, RequestRefresh
<1> HIDE DEF entry, d
<1>5. l \in HistoryType /\ l.entries[l.position] = entry /\ Explained(l, d) /\ Whole(l)
  <2>1. entry.before = doc[entry.slot] /\ (entry.joined => h.position > 0)
    BY <1>2
  <2> QED BY <1>0, <1>2, <1>3, <2>1, PushTyped, PushExplained
<1>6. Extended(h, l, 1)
  <2>1. Extended(h, PushHistory(h, entry), 0 + 1)
    BY <1>0, <1>2, PushExtends
  <2> QED BY <2>1
<1> HIDE DEF l
<1>7. CASE h' = l /\ doc' = d
  <2>1. Extended(h, l, 3)
    BY <1>0, <1>5, <1>6, ExtendedMore
  <2> QED BY <1>5, <1>7, <2>1
<1>8. CASE refresh # NoRefresh /\ refresh.field # f /\ h' = done.l /\ doc' = done.d
  <2>1. ~JoinsLast(l, refresh)
    BY <1>0, <1>2, <1>5, <1>8, SlotsOfFields DEF JoinsLast, RefreshType
  <2>2. /\ Explained(done.l, done.d) /\ Whole(done.l)
        /\ \/ done.l = l
           \/ \E e \in EntryType : done.l = PushHistory(l, e)
    BY <1>0, <1>3, <1>5, <2>1, FlushExplained
  <2>3. done.l \in HistoryType
    BY <1>0, <1>3, <1>5, FlushTyped
  <2> HIDE DEF done
  <2>4. CASE done.l = l
    <3>1. Extended(h, l, 3)
      BY <1>0, <1>5, <1>6, ExtendedMore
    <3> QED BY <1>8, <2>2, <2>4, <3>1
  <2>5. CASE \E e \in EntryType : done.l = PushHistory(l, e)
    <3>1. PICK e \in EntryType : done.l = PushHistory(l, e)
      BY <2>5
    <3>2. Extended(h, PushHistory(l, e), 1 + 1)
      BY <1>0, <1>5, <1>6, PushExtends
    <3>3. Extended(h, done.l, 2)
      BY <3>1, <3>2
    <3>4. Extended(h, done.l, 3)
      BY <1>0, <2>3, <3>3, ExtendedMore
    <3> QED BY <1>8, <2>2, <3>4
  <2> QED BY <2>2, <2>4, <2>5
<1> QED BY <1>4, <1>7, <1>8

LEMMA ChangeGroupsExplained ==
  ASSUME NoText, TypeOK, Led, NEW g \in Values, ChangeGroups(g)
  PROVE  Explained(h', doc') /\ Whole(h') /\ Extended(h, h', 3)
<1> DEFINE entry == Entry("structure", Groups, Flushed.d[Groups], g, FALSE)
           l == Flushed.l
           d == Flushed.d
<1>0. h \in HistoryType /\ base \in Content /\ h' \in HistoryType
  <2>1. Edit
    BY DEF Edit
  <2> QED BY <2>1, EditTyped DEF TypeOK, Led
<1>1. /\ l \in HistoryType /\ d \in Content /\ Explained(l, d) /\ Whole(l)
      /\ (l = h) \/ Extended(h, l, 1)
  BY FlushedExplained
<1>2. /\ entry \in EntryType
      /\ entry.slot = Groups /\ entry.before = d[Groups] /\ entry.after = g
      /\ entry.joined = FALSE
  BY <1>1, SlotsOfFields, EntryTyped DEF Entry, Content
<1>3. h' = PushHistory(l, entry) /\ doc' = Applied(d, entry)
  BY <1>2 DEF ChangeGroups, Applied
<1> HIDE DEF entry, l, d
<1>4. Explained(h', doc') /\ Whole(h')
  <2>1. entry.before = d[entry.slot] /\ (entry.joined => l.position > 0)
    BY <1>2
  <2> QED BY <1>0, <1>1, <1>2, <1>3, <2>1, PushExplained
<1>5. Extended(h, h', 1 + 1)
  BY <1>0, <1>1, <1>2, <1>3, PushExtends
<1>6. Extended(h, h', 2)
  BY <1>5
<1> QED BY <1>0, <1>4, <1>6, ExtendedMore

\* Two entries applied one after the other.
LEMMA ReapplyTwo ==
  ASSUME NEW d \in Content, NEW e \in EntryType, NEW f \in EntryType
  PROVE  Reapply(d, <<e, f>>) = Applied(Applied(d, e), f)
<1> DEFINE s == <<e, f>>
<1>1. s \in Seq(EntryType) /\ Len(s) = 2 /\ s[1] = e /\ s[2] = f
  OBVIOUS
<1> HIDE DEF s
<1>2. SubSeq(s, 1, 2) = s /\ SubSeq(s, 1, 0) = <<>>
  <2>1. SubSeq(s, 1, 2) \in Seq(EntryType) /\ Len(SubSeq(s, 1, 2)) = 2
        /\ \A i \in 1 .. 2 : SubSeq(s, 1, 2)[i] = s[i]
    <3>1. 2 \in 0 .. Len(s) /\ 2 \in 2 .. Len(s)
      BY <1>1
    <3> QED BY <1>1, <3>1, SplitAt
  <2>2. SubSeq(s, 1, 2) = s
    BY <1>1, <2>1, SeqEqual
  <2> QED BY <2>2, SubSeqEmpty
<1>3. Point(d, s, 0) = d
  BY <1>2, ReapplyNothing DEF Point
<1>4. Point(d, s, 1) = Applied(d, e)
  <2>1. 1 \in 1 .. Len(s) /\ 1 - 1 = 0
    BY <1>1
  <2>2. Point(d, s, 1) = Applied(Point(d, s, 1 - 1), s[1])
    BY <1>1, <2>1, PointNext
  <2> QED BY <1>1, <1>3, <2>1, <2>2
<1>5. Point(d, s, 2) = Applied(Applied(d, e), f)
  <2>1. 2 \in 1 .. Len(s) /\ 2 - 1 = 1
    BY <1>1
  <2>2. Point(d, s, 2) = Applied(Point(d, s, 2 - 1), s[2])
    BY <1>1, <2>1, PointNext
  <2> QED BY <1>1, <1>4, <2>1, <2>2
<1>6. Point(d, s, 2) = Reapply(d, s)
  BY <1>2 DEF Point
<1> QED BY <1>5, <1>6 DEF s

LEMMA SwapDataExplained ==
  ASSUME NoText, TypeOK, Led, NEW f \in Fields, NEW g \in Fields, SwapData(f, g),
         h' \in HistoryType
  PROVE  Explained(h', doc') /\ Whole(h') /\ Extended(h, h', 3)
<1> DEFINE l == Flushed.l
           d == Flushed.d
           first  == Entry("data", Value(f), d[Value(f)], d[Value(g)], FALSE)
           second == Entry("data", Value(g), d[Value(g)], d[Value(f)], TRUE)
           half   == PushHistory(l, first)
<1>0. h \in HistoryType /\ base \in Content
  BY DEF TypeOK, Led
<1>1. /\ l \in HistoryType /\ d \in Content /\ Explained(l, d) /\ Whole(l)
      /\ (l = h) \/ Extended(h, l, 1)
  BY FlushedExplained
<1>2. /\ d[Value(f)] \in Values /\ d[Value(g)] \in Values
      /\ Value(f) \in Slots /\ Value(g) \in Slots /\ Value(f) # Value(g)
  BY <1>1, SlotsOfFields DEF Content, SwapData
<1>3. /\ first \in EntryType /\ second \in EntryType
      /\ first.slot = Value(f) /\ first.before = d[Value(f)] /\ first.joined = FALSE
      /\ second.slot = Value(g) /\ second.before = d[Value(g)]
  BY <1>2, EntryTyped DEF Entry
<1>4. h' = PushHistory(half, second) /\ doc' = Reapply(d, <<first, second>>)
  BY DEF SwapData
<1> HIDE DEF first, second, l, d
<1>5. /\ half \in HistoryType /\ half.position > 0
      /\ Explained(half, Applied(d, first)) /\ Whole(half)
  <2>1. first.before = d[first.slot] /\ (first.joined => l.position > 0)
    BY <1>3
  <2>2. half \in HistoryType /\ half.position = l.position + 1
    BY <1>1, <1>3, PushTyped
  <2>3. l.position \in Nat
    BY <1>1 DEF HistoryType
  <2> QED BY <1>0, <1>1, <1>3, <2>1, <2>2, <2>3, PushExplained
<1>6. Extended(h, half, 2)
  <2>1. Extended(h, half, 1 + 1)
    BY <1>0, <1>1, <1>3, PushExtends
  <2> QED BY <2>1
<1>7. Applied(d, first) \in Content /\ second.before = Applied(d, first)[second.slot]
  BY <1>1, <1>2, <1>3 DEF Applied, Content, EntryType
<1> HIDE DEF half
<1>8. Explained(h', Applied(Applied(d, first), second)) /\ Whole(h')
  BY <1>0, <1>3, <1>4, <1>5, <1>7, PushExplained
<1>9. doc' = Applied(Applied(d, first), second)
  BY <1>1, <1>3, <1>4, ReapplyTwo
<1>10. Extended(h, h', 2 + 1)
  BY <1>0, <1>3, <1>4, <1>5, <1>6, PushExtends
<1>11. Extended(h, h', 3)
  BY <1>10
<1> QED BY <1>8, <1>9, <1>11

\* Where undo stops: at a position that is not between joined entries.
LEMMA UndoStopIs ==
  ASSUME Restorable, NEW l \in HistoryType, l.position > 0
  PROVE  /\ UndoStop(l) \in 0 .. l.position - 1
         /\ UndoStop(l) = 0 \/ ~l.entries[UndoStop(l) + 1].joined
<1> DEFINE starts == {p \in 0 .. l.position - 1 : p = 0 \/ ~l.entries[p + 1].joined}
           stuck  == {p \in Max(starts) + 1 .. l.position : CannotRestore(l.entries[p])}
<1>0. l.position \in Nat
  BY DEF HistoryType
<1>1. 0 \in starts /\ starts \in SUBSET (0 .. l.position)
  BY <1>0
<1>2. Max(starts) \in starts
  <2> HIDE DEF starts
  <2> QED BY <1>0, <1>1, MaxIsLast
<1>3. stuck = {}
  BY AllRestored
<1>4. UndoStop(l) = Max({Max(starts)} \cup stuck)
  BY DEF UndoStop
<1>5. Max({Max(starts)}) = Max(starts)
  <2> DEFINE m == Max(starts)
  <2>1. m \in Nat
    BY <1>0, <1>2
  <2> HIDE DEF m
  <2>2. Max({m}) \in {m}
    <3>1. {m} \in SUBSET (0 .. m) /\ {m} # {}
      BY <2>1
    <3> QED BY <2>1, <3>1, MaxIsLast
  <2> QED BY <2>2 DEF m
<1>6. UndoStop(l) = Max(starts)
  <2>1. {Max(starts)} \cup stuck = {Max(starts)}
    BY <1>3
  <2> QED BY <1>4, <1>5, <2>1
<1> QED BY <1>2, <1>6

LEMMA RedoStopIs ==
  ASSUME NEW l \in HistoryType, l.position < Len(l.entries)
  PROVE  /\ RedoStop(l) \in l.position + 1 .. Len(l.entries)
         /\ RedoStop(l) = Len(l.entries) \/ ~l.entries[RedoStop(l) + 1].joined
<1> DEFINE ends == {p \in l.position + 1 .. Len(l.entries) :
                      p = Len(l.entries) \/ ~l.entries[p + 1].joined}
<1>0. l.position \in Nat /\ Len(l.entries) \in Nat
  BY LenProperties DEF HistoryType
<1>1. Len(l.entries) \in ends /\ ends \in SUBSET (0 .. Len(l.entries))
  BY <1>0
<1>2. Min(ends) \in ends
  <2> HIDE DEF ends
  <2> QED BY <1>0, <1>1, MinIsFirst
<1>3. RedoStop(l) = Min(ends)
  BY DEF RedoStop
<1> QED BY <1>2, <1>3

LEMMA UndoExplained ==
  ASSUME NoText, TypeOK, Led, Undo
  PROVE  /\ Explained(h', doc') /\ Whole(h')
         /\ \/ Grown(3)
            \/ /\ h'.position \in 0 .. h.position
               /\ SamePast(h.entries, h'.entries, h'.position)
<1> DEFINE l == Flushed.l
           d == Flushed.d
           stop == UndoStop(l)
           entries == SubSeq(l.entries, stop + 1, l.position)
<1>0. /\ h \in HistoryType /\ base \in Content /\ h.position \in Nat
      /\ h.entries \in Seq(EntryType) /\ h.position <= Len(h.entries)
      /\ Len(h.entries) \in Nat
  BY LenProperties DEF TypeOK, Led, HistoryType
<1>1. /\ l \in HistoryType /\ d \in Content /\ Explained(l, d) /\ Whole(l)
      /\ (l = h) \/ Extended(h, l, 1)
  BY FlushedExplained
<1>2. /\ l.entries \in Seq(EntryType) /\ l.position \in Nat
      /\ l.position <= Len(l.entries) /\ Len(l.entries) \in Nat
  BY <1>1, LenProperties DEF HistoryType
<1>3. \/ h' = l /\ doc' = d
      \/ /\ l.position # 0
         /\ h' = [l EXCEPT !.position = stop] /\ doc' = Revert(d, entries)
  BY DEF Undo
<1> HIDE DEF l, d
<1>4. CASE h' = l /\ doc' = d
  <2>1. (l = h) \/ Extended(h, l, 3)
    BY <1>0, <1>1, ExtendedMore
  <2> QED BY <1>1, <1>4, <2>1 DEF Grown
<1>5. CASE l.position # 0 /\ h' = [l EXCEPT !.position = stop] /\ doc' = Revert(d, entries)
  <2>1. /\ stop \in 0 .. l.position - 1
        /\ (stop = 0) \/ ~l.entries[stop + 1].joined
    BY <1>1, <1>2, <1>5, UndoStopIs DEF Restorable
  <2>2. h'.entries = l.entries /\ h'.position = stop
    BY <1>1, <1>5 DEF HistoryType
  <2> HIDE DEF stop
  <2>3. Revert(d, entries) = Point(base, l.entries, stop)
    <3>1. /\ stop \in 0 .. Len(l.entries) /\ l.position \in stop .. Len(l.entries)
          /\ Chained(base, l.entries) /\ d = Point(base, l.entries, l.position)
      BY <1>1, <1>2, <2>1 DEF Explained
    <3> QED BY <1>0, <1>2, <3>1, RevertTo
  <2>4. Explained(h', doc')
    BY <1>1, <1>5, <2>2, <2>3 DEF Explained
  <2>5. Whole(h')
    BY <1>1, <1>2, <2>1, <2>2 DEF Whole
  <2>6. h'.position \in 0 .. h.position /\ SamePast(h.entries, h'.entries, h'.position)
    <3>1. CASE l = h
      BY <1>0, <2>1, <2>2, <3>1 DEF SamePast
    <3>2. CASE Extended(h, l, 1)
      <4>1. PICK kept \in Nat : /\ kept \in h.position - 1 .. h.position
                                /\ SamePast(h.entries, l.entries, kept)
                                /\ Len(l.entries) \in kept .. kept + 1
        BY <3>2 DEF Extended
      <4>2. l.position = Len(l.entries)
        BY <3>2 DEF Extended
      <4>3. stop \in 0 .. kept /\ stop \in 0 .. h.position
        BY <1>0, <1>2, <2>1, <4>1, <4>2
      <4>4. SamePast(h.entries, l.entries, stop)
        BY <1>0, <1>2, <4>1, <4>3, SamePastEntries
      <4> QED BY <2>2, <4>3, <4>4
    <3> QED BY <1>1, <3>1, <3>2
  <2> QED BY <2>4, <2>5, <2>6
<1> QED BY <1>3, <1>4, <1>5

LEMMA RedoExplained ==
  ASSUME NoText, TypeOK, Led, Redo
  PROVE  /\ Explained(h', doc') /\ Whole(h')
         /\ \/ Grown(3)
            \/ h'.entries = h.entries /\ h'.position \in h.position .. Len(h.entries)
<1> DEFINE l == Flushed.l
           d == Flushed.d
           stop == RedoStop(l)
           entries == SubSeq(l.entries, l.position + 1, stop)
<1>0. h \in HistoryType /\ base \in Content
  BY DEF TypeOK, Led
<1>1. /\ l \in HistoryType /\ d \in Content /\ Explained(l, d) /\ Whole(l)
      /\ (l = h) \/ Extended(h, l, 1)
  BY FlushedExplained
<1>2. /\ l.entries \in Seq(EntryType) /\ l.position \in Nat
      /\ l.position <= Len(l.entries) /\ Len(l.entries) \in Nat
  BY <1>1, LenProperties DEF HistoryType
<1>3. \/ h' = l /\ doc' = d
      \/ /\ l.position # Len(l.entries)
         /\ h' = [l EXCEPT !.position = stop] /\ doc' = Reapply(d, entries)
  BY DEF Redo
<1> HIDE DEF l, d
<1>4. CASE h' = l /\ doc' = d
  <2>1. (l = h) \/ Extended(h, l, 3)
    BY <1>0, <1>1, ExtendedMore
  <2> QED BY <1>1, <1>4, <2>1 DEF Grown
<1>5. CASE /\ l.position # Len(l.entries)
           /\ h' = [l EXCEPT !.position = stop] /\ doc' = Reapply(d, entries)
  <2>1. /\ stop \in l.position + 1 .. Len(l.entries)
        /\ (stop = Len(l.entries)) \/ ~l.entries[stop + 1].joined
    BY <1>1, <1>2, <1>5, RedoStopIs
  <2>2. h'.entries = l.entries /\ h'.position = stop
    BY <1>1, <1>5 DEF HistoryType
  <2> HIDE DEF stop
  <2>3. Reapply(d, entries) = Point(base, l.entries, stop)
    <3>1. /\ l.position \in 0 .. Len(l.entries) /\ stop \in l.position .. Len(l.entries)
          /\ d = Point(base, l.entries, l.position)
      BY <1>1, <1>2, <2>1 DEF Explained
    <3> QED BY <1>0, <1>2, <3>1, ReapplyFrom
  <2>4. Explained(h', doc')
    BY <1>1, <1>5, <2>2, <2>3 DEF Explained
  <2>5. Whole(h')
    BY <1>1, <1>2, <2>1, <2>2 DEF Whole
  <2>6. l = h
    BY <1>1, <1>5 DEF Extended
  <2>7. h'.entries = h.entries /\ h'.position \in h.position .. Len(h.entries)
    BY <1>2, <2>1, <2>2, <2>6
  <2> QED BY <2>4, <2>5, <2>7
<1> QED BY <1>3, <1>4, <1>5

(***************************************************************************)
(* What the file holds, and what is being written to it.                   *)
(***************************************************************************)
FileIs(l, d, prefix) == l.saved >= 0 => d = Reapply(base, prefix)

WriteIs(w) == (w # NoWrite /\ w.current) => w.content = Reapply(base, w.prefix)

\* Only Load gives the window another EDID to start from.
LEMMA BaseStays ==
  ASSUME Next
  PROVE  base' = base \/ \E v \in Start, adjusted \in BOOLEAN : Load(v, adjusted)
BY DEF Next, Edit, LeaveRow, ActivateRow, FocusRow, TypeText, Choose, ChangeUnfocused, Change,
       ChangeGroups,       SwapData, Refresh, Undo, Redo, StartSave, PrepareOutput, Written, WriteFailed

\* A change keeps the saved position or forgets it.
SavedKept(l, new) == new.saved >= 0 => new.saved = l.saved

LEMMA PushSaved ==
  ASSUME NEW l, NEW entry
  PROVE  SavedKept(l, PushHistory(l, entry))
BY DEF PushHistory, SavedKept

LEMMA FlushSaved ==
  ASSUME NEW l \in HistoryType, NEW d \in Content, NEW r \in RefreshType, NEW w \in RowType
  PROVE  SavedKept(l, Flush(l, d, r, w).l)
<1> DEFINE undone == [l EXCEPT !.position = @ - 1]
           new == Flush(l, d, r, w).l
<1>0. l \in [entries : Seq(EntryType), position : Nat,
             saved : Nat \cup {-1}, matches : BOOLEAN]
  BY DEF HistoryType
<1>1. new \in FlushResults(l, r) \/ new = DropHistory(undone, l.position - 1)
  BY FlushTyped
<1>2. ASSUME NEW x, NEW from PROVE DropHistory(x, from).saved = x.saved
  BY DEF DropHistory
<1>3. undone.saved = l.saved
  BY <1>0
<1> HIDE DEF undone, new
<1>4. \/ new = l
      \/ \E entry : new = PushHistory(l, entry)
      \/ new.saved = l.saved
  BY <1>1, <1>2, <1>3 DEF FlushResults
<1>5. SavedKept(l, new)
  BY <1>4, PushSaved DEF SavedKept
<1> QED BY <1>5 DEF new

LEMMA FlushedSaved == ASSUME TypeOK PROVE SavedKept(h, Flushed.l)
BY FlushSaved DEF TypeOK, Flushed

LEMMA SavedKeptAgain ==
  ASSUME NEW k, NEW l, NEW m, SavedKept(k, l), SavedKept(l, m)
  PROVE  SavedKept(k, m)
BY DEF SavedKept

\* Outside of saving and loading, what the file holds stays and the saved
\* position names it, or none.
LEMMA EditSaved ==
  ASSUME NoText, TypeOK, Edit \/ Refresh \/ PrepareOutput \/ Undo \/ Redo
  PROVE  SavedKept(h, h') /\ UNCHANGED <<write, file, savedPrefix, base>>
<1> USE EditAssumption
<1>1. CASE LeaveRow \/ ActivateRow \/ \E f \in TextFields : FocusRow(f)
  BY <1>1 DEF LeaveRow, ActivateRow, FocusRow, SavedKept
<1>2. ASSUME NEW v \in Values, TypeText(v) PROVE FALSE
  BY <1>2 DEF TypeText, TypeOK, RowType, NoText
<1>3. ASSUME NEW f \in Fields, NEW v \in Values, NEW now, Change(f, v, now)
      PROVE  SavedKept(h, h') /\ UNCHANGED <<write, file, savedPrefix, base>>
  <2> DEFINE entry == Entry("field", Value(f), doc[Value(f)], v, FALSE)
             d == [doc EXCEPT ![Value(f)] = v]
             l == PushHistory(h, entry)
  <2>1. doc[Value(f)] \in Values /\ Value(f) \in Slots
    BY SlotsOfFields DEF TypeOK, Content
  <2>2. entry \in EntryType
    BY <2>1, EntryTyped
  <2>3. d \in Content
    BY DEF TypeOK, Content
  <2>4. h' = l \/ h' = Flush(l, d, refresh, row).l
    BY <1>3 DEF Change, RequestRefresh
  <2> HIDE DEF entry, d
  <2>5. l \in HistoryType /\ SavedKept(h, l)
    BY <2>2, PushTyped, PushSaved DEF TypeOK
  <2> HIDE DEF l
  <2>6. SavedKept(l, Flush(l, d, refresh, row).l)
    BY <2>3, <2>5, FlushSaved DEF TypeOK
  <2>7. SavedKept(h, h')
    BY <2>4, <2>5, <2>6, SavedKeptAgain
  <2> QED BY <1>3, <2>7 DEF Change
<1>4. ASSUME NEW g \in Values, ChangeGroups(g)
      PROVE  SavedKept(h, h') /\ UNCHANGED <<write, file, savedPrefix, base>>
  <2>1. h' = PushHistory(Flushed.l, Entry("structure", Groups, Flushed.d[Groups], g, FALSE))
    BY <1>4 DEF ChangeGroups
  <2>2. SavedKept(Flushed.l, h')
    BY <2>1, PushSaved
  <2> QED BY <1>4, <2>2, FlushedSaved, SavedKeptAgain DEF ChangeGroups
<1>5. ASSUME NEW f \in Fields, NEW g \in Fields, SwapData(f, g)
      PROVE  SavedKept(h, h') /\ UNCHANGED <<write, file, savedPrefix, base>>
  <2>1. PICK first, second : h' = PushHistory(PushHistory(Flushed.l, first), second)
    BY <1>5 DEF SwapData
  <2>2. SavedKept(Flushed.l, h')
    BY <2>1, PushSaved, SavedKeptAgain
  <2> QED BY <1>5, <2>2, FlushedSaved, SavedKeptAgain DEF SwapData
<1>6. CASE Refresh \/ PrepareOutput
  BY <1>6, FlushedSaved DEF Refresh, PrepareOutput
<1>7. CASE Undo \/ Redo
  <2>1. h' = Flushed.l \/ \E to : h' = [Flushed.l EXCEPT !.position = to]
    BY <1>7 DEF Undo, Redo
  <2>2. h'.saved = Flushed.l.saved
    BY <2>1, FlushedTyped DEF HistoryType
  <2>3. SavedKept(h, h')
    BY <2>2, FlushedSaved DEF SavedKept
  <2> QED BY <1>7, <2>3 DEF Undo, Redo
<1> QED BY <1>1, <1>2, <1>3, <1>4, <1>5, <1>6, <1>7 DEF Edit, Choose, ChangeUnfocused

LEMMA EditExplained ==
  ASSUME NoText, TypeOK, Led, Edit \/ Refresh \/ PrepareOutput
  PROVE  Explained(h', doc') /\ Whole(h') /\ Grown(3)
<1>0. Explained(h, doc) /\ Whole(h) /\ h \in HistoryType
  BY DEF Led, TypeOK
<1>1. CASE LeaveRow \/ ActivateRow \/ \E f \in TextFields : FocusRow(f)
  <2>1. h' = h /\ doc' = doc
    BY <1>1 DEF LeaveRow, ActivateRow, FocusRow
  <2> QED BY <1>0, <2>1 DEF Grown
<1>2. ASSUME NEW v \in Values, TypeText(v) PROVE FALSE
  BY <1>2 DEF TypeText, TypeOK, RowType, NoText
<1>3. CASE \E f \in Fields, v \in Values : Choose(f, v) \/ ChangeUnfocused(f, v)
  BY <1>3, ChangeExplained DEF Grown, Choose, ChangeUnfocused
<1>4. CASE \E g \in Values : ChangeGroups(g)
  BY <1>4, ChangeGroupsExplained DEF Grown
<1>5. CASE \E f, g \in Fields \ (LayoutFields \cup TypeFields) : SwapData(f, g)
  <2>1. h' \in HistoryType
    BY <1>5, EditTyped DEF Edit, TypeOK
  <2> QED BY <1>5, <2>1, SwapDataExplained DEF Grown
<1>6. CASE Refresh \/ PrepareOutput
  <2>1. h' = Flushed.l /\ doc' = Flushed.d
    BY <1>6 DEF Refresh, PrepareOutput
  <2>2. (Flushed.l = h) \/ Extended(h, Flushed.l, 3)
    BY <1>0, FlushedExplained, ExtendedMore
  <2> QED BY <2>1, <2>2, FlushedExplained DEF Grown
<1> QED BY <1>1, <1>2, <1>3, <1>4, <1>5, <1>6 DEF Edit

LEMMA StartSaveExplained ==
  ASSUME NoText, TypeOK, Led, StartSave
  PROVE  /\ Explained(h', doc') /\ Whole(h') /\ WriteIs(write') /\ SavedKept(h, h')
         /\ \/ h'.entries = h.entries /\ h'.position = h.position
            \/ Extended(h, h', 1)
<1> DEFINE l == Flushed.l
<1>1. /\ l \in HistoryType /\ Explained(l, Flushed.d) /\ Whole(l)
      /\ (l = h) \/ Extended(h, l, 1)
      /\ SavedKept(h, l)
  BY FlushedExplained, FlushedSaved
<1>2. /\ h' = [l EXCEPT !.matches = TRUE] /\ doc' = Flushed.d
      /\ write' = [position |-> l.position, content |-> Flushed.d, current |-> TRUE,
                   prefix |-> SubSeq(l.entries, 1, l.position)]
  BY DEF StartSave
<1> HIDE DEF l
<1>3. h'.entries = l.entries /\ h'.position = l.position /\ h'.saved = l.saved
  BY <1>1, <1>2 DEF HistoryType
<1>4. Explained(h', doc') /\ Whole(h')
  BY <1>1, <1>2, <1>3 DEF Explained, Whole
<1>5. WriteIs(write')
  BY <1>1, <1>2 DEF WriteIs, Explained, Point
<1>6. SavedKept(h, h')
  BY <1>1, <1>3 DEF SavedKept
<1>7. Extended(h, l, 1) => Extended(h, h', 1)
  BY <1>3 DEF Extended
<1> QED BY <1>1, <1>3, <1>4, <1>5, <1>6, <1>7

\* The inductive invariant.
TimelineInv ==
  /\ Led
  /\ FileIs(h, file, savedPrefix)
  /\ WriteIs(write)

LEMMA InitExplained == Init => TimelineInv
<1> SUFFICES ASSUME Init PROVE TimelineInv
  OBVIOUS
<1>1. /\ h = [entries |-> <<>>, position |-> 0, saved |-> 0, matches |-> FALSE]
      /\ base = doc /\ file = doc /\ savedPrefix = <<>> /\ write = NoWrite
      /\ doc \in Content
  BY OpenedTyped DEF Init
<1>2. SubSeq(<<>>, 1, 0) = <<>> /\ Len(<<>>) = 0
  BY SubSeqEmpty
<1>3. Reapply(doc, <<>>) = doc
  BY <1>1, ReapplyNothing
<1>4. Explained(h, doc) /\ Whole(h)
  <2>1. h.entries = <<>> /\ h.position = 0 /\ Len(h.entries) = 0
    BY <1>1, <1>2
  <2>2. Chained(base, h.entries)
    BY <2>1 DEF Chained
  <2>3. Point(base, h.entries, h.position) = doc
    BY <1>1, <1>2, <1>3, <2>1 DEF Point
  <2> QED BY <2>1, <2>2, <2>3 DEF Explained, Whole
<1>5. FileIs(h, file, savedPrefix) /\ WriteIs(write)
  BY <1>1, <1>3 DEF FileIs, WriteIs
<1> QED BY <1>1, <1>4, <1>5 DEF TimelineInv, Led

LEMMA LoadExplained ==
  ASSUME TypeOK, NEW v \in Start, NEW adjusted \in BOOLEAN, Load(v, adjusted)
  PROVE  TimelineInv'
<1>1. /\ h'.entries = <<>> /\ h'.position = 0
      /\ h'.saved = IF adjusted THEN -1 ELSE 0
      /\ base' = doc' /\ file' = (IF adjusted THEN NoFile ELSE doc') /\ savedPrefix' = <<>>
      /\ doc' \in Content
  BY OpenedTyped DEF Load
<1>2. SubSeq(<<>>, 1, 0) = <<>> /\ Len(<<>>) = 0
  BY SubSeqEmpty
<1>3. Reapply(doc', <<>>) = doc'
  BY <1>1, ReapplyNothing
<1>4. Explained(h, doc)' /\ Whole(h)'
  <2>1. Len(h'.entries) = 0
    BY <1>1, <1>2
  <2>2. Chained(base', h'.entries)
    BY <2>1 DEF Chained
  <2>3. Point(base', h'.entries, h'.position) = doc'
    BY <1>1, <1>2, <1>3 DEF Point
  <2> QED BY <1>1, <2>1, <2>2, <2>3 DEF Explained, Whole
<1>5. FileIs(h, file, savedPrefix)'
  BY <1>1, <1>3 DEF FileIs
<1>6. WriteIs(write)'
  <2>1. CASE SavePending
    <3>1. write' = [write EXCEPT !.current = FALSE]
      BY <2>1 DEF Load
    <3>2. write \in [position : Nat, content : Content, current : BOOLEAN,
                    prefix : Seq(EntryType)]
      BY <2>1 DEF SavePending, TypeOK, WriteType
    <3> QED BY <3>1, <3>2 DEF WriteIs
  <2>2. CASE ~SavePending
    BY <2>2 DEF Load, SavePending, WriteIs
  <2> QED BY <2>1, <2>2
<1> QED BY <1>1, <1>4, <1>5, <1>6 DEF TimelineInv, Led

LEMMA NextExplained == NoText /\ TypeOK /\ TimelineInv /\ [Next]_vars => TimelineInv'
<1> SUFFICES ASSUME NoText, TypeOK, TimelineInv, [Next]_vars PROVE TimelineInv'
  OBVIOUS
<1>0. Led /\ FileIs(h, file, savedPrefix) /\ WriteIs(write) /\ base \in Content
  BY DEF TimelineInv, Led
<1>1. CASE Edit \/ Refresh \/ PrepareOutput \/ Undo \/ Redo
  <2>1. Explained(h', doc') /\ Whole(h')
    BY <1>0, <1>1, EditExplained, UndoExplained, RedoExplained
  <2>2. SavedKept(h, h') /\ UNCHANGED <<write, file, savedPrefix, base>>
    BY <1>1, EditSaved
  <2>3. (Explained(h, doc) /\ Whole(h))'
    BY <2>1, <2>2 DEF Explained, Point
  <2>4. FileIs(h, file, savedPrefix)'
    BY <1>0, <2>2 DEF FileIs, SavedKept
  <2>5. WriteIs(write)'
    BY <1>0, <2>2 DEF WriteIs
  <2> QED BY <1>0, <2>2, <2>3, <2>4, <2>5 DEF TimelineInv, Led
<1>2. CASE StartSave
  <2>1. Explained(h', doc') /\ Whole(h') /\ WriteIs(write') /\ SavedKept(h, h')
    BY <1>0, <1>2, StartSaveExplained
  <2>2. UNCHANGED <<file, savedPrefix, base>>
    BY <1>2 DEF StartSave
  <2>3. (Explained(h, doc) /\ Whole(h))'
    BY <2>1, <2>2 DEF Explained, Point
  <2>4. FileIs(h, file, savedPrefix)'
    BY <1>0, <2>1, <2>2 DEF FileIs, SavedKept
  <2>5. WriteIs(write)'
    BY <2>1, <2>2 DEF WriteIs
  <2> QED BY <1>0, <2>2, <2>3, <2>4, <2>5 DEF TimelineInv, Led
<1>3. CASE Written \/ WriteFailed \/ UNCHANGED vars
  <2>1. UNCHANGED <<doc, base>>
    BY <1>3 DEF Written, WriteFailed, vars
  <2>2. h'.entries = h.entries /\ h'.position = h.position
    BY <1>3 DEF Written, WriteFailed, vars, TypeOK, HistoryType
  <2>3. (Explained(h, doc) /\ Whole(h))'
    BY <1>0, <2>1, <2>2 DEF Led, Explained, Point, Whole, Chained
  <2>4. FileIs(h, file, savedPrefix)'
    <3>1. CASE Written /\ write.current
      <4>1. file' = Reapply(base, savedPrefix')
        BY <1>0, <3>1 DEF Written, WriteIs, SavePending
      <4> QED BY <2>1, <4>1 DEF FileIs
    <3>2. CASE ~(Written /\ write.current)
      <4>1. UNCHANGED <<h, file, savedPrefix>>
        BY <1>3, <3>2 DEF Written, WriteFailed, vars
      <4> QED BY <1>0, <2>1, <4>1 DEF FileIs
    <3> QED BY <3>1, <3>2
  <2>5. WriteIs(write)'
    <3>1. write' = NoWrite \/ write' = write
      BY <1>3 DEF Written, WriteFailed, vars
    <3> QED BY <1>0, <2>1, <3>1 DEF WriteIs
  <2> QED BY <1>0, <2>1, <2>3, <2>4, <2>5 DEF TimelineInv, Led
<1>4. CASE \E v \in Start, adjusted \in BOOLEAN : Load(v, adjusted)
  BY <1>4, LoadExplained
<1> QED BY <1>1, <1>2, <1>3, <1>4 DEF Next

\* What the invariant says of the properties, with what EditHistoryProofs
\* shows of the saved position.
LEMMA ExplainedMeans ==
  ASSUME TypeOK, Intact, TimelineInv
  PROVE  HistoryExplainsContent /\ CleanMeansSaved /\ NeverBetweenJoined /\ UndoneIsOpened
<1>0. /\ h \in HistoryType /\ h.position \in Nat /\ base \in Content
      /\ doc = Point(base, h.entries, h.position) /\ Whole(h)
  BY DEF TypeOK, HistoryType, TimelineInv, Led, Explained
<1>1. HistoryExplainsContent
  BY <1>0 DEF HistoryExplainsContent, Point
<1>2. NeverBetweenJoined
  BY <1>0 DEF NeverBetweenJoined, Whole
<1>3. ASSUME ~Dirty(h) PROVE doc = file
  <2>1. h.saved >= 0 /\ h.position = h.saved
    BY <1>3 DEF Dirty, TypeOK, HistoryType
  <2>2. file = Reapply(base, savedPrefix) /\ SubSeq(h.entries, 1, h.saved) = savedPrefix
    BY <2>1 DEF TimelineInv, FileIs, Intact, SavedPositionIntact
  <2> QED BY <1>0, <2>1, <2>2 DEF Point
<1>4. ASSUME h.position = 0 PROVE doc = base
  <2>1. SubSeq(h.entries, 1, 0) = <<>>
    BY SubSeqEmpty
  <2> QED BY <1>0, <1>4, <2>1, ReapplyNothing DEF Point
<1> QED BY <1>1, <1>2, <1>3, <1>4 DEF CleanMeansSaved, UndoneIsOpened

LEMMA InitIntact == Init => Intact
<1> SUFFICES ASSUME Init PROVE Intact
  OBVIOUS
<1>1. /\ h = [entries |-> <<>>, position |-> 0, saved |-> 0, matches |-> FALSE]
      /\ refresh = NoRefresh /\ write = NoWrite /\ savedPrefix = <<>>
  BY DEF Init
<1>2. SubSeq(<<>>, 1, 0) = <<>> /\ Len(<<>>) = 0
  BY SubSeqEmpty
<1> QED BY <1>1, <1>2, IntactByParts DEF SavedIntact, WriteIntact

\* All of it together.
EditInv == TypeOK /\ Intact /\ TimelineInv

LEMMA EditInvHolds ==
  ASSUME NoText
  PROVE  /\ Init => EditInv
         /\ EditInv /\ [Next]_vars => EditInv'
<1>1. Separate
  BY DEF NoText, Separate
<1> QED BY <1>1, InitTyped, InitIntact, InitExplained, NextTyped, NextIntact,
           NextExplained DEF EditInv

\* In a window of dropdowns and switches, the content is always what the
\* applied entries make of the EDID that was opened, whatever is edited,
\* rebuilt, refused, undone, redone and saved.
THEOREM HistoryExplains ==
  ASSUME NoText
  PROVE  Spec => []HistoryExplainsContent
<1>1. EditInv => HistoryExplainsContent
  BY ExplainedMeans DEF EditInv
<1>2. Init /\ [][Next]_vars => []HistoryExplainsContent
  BY <1>1, EditInvHolds, PTL
<1> QED BY <1>2, PTL DEF Spec

\* A document such a window shows as unmodified holds what its file holds, also
\* while saves are under way and after entries were replaced behind them.
THEOREM UnmodifiedIsSaved ==
  ASSUME NoText
  PROVE  Spec => []CleanMeansSaved
<1>1. EditInv => CleanMeansSaved
  BY ExplainedMeans DEF EditInv
<1>2. Init /\ [][Next]_vars => []CleanMeansSaved
  BY <1>1, EditInvHolds, PTL
<1> QED BY <1>2, PTL DEF Spec

\* A rebuild waits only at a position that is not saved and that no write under
\* way will make the saved one.
LEMMA NextPending ==
  ASSUME NoText, TypeOK, Intact, PendingIsUnsaved, [Next]_vars
  PROVE  PendingIsUnsaved'
<1>0. /\ PendingIsUnsaved <=> (refresh # NoRefresh => Unsaved(h, write))
      /\ PendingIsUnsaved' <=> (refresh' # NoRefresh => Unsaved(h', write'))
  BY DEF PendingIsUnsaved, Unsaved, SavePending
<1>1. CASE LeaveRow \/ ActivateRow \/ (\E f \in TextFields : FocusRow(f)) \/ UNCHANGED vars
  <2>1. UNCHANGED <<h, refresh, write>>
    BY <1>1 DEF LeaveRow, ActivateRow, FocusRow, vars
  <2> QED BY <1>0, <2>1
<1>2. ASSUME NEW v \in Values, TypeText(v) PROVE FALSE
  BY <1>2 DEF TypeText, TypeOK, RowType, NoText
<1>3. CASE \E f \in Fields, v \in Values : Choose(f, v) \/ ChangeUnfocused(f, v)
  BY <1>0, <1>3, ChangeIntact DEF Choose, ChangeUnfocused
<1>4. CASE Written \/ WriteFailed
  <2>1. /\ write' = NoWrite /\ refresh' = refresh /\ write # NoWrite
        /\ h \in [entries : Seq(EntryType), position : Nat,
                  saved : Nat \cup {-1}, matches : BOOLEAN]
    BY <1>4 DEF Written, WriteFailed, SavePending, TypeOK, HistoryType
  <2>2. CASE Written /\ write.current
    <3>1. h' = [h EXCEPT !.saved = IF h.matches THEN write.position ELSE -1]
      BY <2>2 DEF Written
    <3>2. h'.position = h.position /\ h'.saved = IF h.matches THEN write.position ELSE -1
      BY <2>1, <3>1
    <3> QED BY <1>0, <2>1, <2>2, <3>2 DEF Unsaved
  <2>3. CASE ~(Written /\ write.current)
    <3>1. h' = h
      BY <1>4, <2>3 DEF Written, WriteFailed
    <3> QED BY <1>0, <2>1, <3>1 DEF Unsaved
  <2> QED BY <2>2, <2>3
<1>5. CASE \/ \E g \in Values : ChangeGroups(g)
           \/ \E f, g \in Fields \ (LayoutFields \cup TypeFields) : SwapData(f, g)
           \/ Refresh \/ Undo \/ Redo \/ StartSave \/ PrepareOutput
           \/ \E v \in Start, adjusted \in BOOLEAN : Load(v, adjusted)
  <2>1. refresh' = NoRefresh
    BY <1>5 DEF ChangeGroups, SwapData, Refresh, Undo, Redo, StartSave, PrepareOutput, Load
  <2> QED BY <1>0, <2>1
<1> QED BY <1>1, <1>2, <1>3, <1>4, <1>5 DEF Next, Edit

\* While a rebuild waits, taking back the value it may refuse drops no entry the
\* file is made from, or is being made from.
THEOREM WaitingIsUnsaved ==
  ASSUME NoText
  PROVE  Spec => []PendingIsUnsaved
<1>1. Init => PendingIsUnsaved
  BY DEF Init, PendingIsUnsaved
<1>2. EditInv /\ PendingIsUnsaved /\ [Next]_vars => PendingIsUnsaved'
  BY NextPending DEF EditInv
<1>3. Init /\ [][Next]_vars => []PendingIsUnsaved
  BY <1>1, <1>2, EditInvHolds, PTL
<1> QED BY <1>3, PTL DEF Spec

(***************************************************************************)
(* The history implements the timeline.                                    *)
(***************************************************************************)
ContentsOf(d, s) == [i \in 1 .. Len(s) + 1 |-> Point(d, s, i - 1)]

LEMMA ContentsAre ==
  ASSUME NEW d \in Content, NEW s \in Seq(EntryType)
  PROVE  /\ ContentsOf(d, s) \in Seq(Content)
         /\ Len(ContentsOf(d, s)) = Len(s) + 1
         /\ \A i \in 1 .. Len(s) + 1 : ContentsOf(d, s)[i] = Point(d, s, i - 1)
<1>1. Len(s) + 1 \in Nat /\ Len(s) \in Nat
  BY LenProperties
<1>2. ASSUME NEW i \in 1 .. Len(s) + 1 PROVE Point(d, s, i - 1) \in Content
  <2>1. i - 1 \in 0 .. Len(s)
    BY <1>1
  <2> QED BY <2>1, PointTyped
<1>3. ContentsOf(d, s) \in [1 .. Len(s) + 1 -> Content]
  BY <1>2 DEF ContentsOf
<1>4. ContentsOf(d, s) \in Seq(Content)
  BY <1>1, <1>3, SeqDef
<1>5. Len(ContentsOf(d, s)) = Len(s) + 1
  <2>1. DOMAIN ContentsOf(d, s) = 1 .. Len(ContentsOf(d, s)) /\ Len(ContentsOf(d, s)) \in Nat
    BY <1>4, LenProperties
  <2>2. DOMAIN ContentsOf(d, s) = 1 .. Len(s) + 1
    BY <1>3
  <2>3. ASSUME NEW a \in Nat, NEW b \in Nat, 1 .. a = 1 .. b PROVE a = b
    <3>1. (a = 0) \/ a \in 1 .. a
      OBVIOUS
    <3>2. (b = 0) \/ b \in 1 .. b
      OBVIOUS
    <3>3. a <= b
      BY <2>3, <3>1
    <3>4. b <= a
      BY <2>3, <3>2
    <3> QED BY <3>3, <3>4
  <2> HIDE DEF ContentsOf
  <2> QED BY <1>1, <2>1, <2>2, <2>3
<1> QED BY <1>4, <1>5 DEF ContentsOf

LEMMA ContentsPast ==
  ASSUME NEW d \in Content, NEW s \in Seq(EntryType), NEW t \in Seq(EntryType),
         NEW n \in Nat, SamePast(s, t, n)
  PROVE  /\ Len(ContentsOf(d, t)) >= n + 1
         /\ SubSeq(ContentsOf(d, t), 1, n + 1) = SubSeq(ContentsOf(d, s), 1, n + 1)
<1> DEFINE a == ContentsOf(d, s)
           b == ContentsOf(d, t)
           m == n + 1
<1>1. /\ a \in Seq(Content) /\ Len(a) = Len(s) + 1 /\ b \in Seq(Content) /\ Len(b) = Len(t) + 1
  BY ContentsAre
<1>2. /\ n <= Len(s) /\ n <= Len(t) /\ Len(s) \in Nat /\ Len(t) \in Nat
  BY LenProperties DEF SamePast
<1> HIDE DEF a, b
<1>3. ASSUME NEW i \in 1 .. m PROVE a[i] = b[i]
  <2>1. i - 1 \in 0 .. n /\ i \in 1 .. Len(s) + 1 /\ i \in 1 .. Len(t) + 1
    BY <1>2
  <2>2. Point(d, s, i - 1) = Point(d, t, i - 1)
    BY <2>1, SamePastPoint
  <2>3. ContentsOf(d, s)[i] = Point(d, s, i - 1)
    BY <2>1, ContentsAre
  <2>4. ContentsOf(d, t)[i] = Point(d, t, i - 1)
    BY <2>1, ContentsAre
  <2> QED BY <2>2, <2>3, <2>4 DEF a, b
<1>4. m \in Nat /\ m <= Len(a) /\ m <= Len(b)
  BY <1>1, <1>2
<1> HIDE DEF m
<1>5. SubSeq(b, 1, m) = SubSeq(a, 1, m)
  <2>1. \A i \in 1 .. m : b[i] = a[i]
    BY <1>3
  <2> QED BY <1>1, <1>4, <2>1, SamePrefix
<1>6. Len(b) >= n + 1
  BY <1>1, <1>2
<1> QED BY <1>5, <1>6 DEF a, b, m

\* The variables of the timeline, of this step and the next.
LEMMA TimelineIs ==
  /\ Contents = ContentsOf(base, h.entries)
  /\ Contents' = ContentsOf(base', h'.entries)
BY DEF Contents, ContentsOf, Point

LEMMA TruthfulIs ==
  ASSUME EditInv
  PROVE  Timeline!Truthful
<1>1. /\ base \in Content /\ h \in HistoryType /\ doc = Point(base, h.entries, h.position)
      /\ h.position \in Nat /\ Len(h.entries) \in Nat /\ h.position <= Len(h.entries)
      /\ h.entries \in Seq(EntryType)
  BY LenProperties DEF EditInv, TypeOK, HistoryType, TimelineInv, Led, Explained
<1>2. h.position + 1 \in 1 .. Len(h.entries) + 1 /\ (h.position + 1) - 1 = h.position
  BY <1>1
<1>3. ContentsOf(base, h.entries)[h.position + 1] = Point(base, h.entries, h.position)
  <2> DEFINE i == h.position + 1
  <2>1. i \in 1 .. Len(h.entries) + 1 /\ i - 1 = h.position
    BY <1>2
  <2> HIDE DEF i
  <2>2. ContentsOf(base, h.entries)[i] = Point(base, h.entries, i - 1)
    BY <1>1, <2>1, ContentsAre
  <2> QED BY <2>1, <2>2 DEF i
<1>4. doc = Contents[h.position + 1]
  BY <1>1, <1>3, TimelineIs
<1>5. CleanMeansSaved
  BY ExplainedMeans DEF EditInv
<1> QED BY <1>4, <1>5 DEF Timeline!Truthful, CleanMeansSaved

\* A change of the history extends the timeline.
LEMMA ExtendedIs ==
  ASSUME base \in Content, base' = base, h \in HistoryType, h' \in HistoryType,
         NEW n \in Nat, Extended(h, h', n)
  PROVE  Timeline!Extend(n)
<1>1. /\ h.entries \in Seq(EntryType) /\ h'.entries \in Seq(EntryType)
      /\ h.position \in Nat /\ Len(h'.entries) \in Nat
      /\ h'.position = Len(h'.entries)
  BY LenProperties DEF HistoryType, Extended
<1>2. PICK kept \in Nat : /\ kept \in h.position - 1 .. h.position
                          /\ SamePast(h.entries, h'.entries, kept)
                          /\ Len(h'.entries) \in kept .. kept + n
  BY DEF Extended
<1>3. Len(Contents') = Len(h'.entries) + 1
  BY <1>1, TimelineIs, ContentsAre
<1>4. /\ Len(Contents') >= kept + 1
      /\ SubSeq(Contents', 1, kept + 1) = SubSeq(Contents, 1, kept + 1)
  BY <1>1, <1>2, TimelineIs, ContentsPast
<1>5. Timeline!PastIsKept(kept + 1)
  BY <1>4 DEF Timeline!PastIsKept
<1>6. kept + 1 \in (h.position + 1) - 1 .. h.position + 1
  BY <1>1, <1>2
<1>7. Len(Contents') \in kept + 1 .. (kept + 1) + n
  BY <1>1, <1>2, <1>3
<1>8. h'.position + 1 = Len(Contents')
  BY <1>1, <1>3
<1> QED BY <1>5, <1>6, <1>7, <1>8 DEF Timeline!Extend

\* The content of a write under way, for the timeline.
Saving == IF SavePending /\ write.current THEN write.content ELSE NoFile

LEMMA SavingIs ==
  ASSUME TypeOK
  PROVE  Saving # NoFile <=> SavePending /\ write.current
<1>1. ASSUME SavePending PROVE write.content # NoFile
  <2>1. write.content \in [Slots -> Values]
    BY <1>1 DEF SavePending, TypeOK, WriteType, Content
  <2>2. Slots # {}
    BY SlotsOfFields
  <2> QED BY <2>1, <2>2 DEF NoFile
<1> QED BY <1>1 DEF Saving

\* A step that changes neither the history, nor the content, nor the files.
LEMMA TimelineStands ==
  ASSUME base' = base, file' = file, Saving' = Saving, doc' = doc,
         h'.entries = h.entries, h'.position = h.position, h'.saved = h.saved
  PROVE  UNCHANGED Timeline!vars
<1>1. Contents' = Contents
  BY TimelineIs
<1>2. Dirty(h)' = Dirty(h)
  BY DEF Dirty
<1> QED BY <1>1, <1>2 DEF Timeline!vars, Saving

LEMMA GrownStep ==
  ASSUME EditInv, EditInv', Grown(3), UNCHANGED <<write, file, base>>
  PROVE  [Timeline!Next]_(Timeline!vars)
<1>0. /\ base \in Content /\ h \in HistoryType /\ h' \in HistoryType
      /\ Explained(h, doc) /\ Explained(h, doc)' /\ Saving' = Saving
  BY DEF EditInv, TypeOK, TimelineInv, Led, Saving, SavePending
<1>1. CASE h' = h
  <2>1. doc' = doc
    BY <1>0, <1>1 DEF Explained
  <2> QED BY <1>0, <1>1, <2>1, TimelineStands
<1>2. CASE Extended(h, h', 3)
  <2>1. Timeline!Extend(3)
    BY <1>0, <1>2, ExtendedIs
  <2>2. Timeline!Change
    BY <1>0, <2>1 DEF Timeline!Change, Saving
  <2>3. Timeline!Truthful'
    BY TruthfulIs, PTL
  <2> QED BY <2>2, <2>3 DEF Timeline!Next
<1> QED BY <1>1, <1>2 DEF Grown

LEMMA UndoStep ==
  ASSUME NoText, EditInv, EditInv', Undo
  PROVE  [Timeline!Next]_(Timeline!vars)
<1>0. /\ base \in Content /\ h \in HistoryType /\ h' \in HistoryType /\ TypeOK /\ Led
      /\ UNCHANGED <<write, file, base>>
  BY DEF EditInv, TypeOK, TimelineInv, Led, Undo
<1>1. CASE Grown(3)
  BY <1>0, <1>1, GrownStep
<1>2. CASE h'.position \in 0 .. h.position /\ SamePast(h.entries, h'.entries, h'.position)
  <2>1. /\ h.entries \in Seq(EntryType) /\ h'.entries \in Seq(EntryType)
        /\ h.position \in Nat /\ h'.position \in Nat
    BY <1>0 DEF HistoryType
  <2>2. /\ Len(Contents') >= h'.position + 1
        /\ SubSeq(Contents', 1, h'.position + 1) = SubSeq(Contents, 1, h'.position + 1)
    BY <1>0, <1>2, <2>1, TimelineIs, ContentsPast
  <2>3. Timeline!PastIsKept(h'.position + 1)
    BY <2>2 DEF Timeline!PastIsKept
  <2>4. h'.position + 1 \in 1 .. h.position + 1
    BY <1>2, <2>1
  <2>5. Timeline!Undo
    BY <1>0, <2>3, <2>4 DEF Timeline!Undo, SavePending
  <2>6. Timeline!Truthful'
    BY TruthfulIs, PTL
  <2> QED BY <2>5, <2>6 DEF Timeline!Next
<1> QED BY <1>0, <1>1, <1>2, UndoExplained

LEMMA RedoStep ==
  ASSUME NoText, EditInv, EditInv', Redo
  PROVE  [Timeline!Next]_(Timeline!vars)
<1>0. /\ base \in Content /\ h \in HistoryType /\ h' \in HistoryType /\ TypeOK /\ Led
      /\ UNCHANGED <<write, file, base>>
  BY DEF EditInv, TypeOK, TimelineInv, Led, Redo
<1>1. CASE Grown(3)
  BY <1>0, <1>1, GrownStep
<1>2. CASE h'.entries = h.entries /\ h'.position \in h.position .. Len(h.entries)
  <2>1. /\ h.entries \in Seq(EntryType) /\ h.position \in Nat /\ h'.position \in Nat
        /\ Len(h.entries) \in Nat
    BY <1>0, LenProperties DEF HistoryType
  <2>2. Contents' = Contents /\ Len(Contents) = Len(h.entries) + 1
    BY <1>0, <1>2, <2>1, TimelineIs, ContentsAre
  <2>3. h'.position + 1 \in h.position + 1 .. Len(Contents)
    BY <1>2, <2>1, <2>2
  <2>4. Timeline!Redo
    BY <1>0, <2>2, <2>3 DEF Timeline!Redo, SavePending
  <2>5. Timeline!Truthful'
    BY TruthfulIs, PTL
  <2> QED BY <2>4, <2>5 DEF Timeline!Next
<1> QED BY <1>0, <1>1, <1>2, RedoExplained

LEMMA StartSaveStep ==
  ASSUME NoText, EditInv, EditInv', StartSave
  PROVE  [Timeline!Next]_(Timeline!vars)
<1>0. /\ base \in Content /\ h \in HistoryType /\ h' \in HistoryType /\ TypeOK /\ Led
      /\ UNCHANGED <<file, base>> /\ ~SavePending
  BY DEF EditInv, TypeOK, TimelineInv, Led, StartSave
<1>1. Saving = NoFile
  BY <1>0 DEF Saving
<1>2. Saving' = doc'
  <2>1. write' = [position |-> Flushed.l.position, content |-> doc', current |-> TRUE,
                  prefix |-> SubSeq(Flushed.l.entries, 1, Flushed.l.position)]
    BY DEF StartSave
  <2>2. write'.position # -1
    <3>1. Flushed.l.position \in Nat
      BY <1>0, FlushedTyped DEF HistoryType
    <3> QED BY <2>1, <3>1
  <2>3. write' # NoWrite
    BY <2>2 DEF NoWrite
  <2> QED BY <2>1, <2>3 DEF Saving, SavePending
<1>3. UNCHANGED <<Contents, h.position + 1>> \/ Timeline!Extend(1)
  <2>1. CASE h'.entries = h.entries /\ h'.position = h.position
    BY <1>0, <2>1, TimelineIs
  <2>2. CASE Extended(h, h', 1)
    BY <1>0, <2>2, ExtendedIs
  <2> QED BY <1>0, <2>1, <2>2, StartSaveExplained
<1>4. Timeline!Save
  BY <1>0, <1>1, <1>2, <1>3 DEF Timeline!Save, Saving
<1>5. Timeline!Truthful'
  BY TruthfulIs, PTL
<1> QED BY <1>4, <1>5 DEF Timeline!Next

LEMMA WrittenStep ==
  ASSUME EditInv, EditInv', Written \/ WriteFailed
  PROVE  [Timeline!Next]_(Timeline!vars)
<1>0. /\ TypeOK /\ write' = NoWrite /\ UNCHANGED <<doc, base>>
      /\ h'.entries = h.entries /\ h'.position = h.position
  BY DEF EditInv, TypeOK, HistoryType, Written, WriteFailed
<1>1. Contents' = Contents /\ h'.position + 1 = h.position + 1 /\ Saving' = NoFile
  BY <1>0, TimelineIs DEF Saving, SavePending
<1>2. Timeline!Truthful'
  BY TruthfulIs, PTL
<1>3. CASE Saving # NoFile
  <2>1. SavePending /\ write.current /\ Saving = write.content
    BY <1>0, <1>3, SavingIs DEF Saving
  <2>2. CASE Written
    <3>1. file' = Saving
      BY <2>1, <2>2 DEF Written
    <3>2. Timeline!Saved
      BY <1>1, <1>3, <3>1 DEF Timeline!Saved, Saving
    <3> QED BY <1>2, <3>2 DEF Timeline!Next
  <2>3. CASE WriteFailed
    <3>1. file' = file
      BY <2>3 DEF WriteFailed
    <3>2. Timeline!SaveFailed
      BY <1>1, <1>3, <3>1 DEF Timeline!SaveFailed, Saving
    <3> QED BY <1>2, <3>2 DEF Timeline!Next
  <2> QED BY <2>2, <2>3
<1>4. CASE Saving = NoFile
  <2>1. file' = file /\ h' = h
    <3>1. CASE WriteFailed
      BY <3>1 DEF WriteFailed
    <3>2. CASE Written
      <4>1. ~write.current
        BY <1>0, <1>4, <3>2, SavingIs DEF Written
      <4> QED BY <3>2, <4>1 DEF Written
    <3> QED BY <3>1, <3>2
  <2> QED BY <1>0, <1>1, <1>4, <2>1, TimelineStands
<1> QED BY <1>3, <1>4

LEMMA LoadStep ==
  ASSUME EditInv, EditInv', NEW v \in Start, NEW adjusted \in BOOLEAN, Load(v, adjusted)
  PROVE  [Timeline!Next]_(Timeline!vars)
<1>1. h'.entries = <<>> /\ h'.position = 0 /\ base' \in Content
  BY DEF Load, EditInv, TypeOK
<1>2. Len(Contents') = 1
  <2>1. <<>> \in Seq(EntryType) /\ Len(<<>>) = 0
    BY EmptySeq
  <2>2. Len(ContentsOf(base', <<>>)) = 0 + 1
    BY <1>1, <2>1, ContentsAre
  <2> QED BY <1>1, <2>2, TimelineIs
<1>3. Saving' = NoFile
  <2>1. CASE SavePending
    <3>1. write \in [position : Nat, content : Content, current : BOOLEAN,
                    prefix : Seq(EntryType)]
      BY <2>1 DEF SavePending, EditInv, TypeOK, WriteType
    <3>2. write' = [write EXCEPT !.current = FALSE]
      BY <2>1 DEF Load
    <3> QED BY <3>1, <3>2 DEF Saving
  <2>2. CASE ~SavePending
    BY <2>2 DEF Load, SavePending, Saving
  <2> QED BY <2>1, <2>2
<1>4. Timeline!Load
  BY <1>1, <1>2, <1>3 DEF Timeline!Load, Saving
<1>5. Timeline!Truthful'
  BY TruthfulIs, PTL
<1> QED BY <1>4, <1>5 DEF Timeline!Next

\* A window of dropdowns and switches implements a timeline of contents: undo
\* and redo bring back exactly what was there, an edit changes no more of the
\* past than its newest entry, and "unmodified" is always true of the file.
THEOREM ImplementsTimeline ==
  ASSUME NoText
  PROVE  Spec => IsTimeline
<1>1. Init => Timeline!Init
  <2> SUFFICES ASSUME Init PROVE Timeline!Init
    OBVIOUS
  <2>1. EditInv /\ h.entries = <<>> /\ h.position = 0 /\ write = NoWrite /\ base \in Content
    <3>1. EditInv
      BY EditInvHolds
    <3> QED BY <3>1 DEF EditInv, TimelineInv, Led, Init
  <2>2. Len(Contents) = 1
    <3>1. <<>> \in Seq(EntryType) /\ Len(<<>>) = 0
      BY EmptySeq
    <3>2. Len(ContentsOf(base, <<>>)) = 0 + 1
      BY <2>1, <3>1, ContentsAre
    <3> QED BY <2>1, <3>2, TimelineIs
  <2> QED BY <2>1, <2>2, TruthfulIs DEF Timeline!Init, SavePending
<1>2. EditInv /\ EditInv' /\ [Next]_vars => [Timeline!Next]_(Timeline!vars)
  <2> SUFFICES ASSUME EditInv, EditInv', [Next]_vars
               PROVE  [Timeline!Next]_(Timeline!vars)
    OBVIOUS
  <2>0. TypeOK /\ Led
    BY DEF EditInv, TimelineInv
  <2>1. CASE Edit \/ Refresh \/ PrepareOutput
    <3>1. Grown(3) /\ UNCHANGED <<write, file, base>>
      BY <2>0, <2>1, EditExplained, EditSaved
    <3> QED BY <3>1, GrownStep
  <2>2. CASE UNCHANGED vars
    <3>1. Saving' = Saving
      BY <2>2 DEF vars, Saving, SavePending
    <3> QED BY <2>2, <3>1, TimelineStands DEF vars
  <2>3. CASE Undo
    BY <2>3, UndoStep
  <2>4. CASE Redo
    BY <2>4, RedoStep
  <2>5. CASE StartSave
    BY <2>5, StartSaveStep
  <2>6. CASE Written \/ WriteFailed
    BY <2>6, WrittenStep
  <2>7. CASE \E v \in Start, adjusted \in BOOLEAN : Load(v, adjusted)
    BY <2>7, LoadStep
  <2> QED BY <2>1, <2>2, <2>3, <2>4, <2>5, <2>6, <2>7 DEF Next
<1>3. Init /\ [][Next]_vars => Timeline!Init /\ [][Timeline!Next]_(Timeline!vars)
  BY <1>1, <1>2, EditInvHolds, PTL
<1> QED BY <1>3, PTL DEF Spec, IsTimeline, Timeline!Spec
=============================================================================
