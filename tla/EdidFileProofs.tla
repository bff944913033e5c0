---------------------------- MODULE EdidFileProofs ----------------------------
(***************************************************************************)
(* What EdidFile promises, proved for every set of EDIDs, every capacity   *)
(* and every number of descriptors: the groups keep their order and        *)
(* offsets, fit the extension, and what is written opens again.            *)
(***************************************************************************)
EXTENDS EdidFile, GroupArrayProofs, FiniteSetTheorems

Size == Nat \ {0}

\* The groups of an extension.
GroupKinds == {"data", "override", "timing", "dark"}
Placed == [kind : GroupKinds, size : Size, count : Nat, at : Offset]

\* No timing in front of a data block.
InOrder(gs) ==
  \A i, j \in 1 .. Len(gs) : IsTiming(gs[i]) /\ IsData(gs[j]) => j < i

\* The groups of an array, in order and where their bytes are.
Arranged(gs) == gs \in Seq(Placed) /\ OffsetsFrom(gs, HeaderSize) /\ InOrder(gs)

LEMMA HeaderIs == HeaderSize \in Nat /\ HeaderSize \in Offset /\ HeaderSize > 0
BY DEF HeaderSize, Offset

LEMMA PlacedGroups == Groups(Placed) /\ Sized(Placed)
<1>1. ASSUME NEW g \in Placed, NEW at \in Offset
      PROVE  At(g, at) \in Placed /\ At(g, at).size = g.size /\ At(g, at).at = at
  BY <1>1 DEF At, Placed
<1>2. ASSUME NEW g \in Placed PROVE g.size \in Nat /\ g.at \in Offset
  BY <1>2 DEF Placed, Size
<1> QED BY <1>1, <1>2 DEF Groups, Sized

\* At another offset a group is the same in all the rest.
Alike(h, g) == h.kind = g.kind /\ h.size = g.size /\ h.count = g.count

LEMMA SameIsAlike ==
  ASSUME NEW g \in Placed, NEW h, Same(h, g)
  PROVE  h \in Placed /\ Alike(h, g)
BY DEF Same, At, Placed, Alike

LEMMA KindIs ==
  ASSUME NEW g \in Placed
  PROVE  /\ IsTiming(g) \/ IsData(g)
         /\ ~(IsTiming(g) /\ IsData(g))
         /\ \A h : Alike(h, g) => (IsTiming(h) <=> IsTiming(g)) /\ (IsData(h) <=> IsData(g))
BY DEF Placed, GroupKinds, IsTiming, IsData, Alike

LEMMA ArrangedIs ==
  ASSUME NEW gs, Arranged(gs)
  PROVE  /\ gs \in Seq(Placed) /\ Len(gs) \in Nat /\ DOMAIN gs = 1 .. Len(gs)
         /\ \A i \in 1 .. Len(gs) : gs[i] \in Placed /\ gs[i].size \in Size /\ gs[i].size \in Nat
         /\ \A i \in 1 .. Len(gs) : IsTiming(gs[i]) <=> ~IsData(gs[i])
         /\ TotalSize(gs) \in Nat
<1>1. gs \in Seq(Placed)
  BY DEF Arranged
<1>2. Len(gs) \in Nat /\ DOMAIN gs = 1 .. Len(gs) /\ \A i \in 1 .. Len(gs) : gs[i] \in Placed
  BY <1>1, LenProperties, ElementOfSeq
<1>3. TotalSize(gs) \in Nat
  BY <1>1, PlacedGroups, UptoSteps
<1>4. \A g \in Placed : g.size \in Size /\ g.size \in Nat
  BY DEF Placed, Size
<1> QED BY <1>1, <1>2, <1>3, <1>4, KindIs

(***************************************************************************)
(* What the array operations keep.                                         *)
(***************************************************************************)
\* A group behind item i, on the right side of the timings.
Suits(gs, i, g) ==
  /\ IsTiming(g) => \A j \in i + 1 .. Len(gs) : IsTiming(gs[j])
  /\ IsData(g) => \A j \in 1 .. i : IsData(gs[j])

LEMMA InsertKeeps ==
  ASSUME NEW gs, Arranged(gs), NEW i \in 0 .. Len(gs), NEW g \in Placed, Suits(gs, i, g)
  PROVE  LET r == BaseInsertDn(gs, HeaderSize, i, g)
         IN  /\ Arranged(r) /\ TotalSize(r) = TotalSize(gs) + g.size
             /\ Len(r) = Len(gs) + 1
             /\ \A j \in 1 .. i : r[j] = gs[j]
             /\ Alike(r[i + 1], g)
             /\ \A j \in i + 1 .. Len(gs) : Alike(r[j + 1], gs[j])
<1> DEFINE r == BaseInsertDn(gs, HeaderSize, i, g)
           n == Len(gs)
<1>1. /\ gs \in Seq(Placed) /\ n \in Nat /\ OffsetsFrom(gs, HeaderSize) /\ InOrder(gs)
      /\ \A j \in 1 .. n : gs[j] \in Placed
  BY ArrangedIs DEF Arranged
<1>2. /\ r \in Seq(Placed) /\ Len(r) = Len(gs) + 1
      /\ \A j \in 1 .. i : r[j] = gs[j]
      /\ Same(r[i + 1], g)
      /\ \A j \in i + 2 .. Len(gs) + 1 : Same(r[j], gs[j - 1])
      /\ TotalSize(r) = TotalSize(gs) + g.size
      /\ OffsetsFrom(gs, HeaderSize) => OffsetsFrom(r, HeaderSize)
  BY <1>1, PlacedGroups, HeaderIs, BaseInsertDnIs
<1> HIDE DEF r
<1>3. Alike(r[i + 1], g)
  BY <1>2, SameIsAlike
<1>4. ASSUME NEW j \in i + 1 .. n PROVE Alike(r[j + 1], gs[j])
  <2>1. j + 1 \in i + 2 .. n + 1 /\ j + 1 - 1 = j /\ j \in 1 .. n
    BY <1>1
  <2> QED BY <1>1, <1>2, <2>1, SameIsAlike
<1>5. ASSUME NEW j \in 1 .. n + 1
      PROVE  \/ j \in 1 .. i /\ r[j] = gs[j] /\ j \in 1 .. n
             \/ j = i + 1 /\ (IsTiming(r[j]) <=> IsTiming(g)) /\ (IsData(r[j]) <=> IsData(g))
             \/ /\ j \in i + 2 .. n + 1 /\ j - 1 \in i + 1 .. n /\ j - 1 \in 1 .. n
                /\ (IsTiming(r[j]) <=> IsTiming(gs[j - 1])) /\ (IsData(r[j]) <=> IsData(gs[j - 1]))
  <2>1. CASE j \in 1 .. i
    BY <1>1, <1>2, <2>1
  <2>2. CASE j = i + 1
    BY <1>3, <2>2, KindIs
  <2>3. CASE j \in i + 2 .. n + 1
    <3>1. j - 1 \in i + 1 .. n /\ j - 1 \in 1 .. n /\ j - 1 + 1 = j
      BY <1>1, <2>3
    <3>2. Alike(r[j], gs[j - 1]) /\ gs[j - 1] \in Placed
      BY <1>1, <1>4, <3>1
    <3> QED BY <2>3, <3>1, <3>2, KindIs
  <2> QED BY <1>1, <2>1, <2>2, <2>3
<1>6. InOrder(r)
  <2> SUFFICES ASSUME NEW j \in 1 .. n + 1, NEW k \in 1 .. n + 1, IsTiming(r[j]), IsData(r[k])
               PROVE  k < j
    BY <1>2 DEF InOrder
  <2>1. ~(IsTiming(g) /\ IsData(g)) /\ \A m \in 1 .. n : ~(IsTiming(gs[m]) /\ IsData(gs[m]))
    BY <1>1, KindIs
  <2>2. \A m, l \in 1 .. n : IsTiming(gs[m]) /\ IsData(gs[l]) => l < m
    BY <1>1 DEF InOrder
  <2>3. CASE j \in 1 .. i /\ r[j] = gs[j] /\ j \in 1 .. n
    <3>1. CASE k \in 1 .. i /\ r[k] = gs[k] /\ k \in 1 .. n
      BY <2>2, <2>3, <3>1
    <3>2. CASE k = i + 1 /\ (IsTiming(r[k]) <=> IsTiming(g)) /\ (IsData(r[k]) <=> IsData(g))
      BY <2>1, <2>3, <3>2 DEF Suits
    <3>3. CASE /\ k \in i + 2 .. n + 1 /\ k - 1 \in i + 1 .. n /\ k - 1 \in 1 .. n
               /\ (IsTiming(r[k]) <=> IsTiming(gs[k - 1])) /\ (IsData(r[k]) <=> IsData(gs[k - 1]))
      <4>1. k - 1 < j
        BY <2>2, <2>3, <3>3
      <4> QED BY <1>1, <2>3, <3>3, <4>1
    <3> QED BY <1>5, <3>1, <3>2, <3>3
  <2>4. CASE j = i + 1 /\ (IsTiming(r[j]) <=> IsTiming(g)) /\ (IsData(r[j]) <=> IsData(g))
    <3>1. CASE k \in 1 .. i
      BY <1>1, <2>4, <3>1
    <3>2. CASE k = i + 1
      BY <2>1, <2>4, <3>2
    <3>3. CASE /\ k \in i + 2 .. n + 1 /\ k - 1 \in i + 1 .. n /\ k - 1 \in 1 .. n
               /\ (IsTiming(r[k]) <=> IsTiming(gs[k - 1])) /\ (IsData(r[k]) <=> IsData(gs[k - 1]))
      BY <2>1, <2>4, <3>3 DEF Suits
    <3> QED BY <1>5, <3>1, <3>2, <3>3
  <2>5. CASE /\ j \in i + 2 .. n + 1 /\ j - 1 \in i + 1 .. n /\ j - 1 \in 1 .. n
             /\ (IsTiming(r[j]) <=> IsTiming(gs[j - 1])) /\ (IsData(r[j]) <=> IsData(gs[j - 1]))
    <3>1. CASE k \in 1 .. i \/ k = i + 1
      BY <1>1, <2>5, <3>1
    <3>2. CASE /\ k \in i + 2 .. n + 1 /\ k - 1 \in i + 1 .. n /\ k - 1 \in 1 .. n
               /\ (IsTiming(r[k]) <=> IsTiming(gs[k - 1])) /\ (IsData(r[k]) <=> IsData(gs[k - 1]))
      <4>1. k - 1 < j - 1
        BY <2>2, <2>5, <3>2
      <4> QED BY <1>1, <2>5, <3>2, <4>1
    <3> QED BY <1>5, <3>1, <3>2
  <2> QED BY <1>5, <2>3, <2>4, <2>5
<1>7. Arranged(r)
  BY <1>1, <1>2, <1>6 DEF Arranged
<1> QED BY <1>2, <1>3, <1>4, <1>7 DEF r

LEMMA CutKeeps ==
  ASSUME NEW gs, Arranged(gs), NEW i \in 1 .. Len(gs)
  PROVE  LET r == BaseCut(gs, i)
         IN  /\ Arranged(r) /\ TotalSize(r) = TotalSize(gs) - gs[i].size
             /\ Len(r) = Len(gs) - 1
             /\ \A j \in 1 .. i - 1 : r[j] = gs[j]
             /\ \A j \in i .. Len(gs) - 1 : Alike(r[j], gs[j + 1])
<1> DEFINE r == BaseCut(gs, i)
           n == Len(gs)
<1>1. /\ gs \in Seq(Placed) /\ n \in Nat /\ OffsetsFrom(gs, HeaderSize) /\ InOrder(gs)
      /\ \A j \in 1 .. n : gs[j] \in Placed
  BY ArrangedIs DEF Arranged
<1>2. /\ r \in Seq(Placed) /\ Len(r) = Len(gs) - 1
      /\ \A j \in 1 .. i - 1 : r[j] = gs[j]
      /\ \A j \in i .. Len(gs) - 1 : Same(r[j], gs[j + 1])
      /\ TotalSize(r) = TotalSize(gs) - gs[i].size
      /\ \A header \in Nat : OffsetsFrom(gs, header) => OffsetsFrom(r, header)
  BY <1>1, PlacedGroups, BaseCutIs
<1> HIDE DEF r
<1>3. ASSUME NEW j \in i .. n - 1 PROVE Alike(r[j], gs[j + 1])
  <2>1. j + 1 \in 1 .. n
    BY <1>1
  <2> QED BY <1>1, <1>2, <2>1, SameIsAlike
<1>4. ASSUME NEW j \in 1 .. n - 1
      PROVE  LET k == IF j < i THEN j ELSE j + 1
             IN  k \in 1 .. n /\ (IsTiming(r[j]) => IsTiming(gs[k])) /\ (IsData(r[j]) => IsData(gs[k]))
  <2>1. CASE j < i
    <3>1. j \in 1 .. i - 1 /\ j \in 1 .. n
      BY <1>1, <2>1
    <3> QED BY <1>2, <2>1, <3>1
  <2>2. CASE j >= i
    <3>1. j \in i .. n - 1 /\ j + 1 \in 1 .. n /\ ~(j < i)
      BY <1>1, <2>2
    <3>2. Alike(r[j], gs[j + 1]) /\ gs[j + 1] \in Placed
      BY <1>1, <1>3, <3>1
    <3> QED BY <3>1, <3>2, KindIs
  <2> QED BY <1>1, <2>1, <2>2
<1>5. InOrder(r)
  <2> SUFFICES ASSUME NEW j \in 1 .. n - 1, NEW k \in 1 .. n - 1, IsTiming(r[j]), IsData(r[k])
               PROVE  k < j
    BY <1>2 DEF InOrder
  <2> DEFINE from(m) == IF m < i THEN m ELSE m + 1
  <2>1. from(j) \in 1 .. n /\ IsTiming(gs[from(j)]) /\ from(k) \in 1 .. n /\ IsData(gs[from(k)])
    BY <1>4
  <2>2. from(k) < from(j)
    BY <1>1, <2>1 DEF InOrder
  <2> QED BY <1>1, <2>2
<1>6. Arranged(r)
  BY <1>1, <1>2, <1>5, HeaderIs DEF Arranged
<1> QED BY <1>2, <1>3, <1>6 DEF r

LEMMA MoveKeeps ==
  ASSUME NEW gs, Arranged(gs), NEW i \in 1 .. Len(gs) - 1,
         ~(IsData(gs[i]) /\ IsTiming(gs[i + 1]))
  PROVE  LET r == BaseMoveDn(gs, i)
         IN  Arranged(r) /\ TotalSize(r) = TotalSize(gs) /\ Len(r) = Len(gs)
<1> DEFINE r == BaseMoveDn(gs, i)
           n == Len(gs)
<1>1. /\ gs \in Seq(Placed) /\ n \in Nat /\ OffsetsFrom(gs, HeaderSize) /\ InOrder(gs)
      /\ \A j \in 1 .. n : gs[j] \in Placed
  BY ArrangedIs DEF Arranged
<1>2. /\ r \in Seq(Placed) /\ Len(r) = Len(gs)
      /\ Same(r[i], gs[i + 1]) /\ Same(r[i + 1], gs[i])
      /\ \A j \in 1 .. Len(gs) : j # i /\ j # i + 1 => Same(r[j], gs[j])
      /\ TotalSize(r) = TotalSize(gs)
      /\ \A header \in Nat : OffsetsFrom(gs, header) => OffsetsFrom(r, header)
  BY <1>1, PlacedGroups, BaseMoveDnIs
<1> HIDE DEF r
<1>3. ASSUME NEW j \in 1 .. n
      PROVE  LET k == IF j = i THEN i + 1 ELSE IF j = i + 1 THEN i ELSE j
             IN  k \in 1 .. n /\ (IsTiming(r[j]) => IsTiming(gs[k])) /\ (IsData(r[j]) => IsData(gs[k]))
  <2> DEFINE k == IF j = i THEN i + 1 ELSE IF j = i + 1 THEN i ELSE j
  <2>1. k \in 1 .. n /\ Same(r[j], gs[k])
    BY <1>1, <1>2
  <2> HIDE DEF k
  <2>2. Alike(r[j], gs[k]) /\ gs[k] \in Placed
    BY <1>1, <2>1, SameIsAlike
  <2>3. (IsTiming(r[j]) => IsTiming(gs[k])) /\ (IsData(r[j]) => IsData(gs[k]))
    BY <2>2, KindIs
  <2> QED BY <2>1, <2>3 DEF k
<1>4. InOrder(r)
  <2> SUFFICES ASSUME NEW j \in 1 .. n, NEW k \in 1 .. n, IsTiming(r[j]), IsData(r[k])
               PROVE  k < j
    BY <1>2 DEF InOrder
  <2> DEFINE from(m) == IF m = i THEN i + 1 ELSE IF m = i + 1 THEN i ELSE m
  <2>1. from(j) \in 1 .. n /\ IsTiming(gs[from(j)]) /\ from(k) \in 1 .. n /\ IsData(gs[from(k)])
    BY <1>3
  <2>2. from(k) < from(j)
    BY <1>1, <2>1 DEF InOrder
  <2>3. ~(j = i /\ k = i + 1)
    BY <2>1, <2>2, <1>1
  <2>4. ~(from(k) = i /\ from(j) = i + 1)
    BY <2>1
  <2> QED BY <1>1, <2>2, <2>3, <2>4
<1>5. Arranged(r)
  BY <1>1, <1>2, <1>4, HeaderIs DEF Arranged
<1> QED BY <1>2, <1>5 DEF r

\* A data block in the place of another.
LEMMA ReplaceKeeps ==
  ASSUME NEW gs, Arranged(gs), NEW i \in 1 .. Len(gs), IsData(gs[i]), NEW g \in Placed, IsData(g)
  PROVE  LET r == Replaced(gs, i, g)
         IN  /\ Arranged(r) /\ TotalSize(r) = TotalSize(gs) - gs[i].size + g.size
             /\ Len(r) = Len(gs) /\ Alike(r[i], g)
<1> DEFINE c == BaseCut(gs, i)
           r == BaseInsertDn(c, HeaderSize, i - 1, g)
<1>1. Replaced(gs, i, g) = r
  BY DEF Replaced
<1>2. /\ Len(gs) \in Nat /\ TotalSize(gs) \in Nat /\ g.size \in Nat /\ gs[i].size \in Nat
      /\ \A j \in 1 .. Len(gs) : IsTiming(gs[j]) <=> ~IsData(gs[j])
  BY ArrangedIs DEF Placed, Size
<1>3. /\ Arranged(c) /\ TotalSize(c) = TotalSize(gs) - gs[i].size
      /\ Len(c) = Len(gs) - 1
      /\ \A j \in 1 .. i - 1 : c[j] = gs[j]
  BY CutKeeps
<1> HIDE DEF c
<1>4. i - 1 \in 0 .. Len(c) /\ i - 1 + 1 = i
  BY <1>2, <1>3
<1>5. Suits(c, i - 1, g)
  <2>1. ~IsTiming(g)
    BY KindIs
  <2>2. ASSUME NEW j \in 1 .. i - 1 PROVE IsData(c[j])
    <3>1. c[j] = gs[j] /\ j \in 1 .. Len(gs) /\ j < i
      BY <1>2, <1>3
    <3>2. ~IsTiming(gs[j])
      BY <3>1, <1>2 DEF Arranged, InOrder
    <3> QED BY <1>2, <3>1, <3>2
  <2> QED BY <2>1, <2>2 DEF Suits
<1>6. /\ Arranged(r) /\ TotalSize(r) = TotalSize(c) + g.size
      /\ Len(r) = Len(c) + 1
      /\ Alike(r[i - 1 + 1], g)
  BY <1>3, <1>4, <1>5, InsertKeeps
<1> HIDE DEF r
<1> QED BY <1>1, <1>2, <1>3, <1>4, <1>6

\* Other fields of the groups: sizes, offsets and sides stay.
LEMMA FieldsKeep ==
  ASSUME NEW gs, Arranged(gs), NEW r \in Seq(Placed), Len(r) = Len(gs),
         \A j \in 1 .. Len(gs) : /\ r[j].size = gs[j].size /\ r[j].at = gs[j].at
                                 /\ IsTiming(r[j]) <=> IsTiming(gs[j])
  PROVE  Arranged(r) /\ TotalSize(r) = TotalSize(gs)
<1>1. /\ gs \in Seq(Placed) /\ Len(gs) \in Nat /\ OffsetsFrom(gs, HeaderSize) /\ InOrder(gs)
      /\ \A j \in 1 .. Len(gs) : IsTiming(gs[j]) <=> ~IsData(gs[j])
  BY ArrangedIs DEF Arranged
<1>2. \A j \in 1 .. Len(gs) : r[j] \in Placed /\ (IsData(r[j]) => ~IsTiming(r[j]))
  BY ElementOfSeq, KindIs
<1>3. (\A n \in 0 .. Len(gs) : Upto(r, n) = Upto(gs, n)) /\ TotalSize(r) = TotalSize(gs)
  BY <1>1, PlacedGroups, SameSizes
<1>4. OffsetsFrom(r, HeaderSize)
  <2> SUFFICES ASSUME NEW j \in 1 .. Len(gs) PROVE r[j].at = HeaderSize + Upto(r, j - 1)
    BY DEF OffsetsFrom
  <2>1. j - 1 \in 0 .. Len(gs)
    BY <1>1
  <2> QED BY <1>1, <1>3, <2>1 DEF OffsetsFrom
<1>5. InOrder(r)
  BY <1>1, <1>2 DEF InOrder
<1> QED BY <1>3, <1>4, <1>5 DEF Arranged

\* A data block of another size, and the offsets behind it updated.
LEMMA ResizeKeeps ==
  ASSUME NEW gs, Arranged(gs), NEW i \in 1 .. Len(gs), IsData(gs[i]), NEW size \in Size
  PROVE  LET r == UpdateAbsOffs([gs EXCEPT ![i].size = size], i, gs[i].at)
         IN  Arranged(r) /\ TotalSize(r) = TotalSize(gs) - gs[i].size + size
<1> DEFINE g == [gs[i] EXCEPT !.size = size]
           t == [gs EXCEPT ![i] = g]
           c == RemoveAt(gs, i)
           u == InsertAt(c, i, g)
           r == UpdateAbsOffs(t, i, gs[i].at)
           n == Len(gs)
<1>1. /\ gs \in Seq(Placed) /\ n \in Nat /\ OffsetsFrom(gs, HeaderSize) /\ InOrder(gs)
      /\ \A j \in 1 .. n : gs[j] \in Placed /\ gs[j].size \in Nat
      /\ TotalSize(gs) \in Nat
      /\ \A j \in 1 .. n : IsTiming(gs[j]) <=> ~IsData(gs[j])
  BY ArrangedIs DEF Arranged
<1>2. g \in Placed /\ g.kind = gs[i].kind /\ g.size = size /\ gs[i].at \in Offset
  BY <1>1 DEF Placed
<1>3. (IsTiming(g) <=> IsTiming(gs[i])) /\ (IsData(g) <=> IsData(gs[i]))
  BY <1>2 DEF IsTiming, IsData
<1> HIDE DEF g
<1>4. /\ t \in Seq(Placed) /\ Len(t) = n
      /\ \A j \in 1 .. n : t[j] = IF j = i THEN g ELSE gs[j]
  BY <1>1, <1>2, ExceptSeq
<1>5. /\ c \in Seq(Placed) /\ Len(c) = n - 1
      /\ \A j \in 1 .. i - 1 : c[j] = gs[j]
      /\ \A j \in i .. n - 1 : c[j] = gs[j + 1]
  BY <1>1, RemoveAtIs
<1>6. /\ \A k \in 0 .. i - 1 : Upto(c, k) = Upto(gs, k)
      /\ TotalSize(c) = TotalSize(gs) - gs[i].size
  BY <1>1, PlacedGroups, RemovedSizes
<1> HIDE DEF c
<1>7. i \in 1 .. Len(c) + 1
  BY <1>1, <1>5
<1>8. /\ u \in Seq(Placed) /\ Len(u) = Len(c) + 1
      /\ \A j \in 1 .. i - 1 : u[j] = c[j]
      /\ u[i] = g
      /\ \A j \in i + 1 .. Len(c) + 1 : u[j] = c[j - 1]
  BY <1>2, <1>5, <1>7, InsertAtIs, SMTT(30)
<1>9. /\ \A k \in 0 .. i - 1 : Upto(u, k) = Upto(c, k)
      /\ TotalSize(u) = TotalSize(c) + g.size
  BY <1>2, <1>5, <1>7, PlacedGroups, InsertedSizes
<1> HIDE DEF t, u
<1>10. t = u
  <2>1. ASSUME NEW j \in 1 .. n PROVE t[j] = u[j]
    <3>1. CASE j < i
      <4>1. j \in 1 .. i - 1
        BY <1>1, <3>1
      <4> QED BY <1>4, <1>5, <1>8, <3>1, <4>1
    <3>2. CASE j = i
      BY <1>4, <1>8, <3>2
    <3>3. CASE j > i
      <4>1. j \in i + 1 .. Len(c) + 1 /\ j - 1 \in i .. n - 1 /\ j - 1 + 1 = j
        BY <1>1, <1>5, <3>3
      <4> QED BY <1>4, <1>5, <1>8, <3>3, <4>1
    <3> QED BY <1>1, <3>1, <3>2, <3>3
  <2>2. Len(t) = Len(u)
    BY <1>1, <1>4, <1>5, <1>8
  <2> QED BY <1>4, <1>8, <2>1, <2>2, SeqEqual
<1>11. /\ \A k \in 0 .. i - 1 : Upto(t, k) = Upto(gs, k)
       /\ TotalSize(t) = TotalSize(gs) - gs[i].size + size
  BY <1>1, <1>2, <1>6, <1>9, <1>10
<1>12. i \in 1 .. Len(t) + 1
  BY <1>1, <1>4
<1>13. /\ r \in Seq(Placed) /\ Len(r) = Len(t)
       /\ \A j \in 1 .. i - 1 : r[j] = t[j]
       /\ \A j \in i .. Len(t) : /\ Same(r[j], t[j])
                                 /\ gs[i].at \in Nat => r[j].at = gs[i].at + Upto(t, j - 1) - Upto(t, i - 1)
       /\ \A j \in 1 .. Len(t) : r[j].size = t[j].size
       /\ \A k \in 0 .. Len(t) : Upto(r, k) = Upto(t, k)
       /\ TotalSize(r) = TotalSize(t)
  BY <1>2, <1>4, <1>12, PlacedGroups, UpdateAbsOffsIs
<1> HIDE DEF r
<1>14. gs[i].at = HeaderSize + Upto(gs, i - 1) /\ Upto(gs, i - 1) \in Nat /\ gs[i].at \in Nat
  BY <1>1, PlacedGroups, OffsetOfIs, HeaderIs
<1>15. OffsetsFrom(r, HeaderSize)
  <2> SUFFICES ASSUME NEW j \in 1 .. n PROVE r[j].at = HeaderSize + Upto(r, j - 1)
    BY <1>4, <1>13 DEF OffsetsFrom
  <2>1. j - 1 \in 0 .. Len(t) /\ i - 1 \in 0 .. i - 1
    BY <1>1, <1>4
  <2>2. Upto(t, j - 1) \in Nat
    BY <1>4, <2>1, PlacedGroups, UptoSteps
  <2>3. CASE j < i
    <3>1. j \in 1 .. i - 1 /\ j - 1 \in 0 .. i - 1 /\ j # i
      BY <1>1, <2>3
    <3>2. r[j] = gs[j]
      BY <1>4, <1>13, <3>1
    <3> QED BY <1>1, <1>11, <1>13, <2>1, <3>1, <3>2 DEF OffsetsFrom
  <2>4. CASE j >= i
    <3>1. j \in i .. Len(t)
      BY <1>1, <1>4, <2>4
    <3>2. r[j].at = gs[i].at + Upto(t, j - 1) - Upto(t, i - 1)
      BY <1>13, <1>14, <3>1
    <3>3. Upto(t, i - 1) = Upto(gs, i - 1) /\ Upto(r, j - 1) = Upto(t, j - 1)
      BY <1>11, <1>13, <2>1
    <3> QED BY <1>14, <2>2, <3>2, <3>3, HeaderIs
  <2> QED BY <1>1, <2>3, <2>4
<1>16. ASSUME NEW j \in 1 .. n
       PROVE  (IsTiming(r[j]) <=> IsTiming(gs[j])) /\ (IsData(r[j]) <=> IsData(gs[j]))
  <2>1. (IsTiming(t[j]) <=> IsTiming(gs[j])) /\ (IsData(t[j]) <=> IsData(gs[j])) /\ t[j] \in Placed
    BY <1>1, <1>2, <1>3, <1>4
  <2>2. CASE j < i
    <3>1. j \in 1 .. i - 1
      BY <1>1, <2>2
    <3> QED BY <1>13, <2>1, <3>1
  <2>3. CASE j >= i
    <3>1. j \in i .. Len(t)
      BY <1>1, <1>4, <2>3
    <3>2. Alike(r[j], t[j])
      BY <1>13, <2>1, <3>1, SameIsAlike
    <3> QED BY <2>1, <3>2, KindIs
  <2> QED BY <1>1, <2>2, <2>3
<1>17. InOrder(r)
  BY <1>1, <1>4, <1>13, <1>16 DEF InOrder
<1>18. Arranged(r) /\ TotalSize(r) = TotalSize(gs) - gs[i].size + size
  BY <1>11, <1>13, <1>15, <1>17 DEF Arranged
<1> QED BY <1>18 DEF r, t, g

(***************************************************************************)
(* Reading and writing.                                                    *)
(***************************************************************************)
LEMMA ItemSizes == Sized(Items)
BY DEF Sized, Items

LEMMA ItemsAre ==
  ASSUME NEW img \in Images
  PROVE  /\ img.items \in Seq(Items) /\ Len(img.items) \in Nat /\ DOMAIN img.items = 1 .. Len(img.items)
         /\ \A i \in 1 .. Len(img.items) : img.items[i] \in Items /\ img.items[i].size \in Size
         /\ img.offset \in Nat /\ img.native \in Nat /\ img.timings \in 0 .. Descriptors
         /\ img.blocks \in Nat \ {0, 1} /\ img.count \in Nat
<1>1. img.items \in Seq(Items) /\ img.offset \in Nat /\ img.native \in Nat /\ img.timings \in 0 .. Descriptors
      /\ img.blocks \in Nat \ {0, 1} /\ img.count \in Nat
  BY DEF Images
<1>2. Len(img.items) \in Nat /\ DOMAIN img.items = 1 .. Len(img.items)
      /\ \A i \in 1 .. Len(img.items) : img.items[i] \in Items
  BY <1>1, LenProperties, ElementOfSeq
<1>3. \A g \in Items : g.size \in Size
  BY DEF Items, Size
<1> QED BY <1>1, <1>2, <1>3

\* The groups read are those of the first n items.
FirstOf(items, n) == [i \in 1 .. n |-> Group(items[i])]

LEMMA FirstOfIs ==
  ASSUME NEW items \in Seq(Items), NEW n \in 0 .. Len(items),
         \A i \in 1 .. n : items[i].kind # "junk"
  PROVE  LET gs == FirstOf(items, n)
         IN  /\ gs \in Seq(Placed) /\ Len(gs) = n
             /\ \A i \in 1 .. n : Alike(gs[i], items[i])
             /\ TotalSize(gs) = Upto(items, n)
<1> DEFINE gs == FirstOf(items, n)
           front == SubSeq(items, 1, n)
<1>1. /\ Len(items) \in Nat /\ n \in Nat
      /\ \A i \in 1 .. Len(items) : items[i] \in Items
  BY LenProperties, ElementOfSeq
<1>2. ASSUME NEW i \in 1 .. n PROVE Group(items[i]) \in Placed /\ Alike(Group(items[i]), items[i])
  <2>1. items[i] \in Items /\ items[i].kind # "junk"
    BY <1>1
  <2> QED BY <2>1 DEF Group, Placed, GroupKinds, Items, Kinds, Size, Offset, Alike
<1>3. /\ gs \in [1 .. n -> Placed]
      /\ \A i \in 1 .. n : gs[i] = Group(items[i])
  BY <1>2 DEF FirstOf
<1> HIDE DEF gs
<1>4. gs \in Seq(Placed) /\ Len(gs) = n
  BY <1>1, <1>3, SeqDef, LenProperties
<1>5. \A i \in 1 .. n : Alike(gs[i], items[i])
  BY <1>2, <1>3
<1>6. /\ front \in Seq(Items) /\ Len(front) = n
      /\ \A i \in 1 .. n : front[i] = items[i]
  <2>1. n \in Int /\ 1 \in Int /\ \A i \in 1 .. n : items[i] \in Items
    BY <1>1
  <2>2. /\ front \in Seq(Items) /\ Len(front) = IF 1 <= n THEN n - 1 + 1 ELSE 0
        /\ \A i \in 1 .. n - 1 + 1 : front[i] = items[1 + i - 1]
    BY <1>1, <2>1, SubSeqProperties
  <2> QED BY <1>1, <2>2
<1> HIDE DEF front
<1>7. TotalSize(gs) = TotalSize(front)
  <2>1. \A i \in 1 .. Len(front) : gs[i].size = front[i].size
    BY <1>5, <1>6 DEF Alike
  <2> QED BY <1>4, <1>6, <2>1, ItemSizes, SameSizes
<1> QED BY <1>4, <1>5, <1>7 DEF gs, front, Upto

\* Where the data blocks end and how many timings follow, as ParseEDID_CEA
\* finds them.
BlocksIn(img) ==
  LET reached == {n \in 1 .. Len(img.items) : End(img.items, n) >= img.offset}
  IN  IF img.offset <= HeaderSize THEN 0 ELSE IF reached = {} THEN -1 ELSE Min(reached)

TimingsIn(img) ==
  Max({n \in 0 .. Len(img.items) - BlocksIn(img) :
         \A i \in BlocksIn(img) + 1 .. BlocksIn(img) + n : img.items[i].kind = "timing"})

Opens(img, ignored) ==
  /\ img.offset >= HeaderSize
  /\ BlocksIn(img) >= 0
  /\ \A i \in 1 .. BlocksIn(img) : IsData(img.items[i])
  /\ ignored \/ /\ End(img.items, BlocksIn(img)) = img.offset
                /\ img.native - img.timings <= TimingsIn(img)
                /\ BlocksIn(img) + TimingsIn(img) = Len(img.items)

LEMMA ParsedCases ==
  ASSUME NEW img \in Images, NEW ignored \in BOOLEAN
  PROVE  Parsed(img, ignored) =
           IF img.offset # 0 /\ Opens(img, ignored)
           THEN [opens |-> TRUE, sized |-> TRUE,
                 groups |-> UpdateAbsOffs(FirstOf(img.items, BlocksIn(img) + TimingsIn(img)), 1, HeaderSize)]
           ELSE [opens |-> img.offset = 0, sized |-> FALSE, groups |-> <<>>]
BY Zenon DEF Parsed, Opens, BlocksIn, TimingsIn, FirstOf

LEMMA BlocksInIs ==
  ASSUME NEW img \in Images
  PROVE  BlocksIn(img) >= 0 => BlocksIn(img) \in 0 .. Len(img.items)
<1> DEFINE reached == {n \in 1 .. Len(img.items) : End(img.items, n) >= img.offset}
<1>1. Len(img.items) \in Nat
  BY ItemsAre
<1>2. reached # {} => Min(reached) \in reached
  <2>1. reached \in SUBSET Nat
    BY <1>1
  <2> HIDE DEF reached
  <2> QED BY <2>1, MinIs
<1>3. BlocksIn(img) = IF img.offset <= HeaderSize THEN 0 ELSE IF reached = {} THEN -1 ELSE Min(reached)
  BY DEF BlocksIn
<1>4. reached \subseteq 1 .. Len(img.items)
  OBVIOUS
<1> HIDE DEF reached
<1>5. CASE img.offset <= HeaderSize
  BY <1>1, <1>3, <1>5
<1>6. CASE ~(img.offset <= HeaderSize) /\ reached = {}
  <2>1. BlocksIn(img) = -1
    BY <1>3, <1>6
  <2> QED BY <2>1
<1>7. CASE ~(img.offset <= HeaderSize) /\ reached # {}
  <2>1. BlocksIn(img) \in 1 .. Len(img.items)
    BY <1>2, <1>3, <1>4, <1>7
  <2> QED BY <1>1, <2>1
<1> QED BY <1>5, <1>6, <1>7

LEMMA TimingsInIs ==
  ASSUME NEW img \in Images, BlocksIn(img) >= 0
  PROVE  LET n == TimingsIn(img)
         IN  /\ n \in 0 .. Len(img.items) - BlocksIn(img)
             /\ \A i \in BlocksIn(img) + 1 .. BlocksIn(img) + n : img.items[i].kind = "timing"
             /\ \A m \in 0 .. Len(img.items) - BlocksIn(img) :
                  (\A i \in BlocksIn(img) + 1 .. BlocksIn(img) + m : img.items[i].kind = "timing") => m <= n
<1> DEFINE blocks == BlocksIn(img)
           lit == {n \in 0 .. Len(img.items) - blocks :
                     \A i \in blocks + 1 .. blocks + n : img.items[i].kind = "timing"}
<1>1. Len(img.items) \in Nat /\ blocks \in 0 .. Len(img.items)
  BY ItemsAre, BlocksInIs
<1>2. TimingsIn(img) = Max(lit)
  BY DEF TimingsIn
<1> HIDE DEF blocks
<1>3. lit \in SUBSET Nat /\ 0 \in lit /\ \A k \in lit : k <= Len(img.items)
  BY <1>1
<1>4. Max(lit) \in lit /\ \A k \in lit : k <= Max(lit)
  <2>1. lit # {}
    BY <1>3
  <2> HIDE DEF lit
  <2> QED BY <1>1, <1>3, <2>1, MaxIs
<1>5. /\ Max(lit) \in 0 .. Len(img.items) - blocks
      /\ \A i \in blocks + 1 .. blocks + Max(lit) : img.items[i].kind = "timing"
  <2> DEFINE n == Max(lit)
  <2>1. n \in lit
    BY <1>4
  <2> HIDE DEF n
  <2>2. /\ n \in 0 .. Len(img.items) - blocks
        /\ \A i \in blocks + 1 .. blocks + n : img.items[i].kind = "timing"
    BY <2>1
  <2> QED BY <2>2 DEF n
<1>6. ASSUME NEW m \in 0 .. Len(img.items) - blocks,
             \A i \in blocks + 1 .. blocks + m : img.items[i].kind = "timing"
      PROVE  m <= Max(lit)
  <2>1. m \in lit
    BY <1>6
  <2> QED BY <1>4, <2>1
<1> QED BY <1>2, <1>5, <1>6 DEF blocks

LEMMA ReadIs ==
  ASSUME NEW img \in Images, NEW ignored \in BOOLEAN
  PROVE  LET read == Parsed(img, ignored)
         IN  /\ read.opens \in BOOLEAN /\ read.sized \in BOOLEAN
             /\ Arranged(read.groups) /\ TotalSize(read.groups) <= TotalSize(img.items)
             /\ ~read.opens => read.groups = <<>>
             /\ ~read.sized => read.groups = <<>>
<1> DEFINE read == Parsed(img, ignored)
           items == img.items
           blocks == BlocksIn(img)
           timings == TimingsIn(img)
           first == FirstOf(items, blocks + timings)
           gs == UpdateAbsOffs(first, 1, HeaderSize)
<1>1. /\ items \in Seq(Items) /\ Len(items) \in Nat /\ TotalSize(items) \in Nat
      /\ Upto(items, Len(items)) = TotalSize(items)
      /\ \A n \in 0 .. Len(items) : Upto(items, n) \in Nat
  BY ItemsAre, ItemSizes, UptoSteps
<1>2. CASE img.offset # 0 /\ Opens(img, ignored)
  <2>1. /\ blocks \in 0 .. Len(items)
        /\ \A i \in 1 .. blocks : IsData(items[i])
    BY <1>2, BlocksInIs DEF Opens
  <2>2. /\ timings \in 0 .. Len(items) - blocks
        /\ \A i \in blocks + 1 .. blocks + timings : items[i].kind = "timing"
    BY <1>2, TimingsInIs DEF Opens
  <2>3. read.opens = TRUE /\ read.sized = TRUE /\ read.groups = gs
    <3>1. read = [opens |-> TRUE, sized |-> TRUE, groups |-> gs]
      BY <1>2, ParsedCases, Zenon
    <3> HIDE DEF read, gs
    <3> QED BY <3>1
  <2> HIDE DEF blocks, timings, read, items, first, gs
  <2> DEFINE n == blocks + timings
  <2>4. n \in 0 .. Len(items)
    BY <1>1, <2>1, <2>2
  <2>5. ASSUME NEW i \in 1 .. n
        PROVE  items[i].kind # "junk" /\ IF i <= blocks THEN IsData(items[i]) ELSE items[i].kind = "timing"
    <3>1. CASE i <= blocks
      BY <2>1, <2>2, <3>1 DEF IsData
    <3>2. CASE ~(i <= blocks)
      <4>1. i \in blocks + 1 .. blocks + timings
        BY <2>1, <2>2, <3>2
      <4> QED BY <2>2, <3>2, <4>1
    <3> QED BY <3>1, <3>2
  <2>6. /\ first \in Seq(Placed) /\ Len(first) = n
        /\ \A i \in 1 .. n : Alike(first[i], items[i])
        /\ TotalSize(first) = Upto(items, n)
    BY <1>1, <2>4, <2>5, FirstOfIs DEF first
  <2>7. 1 \in 1 .. Len(first) + 1 /\ 1 - 1 = 0
    BY <2>4, <2>6
  <2>8. /\ gs \in Seq(Placed) /\ Len(gs) = Len(first)
        /\ \A i \in 1 .. 1 - 1 : gs[i] = first[i]
        /\ \A i \in 1 .. Len(first) : /\ Same(gs[i], first[i])
                                      /\ HeaderSize \in Nat => gs[i].at = HeaderSize + Upto(first, i - 1) - Upto(first, 1 - 1)
        /\ \A i \in 1 .. Len(first) : gs[i].size = first[i].size
        /\ \A k \in 0 .. Len(first) : Upto(gs, k) = Upto(first, k)
        /\ TotalSize(gs) = TotalSize(first)
    BY <2>6, <2>7, HeaderIs, PlacedGroups, UpdateAbsOffsIs DEF gs
  <2>9. OffsetsFrom(gs, HeaderSize)
    <3>1. Upto(first, 0) = 0 /\ \A k \in 0 .. Len(first) : Upto(first, k) \in Nat
      BY <2>6, PlacedGroups, UptoSteps
    <3> SUFFICES ASSUME NEW i \in 1 .. Len(first) PROVE gs[i].at = HeaderSize + Upto(gs, i - 1)
      BY <2>8 DEF OffsetsFrom
    <3>2. i - 1 \in 0 .. Len(first)
      BY <2>4, <2>6
    <3>3. gs[i].at = HeaderSize + Upto(first, i - 1) - Upto(first, 0)
      BY <2>7, <2>8, HeaderIs
    <3> QED BY <2>8, <3>1, <3>2, <3>3, HeaderIs
  <2>10. ASSUME NEW i \in 1 .. n
         PROVE  IF i <= blocks THEN ~IsTiming(gs[i]) ELSE ~IsData(gs[i])
    <3>1. gs[i].kind = items[i].kind
      <4>1. first[i] \in Placed /\ Same(gs[i], first[i]) /\ Alike(first[i], items[i])
        BY <2>6, <2>8, ElementOfSeq
      <4> QED BY <4>1, SameIsAlike DEF Alike
    <3>2. CASE i <= blocks
      BY <2>5, <3>1, <3>2 DEF IsData, IsTiming
    <3>3. CASE ~(i <= blocks)
      BY <2>5, <3>1, <3>3 DEF IsData, IsTiming
    <3> QED BY <3>2, <3>3
  <2>11. InOrder(gs)
    <3> SUFFICES ASSUME NEW i \in 1 .. n, NEW j \in 1 .. n, IsTiming(gs[i]), IsData(gs[j])
                 PROVE  j < i
      BY <2>6, <2>8 DEF InOrder
    <3>1. ~(i <= blocks) /\ j <= blocks
      BY <2>10
    <3> QED BY <2>1, <2>4, <3>1
  <2>12. TotalSize(gs) <= TotalSize(items)
    <3>1. Upto(items, n) <= Upto(items, Len(items))
      <4>1. Len(items) \in n .. Len(items)
        BY <1>1, <2>4
      <4> QED BY <1>1, <2>4, <4>1, ItemSizes, UptoGrows
    <3> QED BY <1>1, <2>6, <2>8, <3>1
  <2> QED BY <2>3, <2>8, <2>9, <2>11, <2>12 DEF Arranged, read, items
<1>3. CASE ~(img.offset # 0 /\ Opens(img, ignored))
  <2>1. /\ read.opens = (img.offset = 0) /\ read.sized = FALSE /\ read.groups = <<>>
    <3>1. read = [opens |-> img.offset = 0, sized |-> FALSE, groups |-> <<>>]
      BY <1>3, ParsedCases, Zenon
    <3> HIDE DEF read
    <3> QED BY <3>1
  <2>2. <<>> \in Seq(Placed) /\ Len(<<>>) = 0
    OBVIOUS
  <2>3. Arranged(<<>>) /\ TotalSize(<<>>) = 0
    <3>1. Upto(<<>>, 0) = 0 /\ TotalSize(<<>>) = Upto(<<>>, Len(<<>>))
      BY <2>2, PlacedGroups, UptoSteps
    <3> QED BY <2>2, <3>1 DEF Arranged, OffsetsFrom, InOrder
  <2> HIDE DEF read, items
  <2>4. /\ read.opens \in BOOLEAN /\ read.sized \in BOOLEAN
        /\ Arranged(read.groups) /\ TotalSize(read.groups) <= TotalSize(items)
        /\ read.groups = <<>>
    <3>1. read.opens \in BOOLEAN
      BY <2>1, Zenon
    <3>2. read.sized \in BOOLEAN /\ read.groups = <<>>
      BY <2>1
    <3>3. Arranged(read.groups) /\ TotalSize(read.groups) = 0
      BY <2>1, <2>3, Zenon
    <3>4. TotalSize(read.groups) <= TotalSize(items)
      BY <1>1, <3>3
    <3> QED BY <3>1, <3>2, <3>3, <3>4
  <2> QED BY <2>4 DEF read, items
<1> QED BY <1>2, <1>3

LEMMA StripIs ==
  ASSUME NEW gs \in Seq(Placed)
  PROVE  LET items == Strip(gs)
         IN  /\ items \in Seq(Items) /\ Len(items) = Len(gs)
             /\ \A i \in 1 .. Len(gs) : Alike(items[i], gs[i])
             /\ \A n \in 0 .. Len(gs) : Upto(items, n) = Upto(gs, n)
             /\ TotalSize(items) = TotalSize(gs)
<1> DEFINE items == Strip(gs)
<1>1. Len(gs) \in Nat /\ DOMAIN gs = 1 .. Len(gs) /\ \A i \in 1 .. Len(gs) : gs[i] \in Placed
  BY LenProperties, ElementOfSeq
<1>2. \A g \in Placed : Item(g.kind, g.size, g.count) \in Items /\ Alike(Item(g.kind, g.size, g.count), g)
  BY DEF Item, Items, Placed, GroupKinds, Kinds, Size, Alike
<1>3. /\ items \in [1 .. Len(gs) -> Items]
      /\ \A i \in 1 .. Len(gs) : Alike(items[i], gs[i])
  BY <1>1, <1>2 DEF Strip
<1> HIDE DEF items
<1>4. items \in Seq(Items) /\ Len(items) = Len(gs)
  BY <1>1, <1>3, SeqDef, LenProperties
<1>5. (\A n \in 0 .. Len(gs) : Upto(items, n) = Upto(gs, n)) /\ TotalSize(items) = TotalSize(gs)
  <2>1. \A i \in 1 .. Len(gs) : items[i].size = gs[i].size
    BY <1>3 DEF Alike
  <2> QED BY <1>4, <2>1, PlacedGroups, SameSizes
<1> QED BY <1>3, <1>4, <1>5 DEF items

LEMMA AlikeItems ==
  ASSUME NEW x \in Items, NEW y \in Items, Alike(x, y)
  PROVE  x = y
<1>1. x = [kind |-> x.kind, size |-> x.size, count |-> x.count]
  BY DEF Items
<1>2. y = [kind |-> y.kind, size |-> y.size, count |-> y.count]
  BY DEF Items
<1> QED BY <1>1, <1>2 DEF Alike

LEMMA StripBack ==
  ASSUME NEW items \in Seq(Items), NEW gs \in Seq(Placed), Len(gs) = Len(items),
         \A i \in 1 .. Len(items) : Alike(gs[i], items[i])
  PROVE  Strip(gs) = items
<1> DEFINE r == Strip(gs)
<1>1. /\ r \in Seq(Items) /\ Len(r) = Len(gs)
      /\ \A i \in 1 .. Len(gs) : Alike(r[i], gs[i])
  BY StripIs
<1> HIDE DEF r
<1>2. ASSUME NEW i \in 1 .. Len(r) PROVE r[i] = items[i]
  <2>1. r[i] \in Items /\ items[i] \in Items /\ Alike(r[i], gs[i]) /\ Alike(gs[i], items[i])
    BY <1>1, ElementOfSeq
  <2>2. Alike(r[i], items[i])
    BY <2>1 DEF Alike
  <2> QED BY <2>1, <2>2, AlikeItems
<1>3. r = items
  BY <1>1, <1>2, SeqEqual
<1> QED BY <1>3 DEF r

\* The data blocks are the first n groups, and the offset is where they end.
LEMMA OffsetIs ==
  ASSUME NEW gs, Arranged(gs), Len(gs) > 0
  PROVE  \E n \in 0 .. Len(gs) :
           /\ \A i \in 1 .. n : IsData(gs[i])
           /\ \A i \in n + 1 .. Len(gs) : IsTiming(gs[i])
           /\ DtdOffset(gs) = HeaderSize + Upto(gs, n)
<1> DEFINE timings == {i \in DOMAIN gs : IsTiming(gs[i])}
           m == Len(gs)
<1>1. /\ gs \in Seq(Placed) /\ m \in Nat /\ DOMAIN gs = 1 .. m
      /\ \A i \in 1 .. m : gs[i] \in Placed /\ gs[i].size \in Nat
      /\ \A i \in 1 .. m : IsTiming(gs[i]) <=> ~IsData(gs[i])
      /\ OffsetsFrom(gs, HeaderSize) /\ InOrder(gs)
  BY ArrangedIs DEF Arranged
<1>2. /\ \A n \in 0 .. m : Upto(gs, n) \in Nat
      /\ \A n \in 1 .. m : Upto(gs, n) = Upto(gs, n - 1) + gs[n].size
  BY <1>1, PlacedGroups, UptoSteps
<1>3. CASE timings # {}
  <2> DEFINE f == Min(timings)
  <2>1. f \in timings /\ \A k \in timings : f <= k
    <3>1. timings \in SUBSET Nat
      BY <1>1
    <3> HIDE DEF timings
    <3> QED BY <1>3, <3>1, MinIs
  <2>2. DtdOffset(gs) = gs[f].at
    BY <1>3 DEF DtdOffset
  <2> HIDE DEF f
  <2>3. f \in 1 .. m /\ IsTiming(gs[f])
    BY <1>1, <2>1
  <2>4. ASSUME NEW i \in 1 .. f - 1 PROVE IsData(gs[i])
    <3>1. i \in 1 .. m /\ ~(f <= i)
      BY <1>1, <2>3
    <3>2. i \notin timings
      BY <2>1, <3>1
    <3> QED BY <1>1, <3>1, <3>2
  <2>5. ASSUME NEW i \in f .. m PROVE IsTiming(gs[i])
    <3>1. i \in 1 .. m /\ ~(i < f)
      BY <1>1, <2>3
    <3>2. ~IsData(gs[i])
      BY <1>1, <2>3, <3>1 DEF InOrder
    <3> QED BY <1>1, <3>1, <3>2
  <2>6. gs[f].at = HeaderSize + Upto(gs, f - 1)
    BY <1>1, <2>3 DEF OffsetsFrom
  <2>7. f - 1 \in 0 .. m /\ f - 1 + 1 = f
    BY <1>1, <2>3
  <2> QED BY <2>2, <2>4, <2>5, <2>6, <2>7
<1>4. CASE timings = {}
  <2>1. m \in 1 .. m /\ gs # <<>>
    BY <1>1
  <2>2. Last(gs) = gs[m]
    BY DEF Last
  <2>3. DtdOffset(gs) = gs[m].at + gs[m].size
    BY <1>4, <2>1, <2>2 DEF DtdOffset
  <2>4. gs[m].at = HeaderSize + Upto(gs, m - 1) /\ m - 1 \in 0 .. m
    BY <1>1, <2>1 DEF OffsetsFrom
  <2>5. DtdOffset(gs) = HeaderSize + Upto(gs, m)
    BY <1>1, <1>2, <2>1, <2>3, <2>4, HeaderIs, SMTT(60)
  <2>6. \A i \in 1 .. m : IsData(gs[i])
    BY <1>1, <1>4
  <2>7. m \in 0 .. m /\ \A i \in m + 1 .. m : IsTiming(gs[i])
    BY <1>1
  <2> QED BY <2>5, <2>6, <2>7
<1> QED BY <1>3, <1>4

\* What is written as these groups opens as these groups.
LEMMA WrittenOpens ==
  ASSUME NEW gs, Arranged(gs), NEW img \in Images,
         img.items = Strip(gs), img.offset = DtdOffset(gs),
         img.native <= img.timings + Cardinality({i \in DOMAIN img.items : IsTiming(img.items[i])}),
         \A i \in DOMAIN img.items : img.items[i].kind # "dark"
  PROVE  LET read == Parsed(img, FALSE)
         IN  read.opens /\ Strip(read.groups) = img.items
<1> DEFINE read == Parsed(img, FALSE)
           items == img.items
           m == Len(items)
           blocks == BlocksIn(img)
           timings == TimingsIn(img)
<1>1. /\ gs \in Seq(Placed) /\ Len(gs) \in Nat
      /\ \A i \in 1 .. Len(gs) : gs[i] \in Placed
      /\ \A i \in 1 .. Len(gs) : IsTiming(gs[i]) <=> ~IsData(gs[i])
  BY ArrangedIs
<1>2. /\ items \in Seq(Items) /\ m = Len(gs) /\ DOMAIN items = 1 .. m
      /\ \A i \in 1 .. m : Alike(items[i], gs[i]) /\ items[i] \in Items /\ items[i].size \in Size
      /\ \A n \in 0 .. m : Upto(items, n) = Upto(gs, n)
      /\ img.native \in Nat /\ img.timings \in 0 .. Descriptors
  BY <1>1, StripIs, ItemsAre
<1>3. ASSUME NEW i \in 1 .. m
      PROVE  (IsTiming(items[i]) <=> IsTiming(gs[i])) /\ (IsData(items[i]) <=> IsData(gs[i]))
  BY <1>1, <1>2, <1>3, KindIs
<1>4. CASE m = 0
  <2>1. gs = <<>> /\ items = <<>>
    BY <1>1, <1>2, <1>4, EmptySeq
  <2>2. img.offset = 0
    BY <2>1 DEF DtdOffset
  <2>3. read = [opens |-> TRUE, sized |-> FALSE, groups |-> <<>>]
    <3>1. ~(img.offset # 0 /\ Opens(img, FALSE)) /\ FALSE \in BOOLEAN
      BY <2>2
    <3>2. Parsed(img, FALSE) = [opens |-> img.offset = 0, sized |-> FALSE, groups |-> <<>>]
      BY <3>1, ParsedCases, Zenon
    <3>3. (img.offset = 0) = TRUE
      BY <2>2
    <3> QED BY <3>2, <3>3, Zenon
  <2>4. Strip(<<>>) = items
    BY <2>1
  <2> HIDE DEF read, items
  <2>5. read.opens = TRUE /\ read.groups = <<>>
    BY <2>3
  <2> QED BY <2>4, <2>5 DEF items, read
<1>5. CASE m > 0
  <2>1. PICK n \in 0 .. Len(gs) :
          /\ \A i \in 1 .. n : IsData(gs[i])
          /\ \A i \in n + 1 .. Len(gs) : IsTiming(gs[i])
          /\ DtdOffset(gs) = HeaderSize + Upto(gs, n)
    BY <1>2, <1>5, OffsetIs
  <2>2. /\ m \in Nat /\ n \in 0 .. m
        /\ \A k \in 0 .. m : Upto(items, k) \in Nat
        /\ Upto(items, 0) = 0
        /\ Upto(items, m) = TotalSize(items)
    BY <1>1, <1>2, <2>1, ItemSizes, UptoSteps
  <2>3. img.offset = HeaderSize + Upto(items, n)
    BY <1>2, <2>1, <2>2
  <2>4. \A k \in 0 .. m : End(items, k) = HeaderSize + Upto(items, k)
    BY DEF End, Upto
  <2>5. \A k \in 0 .. m : k < n => Upto(items, k) < Upto(items, n)
    <3> SUFFICES ASSUME NEW k \in 0 .. m, k < n PROVE Upto(items, k) < Upto(items, n)
      OBVIOUS
    <3>1. n \in k .. m /\ \A g \in Items : g.size > 0
      BY <2>2 DEF Items
    <3>2. n - k <= Upto(items, n) - Upto(items, k)
      BY <1>2, <3>1, ItemSizes, UptoGrows
    <3> QED BY <2>2, <3>2
  <2>6. blocks = n
    <3> DEFINE reached == {k \in 1 .. m : End(items, k) >= img.offset}
    <3>1. CASE n = 0
      <4>1. img.offset <= HeaderSize
        BY <2>2, <2>3, <3>1, HeaderIs
      <4> QED BY <3>1, <4>1 DEF BlocksIn
    <3>2. CASE n > 0
      <4>1. ~(img.offset <= HeaderSize)
        <5>1. Upto(items, 0) < Upto(items, n) /\ Upto(items, n) \in Nat
          BY <2>2, <2>5, <3>2
        <5> QED BY <2>2, <2>3, <5>1, HeaderIs
      <4>2. n \in reached
        BY <2>2, <2>3, <2>4, <3>2, HeaderIs
      <4>3. \A k \in reached : n <= k
        <5> SUFFICES ASSUME NEW k \in 1 .. m, End(items, k) >= img.offset, k < n PROVE FALSE
          BY <2>2
        <5>1. k \in 0 .. m
          OBVIOUS
        <5>2. Upto(items, k) < Upto(items, n) /\ End(items, k) = HeaderSize + Upto(items, k)
              /\ Upto(items, k) \in Nat /\ Upto(items, n) \in Nat
          BY <2>2, <2>4, <2>5, <5>1
        <5> QED BY <2>3, <5>2, HeaderIs
      <4>4. reached \in SUBSET Nat /\ reached # {}
        BY <4>2
      <4>5. blocks = Min(reached)
        BY <4>1, <4>4 DEF BlocksIn
      <4> HIDE DEF reached
      <4>6. Min(reached) \in reached /\ \A k \in reached : Min(reached) <= k
        BY <4>4, MinIs
      <4>7. Min(reached) <= n /\ n <= Min(reached) /\ Min(reached) \in Nat
        BY <4>2, <4>3, <4>4, <4>6
      <4> QED BY <2>2, <4>5, <4>7
    <3> QED BY <2>2, <3>1, <3>2
  <2>7. ASSUME NEW i \in n + 1 .. m PROVE items[i].kind = "timing"
    <3>1. i \in 1 .. m
      BY <2>2
    <3>2. IsTiming(items[i]) /\ items[i].kind # "dark"
      BY <1>2, <1>3, <2>1, <3>1
    <3> QED BY <3>2 DEF IsTiming
  <2>8. timings = m - n
    <3>1. blocks >= 0
      BY <2>2, <2>6
    <3>2. timings \in 0 .. m - n
      BY <2>6, <3>1, TimingsInIs
    <3>3. m - n <= timings
      <4>1. m - n \in 0 .. m - blocks /\ blocks + (m - n) = m
        BY <2>2, <2>6
      <4>2. \A i \in blocks + 1 .. blocks + (m - n) : items[i].kind = "timing"
        BY <2>6, <2>7, <4>1
      <4> HIDE DEF items, blocks, timings
      <4>3. \A k \in 0 .. m - blocks : (\A i \in blocks + 1 .. blocks + k : items[i].kind = "timing") => k <= timings
        BY <3>1, TimingsInIs DEF items, blocks, timings
      <4> QED BY <4>1, <4>2, <4>3
    <3> QED BY <2>2, <3>2, <3>3
  <2>9. Cardinality({i \in DOMAIN items : IsTiming(items[i])}) = m - n
    <3>1. {i \in DOMAIN items : IsTiming(items[i])} = n + 1 .. m
      <4>1. \A i \in n + 1 .. m : i \in 1 .. m /\ IsTiming(items[i])
        BY <2>2, <2>7 DEF IsTiming
      <4>2. ASSUME NEW i \in 1 .. m, IsTiming(items[i]) PROVE i \in n + 1 .. m
        <5>1. ~IsData(gs[i])
          BY <1>1, <1>2, <1>3, <4>2
        <5>2. i \notin 1 .. n
          BY <2>1, <5>1
        <5> QED BY <2>2, <5>2
      <4> QED BY <1>2, <4>1, <4>2
    <3>2. n + 1 \in Int /\ m \in Int
      BY <2>2
    <3>3. Cardinality(n + 1 .. m) = m - n
      <4> HIDE DEF m
      <4>1. Cardinality(n + 1 .. m) = IF n + 1 > m THEN 0 ELSE m - (n + 1) + 1
        BY <3>2, FS_Interval
      <4> QED BY <2>2, <4>1
    <3> QED BY <3>1, <3>3
  <2>10. Opens(img, FALSE) /\ img.offset # 0
    <3>1. img.offset >= HeaderSize /\ img.offset # 0
      BY <2>2, <2>3, HeaderIs
    <3>2. \A i \in 1 .. blocks : IsData(items[i])
      <4> SUFFICES ASSUME NEW i \in 1 .. n PROVE IsData(items[i])
        BY <2>6
      <4>1. i \in 1 .. m
        BY <2>2
      <4> QED BY <1>3, <2>1, <4>1
    <3>3. End(items, blocks) = img.offset
      BY <2>2, <2>3, <2>4, <2>6
    <3>4. img.native - img.timings <= timings
      <4> HIDE DEF items, m, timings, blocks
      <4>1. img.native <= img.timings + (m - n)
        BY <2>9 DEF items
      <4> QED BY <1>2, <2>2, <2>8, <4>1
    <3>5. blocks >= 0 /\ blocks + timings = m
      BY <2>2, <2>6, <2>8
    <3> QED BY <3>1, <3>2, <3>3, <3>4, <3>5 DEF Opens
  <2> DEFINE first == FirstOf(items, blocks + timings)
             r == UpdateAbsOffs(first, 1, HeaderSize)
  <2>11. read.opens = TRUE /\ read.groups = r
    <3>1. read = [opens |-> TRUE, sized |-> TRUE, groups |-> r]
      BY <2>10, ParsedCases, Zenon
    <3> HIDE DEF r, read
    <3> QED BY <3>1
  <2>12. blocks + timings = m
    BY <2>2, <2>6, <2>8
  <2> HIDE DEF blocks, timings, items, first, read
  <2>13. ASSUME NEW i \in 1 .. m PROVE items[i].kind # "junk"
    <3>1. Alike(items[i], gs[i]) /\ gs[i] \in Placed
      BY <1>1, <1>2
    <3> QED BY <3>1 DEF Alike, Placed, GroupKinds
  <2>14. /\ first \in Seq(Placed) /\ Len(first) = m
         /\ \A i \in 1 .. m : Alike(first[i], items[i])
    <3>1. m \in 0 .. Len(items)
      BY <2>2
    <3> QED BY <1>2, <2>12, <2>13, <3>1, FirstOfIs DEF first
  <2>15. 1 \in 1 .. Len(first) + 1
    BY <2>2, <2>14
  <2>16. /\ r \in Seq(Placed) /\ Len(r) = Len(first)
         /\ \A i \in 1 .. Len(first) : Same(r[i], first[i])
    BY <2>14, <2>15, HeaderIs, PlacedGroups, UpdateAbsOffsIs
  <2> HIDE DEF r
  <2>17. ASSUME NEW i \in 1 .. m PROVE Alike(r[i], items[i])
    <3>1. first[i] \in Placed /\ Same(r[i], first[i]) /\ Alike(first[i], items[i])
      BY <2>14, <2>16, ElementOfSeq
    <3> QED BY <3>1, SameIsAlike DEF Alike
  <2>18. Strip(r) = items
    BY <1>2, <2>14, <2>16, <2>17, StripBack
  <2> QED BY <2>11, <2>18 DEF items, read
<1>6. m = 0 \/ m > 0
  BY <1>1, <1>2
<1> QED BY <1>4, <1>5, <1>6, Zenon

(***************************************************************************)
(* The count of blocks, and what an unread extension keeps.                *)
(***************************************************************************)
LEMMA AdjustedIs ==
  ASSUME NEW img \in Images
  PROVE  /\ Adjusted(img) \in Images /\ TotalSize(Adjusted(img).items) = TotalSize(img.items)
         /\ Counted(img) => Adjusted(img) = img
<1>1. /\ img.items \in Seq(Items) /\ Len(img.items) \in Nat
      /\ \A i \in 1 .. Len(img.items) : img.items[i] \in Items
      /\ img.blocks \in Nat \ {0, 1} /\ img.blocks - 1 \in Nat
  BY ItemsAre
<1>2. CASE Counted(img)
  BY <1>2 DEF Adjusted
<1>3. CASE ~Counted(img) /\ Declared(img) # 1 + img.count
  <2> DEFINE item == [img.items[1] EXCEPT !.count = img.blocks - 1]
             items == [img.items EXCEPT ![1] = item]
             r == [img EXCEPT !.items = items]
  <2>1. 1 \in 1 .. Len(img.items)
    <3>1. Overridden(img)
      BY <1>3 DEF Declared
    <3> QED BY <1>1, <3>1, EmptySeq DEF Overridden
  <2>2. item \in Items /\ item.size = img.items[1].size
    BY <1>1, <2>1 DEF Items
  <2>3. Adjusted(img) = r
    BY <1>3 DEF Adjusted
  <2> HIDE DEF item
  <2>4. /\ items \in Seq(Items) /\ Len(items) = Len(img.items)
        /\ \A i \in 1 .. Len(img.items) : items[i] = IF i = 1 THEN item ELSE img.items[i]
    BY <1>1, <2>1, <2>2, ExceptSeq
  <2> HIDE DEF items
  <2>5. TotalSize(items) = TotalSize(img.items)
    <3>1. \A i \in 1 .. Len(img.items) : items[i].size = img.items[i].size
      BY <2>2, <2>4
    <3> QED BY <1>1, <2>4, <3>1, ItemSizes, SameSizes
  <2>6. r \in Images /\ r.items = items
    BY <2>4 DEF Images
  <2> QED BY <1>3, <2>3, <2>5, <2>6
<1>4. CASE ~Counted(img) /\ Declared(img) = 1 + img.count
  <2>1. Adjusted(img) = [img EXCEPT !.count = img.blocks - 1]
    BY <1>4 DEF Adjusted
  <2>2. [img EXCEPT !.count = img.blocks - 1] \in Images /\ [img EXCEPT !.count = img.blocks - 1].items = img.items
    BY <1>1 DEF Images
  <2> QED BY <1>4, <2>1, <2>2
<1> QED BY <1>2, <1>3, <1>4

\* What is kept of an extension that was not parsed.
Unread(img) == [img EXCEPT !.timings = 0]

LEMMA UnreadIs ==
  ASSUME NEW img \in Images
  PROVE  Unread(img) = [blocks |-> img.blocks, count |-> img.count, timings |-> 0,
                        native |-> img.native, offset |-> img.offset, items |-> img.items]
<1> DEFINE t == [img EXCEPT !.timings = 0]
<1>1. 0 \in 0 .. Descriptors
  BY FileAssumption
<1>2. /\ t \in Images /\ t.timings = 0
      /\ t.blocks = img.blocks /\ t.count = img.count /\ t.native = img.native
      /\ t.offset = img.offset /\ t.items = img.items
  BY <1>1 DEF Images
<1> HIDE DEF t
<1>3. t = [blocks |-> t.blocks, count |-> t.count, timings |-> t.timings,
           native |-> t.native, offset |-> t.offset, items |-> t.items]
  BY <1>2 DEF Images
<1>4. Unread(img) = t
  BY DEF Unread, t
<1> QED BY <1>2, <1>3, <1>4

LEMMA AssembledIs ==
  ASSUME image \in Images, Arranged(cta), open \in BOOLEAN, base.timings \in 0 .. Descriptors,
         TotalSize(image.items) <= Capacity, TotalSize(cta) <= Capacity
  PROVE  /\ Assembled \in Images /\ TotalSize(Assembled.items) <= Capacity
         /\ Assembled.timings = base.timings
         /\ open => Assembled.items = Strip(cta) /\ Assembled.offset = DtdOffset(cta)
         /\ ~open => /\ Unread(Assembled) = Unread(image)
                     /\ Counted(image) => Counted(Assembled)
<1> DEFINE offset == IF open THEN DtdOffset(cta) ELSE image.offset
           items == IF open THEN Strip(cta) ELSE image.items
           r == [image EXCEPT !.timings = base.timings, !.offset = offset, !.items = items]
<1>1. /\ cta \in Seq(Placed) /\ Len(cta) \in Nat /\ TotalSize(cta) \in Nat
  BY ArrangedIs
<1>2. DtdOffset(cta) \in Nat
  <2>1. CASE Len(cta) > 0
    <3>1. PICK n \in 0 .. Len(cta) : DtdOffset(cta) = HeaderSize + Upto(cta, n)
      BY <2>1, OffsetIs
    <3>2. Upto(cta, n) \in Nat
      BY <1>1, PlacedGroups, UptoSteps
    <3> QED BY <3>1, <3>2, HeaderIs
  <2>2. CASE Len(cta) = 0
    <3>1. cta = <<>>
      BY <1>1, <2>2, EmptySeq
    <3> QED BY <3>1 DEF DtdOffset
  <2> QED BY <1>1, <2>1, <2>2
<1>3. image.items \in Seq(Items) /\ image.offset \in Nat
  BY ItemsAre
<1>4. Strip(cta) \in Seq(Items) /\ TotalSize(Strip(cta)) = TotalSize(cta)
  BY <1>1, StripIs
<1>5. offset \in Nat /\ items \in Seq(Items) /\ TotalSize(items) <= Capacity
  BY <1>2, <1>3, <1>4
<1>6. Assembled = r
  BY DEF Assembled
<1>7. /\ open => items = Strip(cta) /\ offset = DtdOffset(cta)
      /\ ~open => items = image.items /\ offset = image.offset
  OBVIOUS
<1> HIDE DEF offset, items
<1>8. /\ r \in Images /\ r.timings = base.timings /\ r.items = items /\ r.offset = offset
      /\ r.count = image.count /\ r.blocks = image.blocks /\ r.native = image.native
  BY <1>5 DEF Images
<1> HIDE DEF r
<1>9. ASSUME ~open PROVE Unread(r) = Unread(image)
  <2>1. r.items = image.items /\ r.offset = image.offset
    BY <1>7, <1>8, <1>9
  <2>2. \A img \in Images :
          Unread(img) = [blocks |-> img.blocks, count |-> img.count, timings |-> 0,
                         native |-> img.native, offset |-> img.offset, items |-> img.items]
    BY UnreadIs
  <2> QED BY <1>8, <2>1, <2>2
<1>10. ASSUME ~open, Counted(image) PROVE Counted(r)
  BY <1>7, <1>8, <1>10 DEF Counted, Declared, Overridden
<1> QED BY <1>5, <1>6, <1>7, <1>8, <1>9, <1>10

\* The groups read from an image, and the free space computed for them.
LEMMA LoadIs ==
  ASSUME NEW img \in Images, TotalSize(img.items) <= Capacity, NEW ignored \in BOOLEAN,
         NEW left \in Int, left <= Capacity
  PROVE  LET read == Parsed(img, ignored)
             room == IF read.sized THEN Capacity - TotalSize(read.groups) ELSE left
         IN  /\ read.opens \in BOOLEAN
             /\ Arranged(read.groups) /\ TotalSize(read.groups) <= Capacity
             /\ room \in Int /\ room + TotalSize(read.groups) <= Capacity
             /\ ~read.opens => read.groups = <<>>
<1> DEFINE read == Parsed(img, ignored)
           room == IF read.sized THEN Capacity - TotalSize(read.groups) ELSE left
<1>1. /\ read.opens \in BOOLEAN /\ read.sized \in BOOLEAN
      /\ Arranged(read.groups) /\ TotalSize(read.groups) <= TotalSize(img.items)
      /\ ~read.opens => read.groups = <<>>
      /\ ~read.sized => read.groups = <<>>
  BY ReadIs
<1>2. TotalSize(img.items) \in Nat /\ Capacity \in Nat
  BY ItemsAre, ItemSizes, UptoSteps, FileAssumption
<1> HIDE DEF read
<1>3. TotalSize(read.groups) \in Nat
  BY <1>1, ArrangedIs
<1>4. TotalSize(<<>>) = 0
  <2>1. <<>> \in Seq(Placed) /\ Len(<<>>) = 0
    OBVIOUS
  <2> QED BY <2>1, PlacedGroups, UptoSteps
<1>5. room \in Int /\ room + TotalSize(read.groups) <= Capacity
  <2>1. CASE read.sized
    BY <1>2, <1>3, <2>1
  <2>2. CASE ~read.sized
    <3>1. TotalSize(read.groups) = 0
      BY <1>1, <1>4, <2>2
    <3>2. room = left
      BY <2>2
    <3> QED BY <3>1, <3>2
  <2> QED BY <2>1, <2>2
<1>6. TotalSize(read.groups) <= Capacity
  BY <1>1, <1>2, <1>3
<1> QED BY <1>1, <1>5, <1>6 DEF read

(***************************************************************************)
(* The inductive invariant.                                                *)
(***************************************************************************)
ImageInv == image \in Images /\ TotalSize(image.items) <= Capacity

BaseInv ==
  /\ base.timings \in Nat /\ base.others \in Nat
  /\ base.timings + base.others <= Descriptors

\* free_sz may be stale, but never promises more room than there is.
GroupsInv ==
  /\ Arranged(cta) /\ TotalSize(cta) <= Capacity
  /\ free \in Int /\ free + TotalSize(cta) <= Capacity
  /\ open \in BOOLEAN /\ ignore \in BOOLEAN
  /\ ~open => cta = <<>>

OpensAgain(s) ==
  /\ s.open /\ Counted(s.image)
  /\ s.image.native <= s.timings + Cardinality({i \in DOMAIN s.items : IsTiming(s.items[i])})
  /\ \A i \in DOMAIN s.items : s.items[i].kind # "dark"
  => LET read == Parsed(s.image, FALSE)
     IN  read.opens /\ Strip(read.groups) = s.items /\ s.image.timings = s.timings

\* An extension that was not parsed is what the last written file holds, once
\* its count of blocks was corrected.
SavedInv ==
  /\ \A s \in saved : /\ s.image \in Images /\ TotalSize(s.image.items) <= Capacity
                      /\ OpensAgain(s)
  /\ \A s, t \in saved : s = t
  /\ ~open => \A s \in saved : Unread(image) = Unread(Adjusted(s.image))

IInv == ImageInv /\ BaseInv /\ GroupsInv /\ SavedInv

LEMMA InitHolds == Init => IInv
<1> SUFFICES ASSUME Init PROVE IInv
  OBVIOUS
<1>1. PICK f \in Files, ignored \in BOOLEAN :
        LET img  == Adjusted(f)
            read == Parsed(img, ignored)
        IN  /\ image = img
            /\ base = [timings |-> img.timings, others |-> Descriptors - img.timings]
            /\ open = read.opens
            /\ cta = read.groups
            /\ free = IF read.sized THEN Capacity - TotalSize(read.groups) ELSE 0
            /\ ignore = ignored
            /\ saved = {}
  BY Zenon DEF Init
<1> DEFINE img == Adjusted(f)
           read == Parsed(img, ignored)
<1>2. f \in Images /\ TotalSize(f.items) <= Capacity
  BY FileAssumption
<1>3. img \in Images /\ TotalSize(img.items) <= Capacity
  BY <1>2, AdjustedIs
<1>4. 0 \in Int /\ 0 <= Capacity /\ Descriptors \in Nat
  BY FileAssumption
<1>5. /\ image = img
      /\ base = [timings |-> img.timings, others |-> Descriptors - img.timings]
      /\ open = read.opens
      /\ cta = read.groups
      /\ free = IF read.sized THEN Capacity - TotalSize(read.groups) ELSE 0
      /\ ignore = ignored
      /\ saved = {}
  BY <1>1
<1> HIDE DEF img
<1>6. /\ read.opens \in BOOLEAN
      /\ Arranged(read.groups) /\ TotalSize(read.groups) <= Capacity
      /\ free \in Int /\ free + TotalSize(read.groups) <= Capacity
      /\ ~read.opens => read.groups = <<>>
  BY <1>3, <1>4, <1>5, LoadIs
<1> HIDE DEF read
<1>7. ImageInv
  BY <1>3, <1>5 DEF ImageInv
<1>8. BaseInv
  <2>1. img.timings \in 0 .. Descriptors
    BY <1>3, ItemsAre
  <2> QED BY <1>4, <1>5, <2>1 DEF BaseInv
<1>9. GroupsInv
  BY <1>5, <1>6 DEF GroupsInv
<1>10. SavedInv
  BY <1>5 DEF SavedInv
<1> QED BY <1>7, <1>8, <1>9, <1>10 DEF IInv

(***************************************************************************)
(* The steps.                                                              *)
(***************************************************************************)
\* Only the groups of the extension, or its free space, change.
LEMMA CtaChange ==
  ASSUME IInv, UNCHANGED <<image, base, open, ignore, saved>>, open,
         Arranged(cta'), TotalSize(cta') <= Capacity,
         free' \in Int, free' + TotalSize(cta') <= Capacity
  PROVE  IInv'
<1>1. ImageInv' /\ BaseInv'
  BY DEF IInv, ImageInv, BaseInv
<1>2. GroupsInv'
  BY DEF IInv, GroupsInv
<1>3. SavedInv'
  BY DEF IInv, SavedInv
<1> QED BY <1>1, <1>2, <1>3 DEF IInv

LEMMA BecomesKeeps ==
  ASSUME IInv, NEW gs, open, Becomes(gs), Arranged(gs), TotalSize(gs) <= Capacity
  PROVE  IInv'
<1>1. TotalSize(gs) \in Nat /\ Capacity \in Nat
  BY ArrangedIs, FileAssumption
<1>2. cta' = gs /\ free' = Capacity - TotalSize(gs) /\ UNCHANGED <<image, base, open, ignore, saved>>
  BY DEF Becomes
<1>3. free' \in Int /\ free' + TotalSize(cta') <= Capacity /\ Arranged(cta') /\ TotalSize(cta') <= Capacity
  BY <1>1, <1>2
<1> QED BY <1>2, <1>3, CtaChange

\* The groups of the invariant.
LEMMA GroupsAre ==
  ASSUME IInv
  PROVE  /\ Arranged(cta) /\ Len(cta) \in Nat /\ DOMAIN cta = 1 .. Len(cta)
         /\ cta \in Seq(Placed)
         /\ \A i \in 1 .. Len(cta) : cta[i] \in Placed /\ cta[i].size \in Size /\ cta[i].size \in Nat
         /\ \A i \in 1 .. Len(cta) : IsTiming(cta[i]) <=> ~IsData(cta[i])
         /\ \A i \in 1 .. Len(cta) : open
         /\ TotalSize(cta) \in Nat /\ TotalSize(cta) <= Capacity /\ Capacity \in Nat
         /\ free \in Int /\ free + TotalSize(cta) <= Capacity
<1>1. GroupsInv
  BY DEF IInv
<1>2. Arranged(cta)
  BY <1>1 DEF GroupsInv
<1>3. \A i \in 1 .. Len(cta) : open
  <2>1. ~open => Len(cta) = 0
    BY <1>1 DEF GroupsInv
  <2> QED BY <2>1
<1> QED BY <1>1, <1>2, <1>3, ArrangedIs, FileAssumption DEF GroupsInv

\* A group that fits is inserted behind group i.
LEMMA InsertHolds ==
  ASSUME IInv, open, NEW i \in 0 .. Len(cta), NEW g \in Placed, Suits(cta, i, g), g.size <= free,
         Becomes(BaseInsertDn(cta, HeaderSize, i, g))
  PROVE  IInv'
<1> DEFINE r == BaseInsertDn(cta, HeaderSize, i, g)
<1>1. Arranged(r) /\ TotalSize(r) = TotalSize(cta) + g.size
  BY GroupsAre, InsertKeeps
<1>2. TotalSize(r) <= Capacity
  <2> HIDE DEF r
  <2>1. g.size \in Nat
    BY DEF Placed, Size
  <2> QED BY <1>1, <2>1, GroupsAre
<1> HIDE DEF r
<1>3. Becomes(r)
  BY DEF r
<1> QED BY <1>1, <1>2, <1>3, BecomesKeeps

LEMMA FirstTimingIs ==
  ASSUME IInv
  PROVE  /\ FirstTiming \in 1 .. Len(cta) + 1
         /\ \A j \in 1 .. FirstTiming - 1 : IsData(cta[j])
         /\ \A j \in FirstTiming .. Len(cta) : IsTiming(cta[j])
<1> DEFINE lines == {i \in DOMAIN cta : IsTiming(cta[i])} \cup {Len(cta) + 1}
           f == Min(lines)
<1>1. /\ Len(cta) \in Nat /\ DOMAIN cta = 1 .. Len(cta)
      /\ \A i \in 1 .. Len(cta) : IsTiming(cta[i]) <=> ~IsData(cta[i])
      /\ InOrder(cta)
  BY GroupsAre DEF Arranged
<1>2. /\ lines \in SUBSET Nat /\ lines # {} /\ Len(cta) + 1 \in lines
      /\ \A i \in lines : i \in 1 .. Len(cta) + 1
      /\ \A i \in 1 .. Len(cta) : i \in lines <=> IsTiming(cta[i])
  BY <1>1
<1>3. FirstTiming = f
  BY DEF FirstTiming
<1> HIDE DEF lines
<1>4. f \in lines /\ \A k \in lines : f <= k
  BY <1>2, MinIs
<1> HIDE DEF f
<1>5. f \in 1 .. Len(cta) + 1
  BY <1>2, <1>4
<1>6. ASSUME NEW j \in 1 .. f - 1 PROVE IsData(cta[j])
  <2>1. j \in 1 .. Len(cta) /\ ~(f <= j)
    BY <1>1, <1>5
  <2> QED BY <1>1, <1>2, <1>4, <2>1
<1>7. ASSUME NEW j \in f .. Len(cta) PROVE IsTiming(cta[j])
  <2>1. j \in 1 .. Len(cta) /\ f \in 1 .. Len(cta) /\ ~(j < f)
    BY <1>1, <1>5
  <2>2. IsTiming(cta[f])
    BY <1>2, <1>4, <2>1
  <2> QED BY <1>1, <2>1, <2>2 DEF InOrder
<1> QED BY <1>3, <1>5, <1>6, <1>7

LEMMA InsertGroupHolds ==
  ASSUME IInv, NEW g \in Placed, InsertGroup(g)
  PROVE  IInv'
<1> DEFINE f == FirstTiming
<1>1. /\ f \in 1 .. Len(cta) + 1
      /\ \A j \in 1 .. f - 1 : IsData(cta[j])
      /\ \A j \in f .. Len(cta) : IsTiming(cta[j])
  BY FirstTimingIs
<1>2. open /\ g.size <= free /\ Len(cta) \in Nat
  BY GroupsAre DEF InsertGroup
<1>3. Becomes(BaseInsertDn(cta, HeaderSize, f - 1, g))
  <2>1. CASE f <= Len(cta)
    <3>1. Becomes(BaseInsertUp(cta, f, g))
      BY <2>1, Zenon DEF InsertGroup
    <3>2. f - 1 < Len(cta) /\ f - 1 + 1 = f
      BY <1>1, <1>2, <2>1
    <3> HIDE DEF f
    <3>3. BaseInsertUp(cta, f, g) = BaseInsertDn(cta, HeaderSize, f - 1, g)
      BY <3>2 DEF BaseInsertUp, BaseInsertDn
    <3> QED BY <3>1, <3>3
  <2>2. CASE ~(f <= Len(cta))
    <3>1. Becomes(BaseInsertDn(cta, HeaderSize, Len(cta), g))
      BY <2>2, Zenon DEF InsertGroup
    <3>2. f - 1 = Len(cta)
      BY <1>1, <1>2, <2>2
    <3> QED BY <3>1, <3>2
  <2> QED BY <2>1, <2>2
<1> HIDE DEF f
<1>4. f - 1 \in 0 .. Len(cta) /\ f - 1 + 1 = f
  BY <1>1, <1>2
<1>5. Suits(cta, f - 1, g)
  BY <1>1, <1>4 DEF Suits
<1> QED BY <1>2, <1>3, <1>4, <1>5, InsertHolds

LEMMA GroupIs ==
  ASSUME NEW kind \in GroupKinds, NEW size \in Size, NEW count \in Nat
  PROVE  /\ Group(Item(kind, size, count)) \in Placed
         /\ Group(Item(kind, size, count)).kind = kind /\ Group(Item(kind, size, count)).size = size
<1>1. 0 \in Offset
  BY DEF Offset
<1> QED BY <1>1 DEF Group, Item, Placed

LEMMA AddDataHolds ==
  ASSUME IInv, NEW size \in DataSizes, AddData(size)
  PROVE  IInv'
<1>1. size \in Size /\ "data" \in GroupKinds /\ 0 \in Nat
  BY FileAssumption DEF Size, GroupKinds
<1> QED BY <1>1, GroupIs, InsertGroupHolds DEF AddData

LEMMA AddTimingHolds ==
  ASSUME IInv, AddTiming
  PROVE  IInv'
<1>1. PICK kind \in {"timing"} \cup {g.kind : g \in {h \in ToSet(cta) : IsTiming(h)}} :
        InsertGroup(Group(Item(kind, TimingSize, 0)))
  BY DEF AddTiming
<1>2. kind \in GroupKinds
  BY DEF GroupKinds, IsTiming
<1>3. TimingSize \in Size /\ 0 \in Nat
  BY FileAssumption DEF Size
<1> QED BY <1>1, <1>2, <1>3, GroupIs, InsertGroupHolds

LEMMA DuplicateHolds ==
  ASSUME IInv, NEW i \in 1 .. Len(cta), Duplicate(i)
  PROVE  IInv'
<1>1. open /\ cta[i] \in Placed /\ cta[i].size <= free /\ i \in 0 .. Len(cta) /\ InOrder(cta)
  BY GroupsAre DEF Duplicate, Arranged
<1>2. Suits(cta, i, cta[i])
  <2>1. ASSUME IsTiming(cta[i]), NEW j \in i + 1 .. Len(cta) PROVE IsTiming(cta[j])
    <3>1. j \in 1 .. Len(cta) /\ ~(j < i)
      BY GroupsAre
    <3>2. ~IsData(cta[j])
      BY <1>1, <2>1, <3>1 DEF InOrder
    <3> QED BY <3>1, <3>2, GroupsAre
  <2>2. ASSUME IsData(cta[i]), NEW j \in 1 .. i PROVE IsData(cta[j])
    <3>1. j \in 1 .. Len(cta) /\ ~(i < j)
      BY GroupsAre
    <3>2. ~IsTiming(cta[j])
      BY <1>1, <2>2, <3>1 DEF InOrder
    <3> QED BY <3>1, <3>2, GroupsAre
  <2> QED BY <2>1, <2>2 DEF Suits
<1>3. Becomes(BaseInsertDn(cta, HeaderSize, i, cta[i]))
  BY DEF Duplicate
<1> QED BY <1>1, <1>2, <1>3, InsertHolds

LEMMA DeleteHolds ==
  ASSUME IInv, NEW i \in 1 .. Len(cta), Delete(i)
  PROVE  IInv'
<1> DEFINE r == BaseCut(cta, i)
<1>1. Arranged(r) /\ TotalSize(r) = TotalSize(cta) - cta[i].size
  BY GroupsAre, CutKeeps
<1>2. open /\ Becomes(r)
  BY GroupsAre DEF Delete
<1> HIDE DEF r
<1>3. TotalSize(r) <= Capacity
  BY <1>1, GroupsAre
<1> QED BY <1>1, <1>2, <1>3, BecomesKeeps

LEMMA MoveHolds ==
  ASSUME IInv, NEW i \in 1 .. Len(cta) - 1, ~(IsData(cta[i]) /\ IsTiming(cta[i + 1])),
         cta' = BaseMoveDn(cta, i), UNCHANGED <<image, base, open, free, ignore, saved>>
  PROVE  IInv'
<1> DEFINE r == BaseMoveDn(cta, i)
<1>1. Arranged(r) /\ TotalSize(r) = TotalSize(cta)
  BY GroupsAre, MoveKeeps
<1>2. i \in 1 .. Len(cta)
  BY GroupsAre
<1>3. open
  BY <1>2, GroupsAre
<1> HIDE DEF r
<1>4. cta' = r
  BY DEF r
<1>5. /\ Arranged(cta') /\ TotalSize(cta') <= Capacity
      /\ free' \in Int /\ free' + TotalSize(cta') <= Capacity
  BY <1>1, <1>4, GroupsAre
<1> QED BY <1>3, <1>5, CtaChange

LEMMA MoveDnHolds ==
  ASSUME IInv, NEW i \in 1 .. Len(cta), MoveDn(i)
  PROVE  IInv'
<1>1. i \in 1 .. Len(cta) - 1 /\ i + 1 \in 1 .. Len(cta)
  BY GroupsAre DEF MoveDn
<1>2. ~(IsData(cta[i]) /\ IsTiming(cta[i + 1]))
  BY <1>1, GroupsAre DEF MoveDn
<1>3. cta' = BaseMoveDn(cta, i) /\ UNCHANGED <<image, base, open, free, ignore, saved>>
  BY DEF MoveDn
<1> QED BY <1>1, <1>2, <1>3, MoveHolds

LEMMA MoveUpHolds ==
  ASSUME IInv, NEW i \in 1 .. Len(cta), MoveUp(i)
  PROVE  IInv'
<1>1. i - 1 \in 1 .. Len(cta) - 1 /\ i - 1 \in 1 .. Len(cta) /\ i - 1 + 1 = i
  BY GroupsAre DEF MoveUp
<1>2. ~(IsData(cta[i - 1]) /\ IsTiming(cta[i]))
  BY <1>1, GroupsAre DEF MoveUp
<1>3. cta' = BaseMoveDn(cta, i - 1) /\ UNCHANGED <<image, base, open, free, ignore, saved>>
  BY DEF MoveUp
<1> QED BY <1>1, <1>2, <1>3, MoveHolds

LEMMA ChangeSubGroupsHolds ==
  ASSUME IInv, NEW i \in 1 .. Len(cta), NEW size \in DataSizes, ChangeSubGroups(i, size)
  PROVE  IInv'
<1> DEFINE r == UpdateAbsOffs([cta EXCEPT ![i].size = size], i, cta[i].at)
<1>1. size \in Size /\ size \in Nat /\ IsData(cta[i])
  BY FileAssumption DEF Size, ChangeSubGroups, IsData
<1>2. Arranged(r) /\ TotalSize(r) = TotalSize(cta) - cta[i].size + size
  BY <1>1, GroupsAre, ResizeKeeps
<1>3. Becomes(r) /\ size - cta[i].size <= free /\ open
  BY GroupsAre DEF ChangeSubGroups
<1> HIDE DEF r
<1>4. TotalSize(r) <= Capacity
  BY <1>1, <1>2, <1>3, GroupsAre
<1> QED BY <1>2, <1>3, <1>4, BecomesKeeps

LEMMA RebuildHolds ==
  ASSUME IInv, NEW i \in 1 .. Len(cta), NEW size \in DataSizes, Rebuild(i, size)
  PROVE  IInv'
<1> DEFINE g == Group(Item("data", size, 0))
           rebuilt == Replaced(cta, i, g)
           back == Replaced(rebuilt, i, cta[i])
<1>1. IsData(cta[i]) /\ open
  BY GroupsAre DEF Rebuild, IsData
<1>2. g \in Placed /\ IsData(g) /\ g.size = size /\ size \in Nat
  <2>1. size \in Size /\ "data" \in GroupKinds /\ 0 \in Nat
    BY FileAssumption DEF Size, GroupKinds
  <2>2. g \in Placed /\ g.kind = "data" /\ g.size = size
    BY <2>1, GroupIs
  <2> QED BY <2>1, <2>2 DEF IsData, Size
<1>3. Becomes(IF TotalSize(rebuilt) <= Capacity THEN rebuilt ELSE back)
  BY Zenon DEF Rebuild
<1> HIDE DEF g
<1>4. /\ Arranged(rebuilt) /\ TotalSize(rebuilt) = TotalSize(cta) - cta[i].size + g.size
      /\ Len(rebuilt) = Len(cta) /\ Alike(rebuilt[i], g)
  BY <1>1, <1>2, GroupsAre, ReplaceKeeps
<1> HIDE DEF rebuilt
<1>5. CASE TotalSize(rebuilt) <= Capacity
  BY <1>1, <1>3, <1>4, <1>5, BecomesKeeps
<1>6. CASE ~(TotalSize(rebuilt) <= Capacity)
  <2>1. i \in 1 .. Len(rebuilt) /\ IsData(rebuilt[i]) /\ rebuilt[i].size = size
    BY <1>2, <1>4, KindIs DEF Alike
  <2>2. Arranged(back) /\ TotalSize(back) = TotalSize(rebuilt) - rebuilt[i].size + cta[i].size
    BY <1>1, <1>4, <2>1, GroupsAre, ReplaceKeeps
  <2>3. Becomes(back)
    BY <1>3, <1>6
  <2> HIDE DEF back
  <2>4. TotalSize(back) <= Capacity
    BY <1>2, <1>4, <2>1, <2>2, GroupsAre
  <2> QED BY <1>1, <2>2, <2>3, <2>4, BecomesKeeps
<1> QED BY <1>5, <1>6

\* A field of a group is changed: its size, its place and whether it is a
\* timing stay.
LEMMA FieldHolds ==
  ASSUME IInv, NEW i \in 1 .. Len(cta), NEW g \in Placed,
         g.size = cta[i].size, g.at = cta[i].at, IsTiming(g) <=> IsTiming(cta[i]),
         cta' = [cta EXCEPT ![i] = g], UNCHANGED <<image, base, open, free, ignore, saved>>
  PROVE  IInv'
<1> DEFINE r == [cta EXCEPT ![i] = g]
<1>1. /\ r \in Seq(Placed) /\ Len(r) = Len(cta)
      /\ \A j \in 1 .. Len(cta) : r[j] = IF j = i THEN g ELSE cta[j]
  BY GroupsAre, ExceptSeq
<1>2. cta' = r
  OBVIOUS
<1> HIDE DEF r
<1>3. \A j \in 1 .. Len(cta) : /\ r[j].size = cta[j].size /\ r[j].at = cta[j].at
                               /\ IsTiming(r[j]) <=> IsTiming(cta[j])
  BY <1>1
<1>4. Arranged(r) /\ TotalSize(r) = TotalSize(cta)
  BY <1>1, <1>3, GroupsAre, FieldsKeep
<1>5. /\ Arranged(cta') /\ TotalSize(cta') <= Capacity
      /\ free' \in Int /\ free' + TotalSize(cta') <= Capacity
  BY <1>2, <1>4, GroupsAre
<1>6. open
  BY GroupsAre
<1> QED BY <1>5, <1>6, CtaChange

LEMMA SetCountHolds ==
  ASSUME IInv, NEW i \in 1 .. Len(cta), NEW count \in Counts, SetCount(i, count)
  PROVE  IInv'
<1> DEFINE g == [cta[i] EXCEPT !.count = count]
<1>1. count \in Nat /\ cta[i] \in Placed
  BY GroupsAre, FileAssumption
<1>2. g \in Placed /\ g.size = cta[i].size /\ g.at = cta[i].at /\ g.kind = cta[i].kind
  BY <1>1 DEF Placed
<1>3. cta' = [cta EXCEPT ![i] = g] /\ UNCHANGED <<image, base, open, free, ignore, saved>>
  BY DEF SetCount
<1> HIDE DEF g
<1>4. IsTiming(g) <=> IsTiming(cta[i])
  BY <1>2 DEF IsTiming
<1> QED BY <1>2, <1>3, <1>4, FieldHolds

LEMMA SetClockHolds ==
  ASSUME IInv, NEW i \in 1 .. Len(cta), NEW lit, SetClock(i, lit)
  PROVE  IInv'
<1> DEFINE kind == IF lit THEN "timing" ELSE "dark"
           g == [cta[i] EXCEPT !.kind = kind]
<1>1. kind \in GroupKinds /\ kind \in {"timing", "dark"} /\ cta[i] \in Placed
  BY GroupsAre DEF GroupKinds
<1>2. cta' = [cta EXCEPT ![i] = g] /\ UNCHANGED <<image, base, open, free, ignore, saved>>
  BY DEF SetClock
<1> HIDE DEF kind
<1>3. g \in Placed /\ g.size = cta[i].size /\ g.at = cta[i].at /\ g.kind = kind
  BY <1>1 DEF Placed
<1> HIDE DEF g
<1>4. IsTiming(g) <=> IsTiming(cta[i])
  BY <1>1, <1>3 DEF IsTiming, SetClock
<1> QED BY <1>2, <1>3, <1>4, FieldHolds

(***************************************************************************)
(* The base block, the errors ignored, writing and reading.                *)
(***************************************************************************)
LEMMA DescribeHolds ==
  ASSUME IInv, NEW timings \in Int, NEW others \in Int, Describe(timings, others)
  PROVE  IInv'
<1>1. ImageInv' /\ GroupsInv'
  BY DEF IInv, ImageInv, GroupsInv, Describe
<1>2. BaseInv'
  BY DEF BaseInv, Describe
<1>3. SavedInv'
  BY DEF IInv, SavedInv, Describe
<1> QED BY <1>1, <1>2, <1>3 DEF IInv

LEMMA DescriptorsHold ==
  ASSUME IInv, DeleteDescriptor \/ DuplicateDescriptor \/ RetypeDescriptor
  PROVE  IInv'
<1>1. /\ base.timings \in Int /\ base.timings - 1 \in Int /\ base.timings + 1 \in Int
      /\ base.others \in Int /\ base.others - 1 \in Int /\ base.others + 1 \in Int
  BY DEF IInv, BaseInv
<1> QED BY <1>1, DescribeHolds DEF DeleteDescriptor, DuplicateDescriptor, RetypeDescriptor

LEMMA SetIgnoreHolds ==
  ASSUME IInv, SetIgnore
  PROVE  IInv'
<1>1. ImageInv' /\ BaseInv'
  BY DEF IInv, ImageInv, BaseInv, SetIgnore
<1>2. GroupsInv'
  <2>1. ignore' \in BOOLEAN
    BY DEF SetIgnore
  <2> QED BY <2>1 DEF IInv, GroupsInv, SetIgnore
<1>3. SavedInv'
  BY DEF IInv, SavedInv, SetIgnore
<1> QED BY <1>1, <1>2, <1>3 DEF IInv

\* What is written of the groups there are.
LEMMA WrittenIs ==
  ASSUME IInv
  PROVE  /\ Assembled \in Images /\ TotalSize(Assembled.items) <= Capacity
         /\ Assembled.timings = base.timings
         /\ open => Assembled.items = Strip(cta) /\ Assembled.offset = DtdOffset(cta)
         /\ ~open => /\ Unread(Assembled) = Unread(image)
                     /\ Counted(image) => Counted(Assembled)
<1>1. image \in Images /\ TotalSize(image.items) <= Capacity /\ open \in BOOLEAN
  BY DEF IInv, ImageInv, GroupsInv
<1>2. base.timings \in 0 .. Descriptors
  BY FileAssumption DEF IInv, BaseInv
<1> QED BY <1>1, <1>2, GroupsAre, AssembledIs

LEMMA SaveHolds ==
  ASSUME IInv, Save
  PROVE  IInv'
<1> DEFINE s == [open |-> open, items |-> Strip(cta), timings |-> base.timings, image |-> Assembled]
           img == Assembled
<1>1. /\ img \in Images /\ TotalSize(img.items) <= Capacity
      /\ img.timings = base.timings
      /\ open => img.items = Strip(cta) /\ img.offset = DtdOffset(cta)
      /\ ~open /\ Counted(image) => Counted(img)
  BY WrittenIs
<1>2. /\ Counted(image) /\ image' = img /\ saved' = {s}
      /\ UNCHANGED <<base, open, cta, free, ignore>>
  BY DEF Save
<1> HIDE DEF img
<1>3. s.open = open /\ s.items = Strip(cta) /\ s.timings = base.timings /\ s.image = img
  BY DEF img
<1> HIDE DEF s
<1>4. OpensAgain(s)
  <2> SUFFICES ASSUME s.open, Counted(s.image),
                      s.image.native <= s.timings + Cardinality({i \in DOMAIN s.items : IsTiming(s.items[i])}),
                      \A i \in DOMAIN s.items : s.items[i].kind # "dark"
               PROVE  LET read == Parsed(s.image, FALSE)
                      IN  read.opens /\ Strip(read.groups) = s.items /\ s.image.timings = s.timings
    BY DEF OpensAgain
  <2>1. /\ Arranged(cta) /\ img.items = Strip(cta) /\ img.offset = DtdOffset(cta)
        /\ s.items = img.items /\ s.timings = img.timings
    BY <1>1, <1>3, GroupsAre
  <2>2. /\ img.native <= img.timings + Cardinality({i \in DOMAIN img.items : IsTiming(img.items[i])})
        /\ \A i \in DOMAIN img.items : img.items[i].kind # "dark"
    BY <1>3, <2>1
  <2>3. Parsed(img, FALSE).opens /\ Strip(Parsed(img, FALSE).groups) = img.items
    BY <1>1, <2>1, <2>2, WrittenOpens
  <2> QED BY <1>3, <2>1, <2>3
<1>5. ImageInv'
  BY <1>1, <1>2 DEF ImageInv
<1>6. BaseInv' /\ GroupsInv'
  BY <1>2 DEF IInv, BaseInv, GroupsInv
<1>7. SavedInv'
  <2>1. ASSUME ~open PROVE Unread(image') = Unread(Adjusted(s.image))
    <3>1. Adjusted(img) = img
      BY <1>1, <1>2, <2>1, AdjustedIs
    <3> QED BY <1>2, <1>3, <3>1
  <2>2. \A t \in saved' : t = s
    BY <1>2
  <2> QED BY <1>1, <1>2, <1>3, <1>4, <2>1, <2>2 DEF SavedInv
<1> QED BY <1>5, <1>6, <1>7 DEF IInv

LEMMA ReopenHolds ==
  ASSUME IInv, Reopen
  PROVE  IInv'
<1>1. PICK s \in saved, left \in {free, 0} : Load(Adjusted(s.image), ignore, left)
  BY DEF Reopen
<1> DEFINE img == Adjusted(s.image)
           read == Parsed(img, ignore)
<1>2. img \in Images /\ TotalSize(img.items) <= Capacity
  <2>1. s.image \in Images /\ TotalSize(s.image.items) <= Capacity
    BY DEF IInv, SavedInv
  <2> QED BY <2>1, AdjustedIs
<1>3. left \in Int /\ left <= Capacity
  BY GroupsAre
<1>4. /\ image' = img
      /\ base' = [timings |-> img.timings, others |-> Descriptors - img.timings]
      /\ open' = read.opens
      /\ cta' = read.groups
      /\ free' = IF read.sized THEN Capacity - TotalSize(read.groups) ELSE left
  BY <1>1 DEF Load
<1>5. UNCHANGED <<ignore, saved>> /\ ignore \in BOOLEAN /\ Descriptors \in Nat
  BY FileAssumption DEF Reopen, IInv, GroupsInv
<1> HIDE DEF img
<1>6. /\ read.opens \in BOOLEAN
      /\ Arranged(read.groups) /\ TotalSize(read.groups) <= Capacity
      /\ free' \in Int /\ free' + TotalSize(read.groups) <= Capacity
      /\ ~read.opens => read.groups = <<>>
  BY <1>2, <1>3, <1>4, <1>5, LoadIs
<1> HIDE DEF read
<1>7. ImageInv'
  BY <1>2, <1>4 DEF ImageInv
<1>8. BaseInv'
  <2>1. img.timings \in 0 .. Descriptors
    BY <1>2, ItemsAre
  <2> QED BY <1>4, <1>5, <2>1 DEF BaseInv
<1>9. GroupsInv'
  BY <1>4, <1>5, <1>6 DEF GroupsInv
<1>10. SavedInv'
  <2>1. \A t \in saved : t = s
    BY DEF IInv, SavedInv
  <2>2. \A t \in saved' : Unread(image') = Unread(Adjusted(t.image))
    BY <1>4, <1>5, <2>1 DEF img
  <2> QED BY <1>5, <2>2 DEF IInv, SavedInv
<1> QED BY <1>7, <1>8, <1>9, <1>10 DEF IInv

\* The changes of the groups of the extension.
ChangeCta ==
  \/ \E size \in DataSizes : AddData(size)
  \/ AddTiming
  \/ \E i \in DOMAIN cta :
       \/ Duplicate(i) \/ Delete(i) \/ MoveUp(i) \/ MoveDn(i)
       \/ \E size \in DataSizes : ChangeSubGroups(i, size) \/ Rebuild(i, size)
       \/ \E count \in Counts : SetCount(i, count)
       \/ \E lit \in Clocks : SetClock(i, lit)

LEMMA ChangeCtaHolds ==
  ASSUME IInv, ChangeCta
  PROVE  IInv'
<1>1. CASE \E size \in DataSizes : AddData(size)
  BY <1>1, AddDataHolds
<1>2. CASE AddTiming
  BY <1>2, AddTimingHolds
<1>3. ASSUME NEW i \in DOMAIN cta,
             \/ Duplicate(i) \/ Delete(i) \/ MoveUp(i) \/ MoveDn(i)
             \/ \E size \in DataSizes : ChangeSubGroups(i, size) \/ Rebuild(i, size)
             \/ \E count \in Counts : SetCount(i, count)
             \/ \E lit \in Clocks : SetClock(i, lit)
      PROVE  IInv'
  <2>1. i \in 1 .. Len(cta)
    BY GroupsAre
  <2>2. CASE Duplicate(i)
    BY <2>1, <2>2, DuplicateHolds
  <2>3. CASE Delete(i)
    BY <2>1, <2>3, DeleteHolds
  <2>4. CASE MoveUp(i)
    BY <2>1, <2>4, MoveUpHolds
  <2>5. CASE MoveDn(i)
    BY <2>1, <2>5, MoveDnHolds
  <2>6. CASE \E size \in DataSizes : ChangeSubGroups(i, size)
    BY <2>1, <2>6, ChangeSubGroupsHolds
  <2>7. CASE \E size \in DataSizes : Rebuild(i, size)
    BY <2>1, <2>7, RebuildHolds
  <2>8. CASE \E count \in Counts : SetCount(i, count)
    BY <2>1, <2>8, SetCountHolds
  <2>9. CASE \E lit \in Clocks : SetClock(i, lit)
    BY <2>1, <2>9, SetClockHolds
  <2> QED BY <1>3, <2>2, <2>3, <2>4, <2>5, <2>6, <2>7, <2>8, <2>9
<1> QED BY <1>1, <1>2, <1>3 DEF ChangeCta

LEMMA NextIs ==
  Next <=> \/ Save \/ Reopen \/ ChangeCta
           \/ DeleteDescriptor \/ DuplicateDescriptor \/ RetypeDescriptor \/ SetIgnore
BY Zenon DEF Next, ChangeCta

LEMMA StepHolds == IInv /\ [Next]_vars => IInv'
<1> SUFFICES ASSUME IInv, [Next]_vars PROVE IInv'
  OBVIOUS
<1>1. CASE Save
  BY <1>1, SaveHolds
<1>2. CASE Reopen
  BY <1>2, ReopenHolds
<1>3. CASE ChangeCta
  BY <1>3, ChangeCtaHolds
<1>4. CASE DeleteDescriptor \/ DuplicateDescriptor \/ RetypeDescriptor
  BY <1>4, DescriptorsHold
<1>5. CASE SetIgnore
  BY <1>5, SetIgnoreHolds
<1>6. CASE UNCHANGED vars
  <2>1. ImageInv' /\ BaseInv'
    BY <1>6 DEF IInv, ImageInv, BaseInv, vars
  <2>2. GroupsInv' /\ SavedInv'
    BY <1>6 DEF IInv, GroupsInv, SavedInv, vars
  <2> QED BY <2>1, <2>2 DEF IInv
<1> QED BY <1>1, <1>2, <1>3, <1>4, <1>5, <1>6, NextIs

LEMMA Invariance == Spec => []IInv
BY InitHolds, StepHolds, PTL DEF Spec

(***************************************************************************)
(* The theorems.                                                           *)
(***************************************************************************)
\* The groups of the extension are data blocks and timings, the base block
\* has no more descriptors than it has room for, and an extension that was
\* not parsed has no groups.
THEOREM TypeCorrect == Spec => []TypeOK
<1>1. IInv => TypeOK
  <2> SUFFICES ASSUME IInv PROVE TypeOK
    OBVIOUS
  <2>1. ASSUME NEW i \in DOMAIN cta
        PROVE  /\ IsData(cta[i]) \/ IsTiming(cta[i])
               /\ cta[i].size \in Nat \ {0} /\ cta[i].count \in Nat /\ cta[i].at \in Nat
    <3>1. i \in 1 .. Len(cta) /\ cta[i] \in Placed
      BY GroupsAre
    <3>2. cta[i].at = HeaderSize + Upto(cta, i - 1)
      BY <3>1, GroupsAre DEF Arranged, OffsetsFrom
    <3>3. i - 1 \in 0 .. Len(cta)
      BY <3>1, GroupsAre
    <3>4. Upto(cta, i - 1) \in Nat
      BY <3>3, GroupsAre, PlacedGroups, UptoSteps
    <3>5. cta[i].at \in Nat
      BY <3>2, <3>4, HeaderIs
    <3> QED BY <3>1, <3>5, KindIs DEF Placed, Size
  <2>2. BaseInv /\ GroupsInv
    BY DEF IInv
  <2> QED BY <2>1, <2>2 DEF TypeOK, BaseInv, GroupsInv
<1> QED BY <1>1, Invariance, PTL

\* What the editor writes opens again without ignoring errors and shows the
\* groups that were written: AssembleEDID and ParseEDID_CEA agree on offsets,
\* order, sizes and padding, but for the three changes SavedOpensAgain names.
THEOREM WhatIsSavedOpens == Spec => []SavedOpensAgain
<1>1. IInv => SavedOpensAgain
  <2> SUFFICES ASSUME IInv, NEW s \in saved, s.open, CountStands, NativesArePresent, TimingsAreLit
               PROVE  LET read == Parsed(s.image, FALSE)
                      IN  read.opens /\ Strip(read.groups) = s.items /\ s.image.timings = s.timings
    BY DEF SavedOpensAgain
  <2>1. OpensAgain(s)
    BY DEF IInv, SavedInv
  <2>2. Counted(s.image)
    BY DEF CountStands
  <2>3. s.image.native <= s.timings + Cardinality({i \in DOMAIN s.items : IsTiming(s.items[i])})
    BY DEF NativesArePresent
  <2>4. \A i \in DOMAIN s.items : s.items[i].kind # "dark"
    BY DEF TimingsAreLit
  <2> QED BY <2>1, <2>2, <2>3, <2>4 DEF OpensAgain
<1> QED BY <1>1, Invariance, PTL

\* The groups never take more than the block has, though free_sz may be
\* stale: AssembleEDID copies them without asking (EDID_main.cpp:1258-1312).
THEOREM GroupsFit == Spec => []GroupsFitBlock
<1>1. IInv => GroupsFitBlock
  BY DEF IInv, GroupsInv, GroupsFitBlock
<1> QED BY <1>1, Invariance, PTL

\* Data blocks stay in front of the timings, as the timing offset of the
\* header wants it (EDID_main.cpp:1168-1199).
THEOREM DataComesFirst == Spec => []DataBeforeTimings
<1>1. IInv => DataBeforeTimings
  <2> SUFFICES ASSUME IInv, NEW i \in DOMAIN cta, NEW j \in DOMAIN cta, IsTiming(cta[i]), IsData(cta[j])
               PROVE  j < i
    BY DEF DataBeforeTimings
  <2>1. InOrder(cta) /\ i \in 1 .. Len(cta) /\ j \in 1 .. Len(cta)
    BY GroupsAre DEF Arranged
  <2> QED BY <2>1 DEF InOrder
<1> QED BY <1>1, Invariance, PTL

\* Every group carries the offset its bytes are written to, after whatever
\* insertions, moves, removals and replacements (core/grpar.cpp).
THEOREM OffsetsCorrect == Spec => []OffsetsMatch
<1>1. IInv => OffsetsMatch
  <2> SUFFICES ASSUME IInv, NEW i \in DOMAIN cta PROVE cta[i].at = End(cta, i - 1)
    BY DEF OffsetsMatch
  <2>1. OffsetsFrom(cta, HeaderSize) /\ i \in 1 .. Len(cta)
    BY GroupsAre DEF Arranged
  <2>2. cta[i].at = HeaderSize + Upto(cta, i - 1)
    BY <2>1 DEF OffsetsFrom
  <2> QED BY <2>2 DEF End, Upto
<1> QED BY <1>1, Invariance, PTL

\* An extension that could not be parsed is written, and read again, as it
\* was ("Data the editor does not understand is kept", usage.md:85).
THEOREM UnreadStays == Spec => UnreadIsKept
<1>1. IInv /\ [Next]_vars =>
        [~open /\ ~open' => [image' EXCEPT !.timings = 0] = [image EXCEPT !.timings = 0]]_vars
  <2> SUFFICES ASSUME IInv, [Next]_vars, ~open, ~open'
               PROVE  Unread(image') = Unread(image)
    BY DEF Unread
  <2>1. CASE Save
    BY <2>1, WrittenIs DEF Save
  <2>2. CASE Reopen
    <3>1. PICK s \in saved, left \in {free, 0} : Load(Adjusted(s.image), ignore, left)
      BY <2>2 DEF Reopen
    <3>2. image' = Adjusted(s.image)
      BY <3>1 DEF Load
    <3> QED BY <3>2 DEF IInv, SavedInv
  <2>3. CASE ChangeCta
    BY <2>3 DEF ChangeCta, AddData, AddTiming, InsertGroup, Duplicate, Delete, MoveUp, MoveDn,
                ChangeSubGroups, Rebuild, SetCount, SetClock, Becomes
  <2>4. CASE DeleteDescriptor \/ DuplicateDescriptor \/ RetypeDescriptor \/ SetIgnore
    BY <2>4 DEF DeleteDescriptor, DuplicateDescriptor, RetypeDescriptor, Describe, SetIgnore
  <2>5. CASE UNCHANGED vars
    BY <2>5 DEF vars
  <2> QED BY <2>1, <2>2, <2>3, <2>4, <2>5, NextIs
<1> QED BY <1>1, Invariance, PTL DEF Spec, UnreadIsKept
=============================================================================
