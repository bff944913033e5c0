------------------------ MODULE DisplayIDSectionProofs ------------------------
(***************************************************************************)
(* What DisplayIDSection promises, proved for every section and capacity.  *)
(* A section is seen as the sequence of its data blocks and the size of    *)
(* its padding; what the operations do to the two is stated once.          *)
(***************************************************************************)
EXTENDS DisplayIDSection, GroupArrayProofs

Size == Nat \ {0}

\* A data block as the history knows it: id and size.
Key == Size \X Size

Group == [kind : {"data", "padding"}, id : Nat, size : Size, at : Offset]

Sections == [groups : Seq(Group), payload : Int, free : Int]

KeyOf(g) == <<g.id, g.size>>

IsBlock(g) == g \in Group /\ g.kind = "data" /\ g.id # 0

\* gs is the data blocks bs and, behind them, p bytes of padding.
Holds(gs, bs, p) ==
  /\ gs \in Seq(Group) /\ bs \in Seq(Key) /\ p \in Nat
  /\ \A i \in 1 .. Len(bs) : gs[i].kind = "data" /\ KeyOf(gs[i]) = bs[i]
  /\ p = 0 => Len(gs) = Len(bs)
  /\ p > 0 => /\ Len(gs) = Len(bs) + 1
              /\ gs[Len(gs)].kind = "padding"
              /\ gs[Len(gs)].id = 0
              /\ gs[Len(gs)].size = p

BlocksOf(gs) == [i \in DOMAIN DataBlocks(gs) |-> <<DataBlocks(gs)[i].id, DataBlocks(gs)[i].size>>]
PaddingOf(gs) == IF HasPadding(gs) THEN Last(gs).size ELSE 0

LEMMA GroupsOfSection == Groups(Group) /\ Sized(Group)
<1>1. ASSUME NEW g \in Group, NEW at \in Offset
      PROVE  At(g, at) \in Group /\ At(g, at).size = g.size /\ At(g, at).at = at
  BY DEF At, Group
<1>2. ASSUME NEW g \in Group PROVE g.size \in Nat /\ g.at \in Offset
  BY DEF Group, Size
<1> QED BY <1>1, <1>2 DEF Groups, Sized

LEMMA SameGroup ==
  ASSUME NEW g \in Group, NEW h, Same(h, g)
  PROVE  h \in Group /\ h.kind = g.kind /\ h.id = g.id /\ h.size = g.size
BY DEF Same, At, Group

LEMMA HoldsLengths ==
  ASSUME NEW gs, NEW bs, NEW p, Holds(gs, bs, p)
  PROVE  /\ Len(gs) \in Nat /\ Len(bs) \in Nat /\ Len(bs) <= Len(gs)
         /\ \A i \in 1 .. Len(gs) : gs[i] \in Group
         /\ \A i \in 1 .. Len(bs) : bs[i] \in Key /\ IsBlock(gs[i])
<1>1. gs \in Seq(Group) /\ bs \in Seq(Key) /\ p \in Nat
  BY DEF Holds
<1>2. Len(gs) \in Nat /\ Len(bs) \in Nat /\ Len(bs) <= Len(gs)
  BY <1>1, LenProperties DEF Holds
<1>3. \A i \in 1 .. Len(gs) : gs[i] \in Group
  BY <1>1, ElementOfSeq
<1>4. \A i \in 1 .. Len(bs) : bs[i] \in Key
  BY <1>1, ElementOfSeq
<1>5. ASSUME NEW i \in 1 .. Len(bs) PROVE IsBlock(gs[i])
  <2>1. gs[i] \in Group /\ gs[i].kind = "data" /\ KeyOf(gs[i]) = bs[i] /\ bs[i] \in Key
    BY <1>2, <1>3, <1>4 DEF Holds
  <2> QED BY <2>1 DEF KeyOf, Key, IsBlock, Size
<1> QED BY <1>2, <1>3, <1>4, <1>5

\* The padding is the last group, if any.
LEMMA HoldsPadding ==
  ASSUME NEW gs, NEW bs, NEW p, Holds(gs, bs, p)
  PROVE  /\ HasPadding(gs) <=> p > 0
         /\ p > 0 => Last(gs) = gs[Len(gs)] /\ Last(gs).size = p
         /\ PaddingOf(gs) = p
<1>1. /\ Len(gs) \in Nat /\ Len(bs) \in Nat
      /\ \A i \in 1 .. Len(bs) : IsBlock(gs[i])
      /\ gs \in Seq(Group) /\ p \in Nat
  BY HoldsLengths DEF Holds
<1>2. gs # <<>> <=> Len(gs) # 0
  BY <1>1, EmptySeq
<1>3. Last(gs) = gs[Len(gs)]
  BY DEF Last
<1>4. CASE p > 0
  BY <1>1, <1>2, <1>3, <1>4 DEF Holds, HasPadding, PaddingOf
<1>5. CASE p = 0
  <2>1. Len(gs) = Len(bs)
    BY <1>5 DEF Holds
  <2>2. Len(gs) # 0 => gs[Len(gs)].kind = "data"
    BY <1>1, <2>1 DEF IsBlock
  <2>3. ~HasPadding(gs)
    BY <1>2, <1>3, <2>2 DEF HasPadding
  <2> QED BY <1>5, <2>3 DEF PaddingOf
<1> QED BY <1>1, <1>4, <1>5

LEMMA FrontOf ==
  ASSUME NEW S, NEW s \in Seq(S), NEW n \in Nat, Len(s) = n + 1
  PROVE  /\ Front(s) \in Seq(S) /\ Len(Front(s)) = n
         /\ \A i \in 1 .. n : Front(s)[i] = s[i]
         /\ Front(s) = SubSeq(s, 1, n)
<1>1. \A i \in 1 .. n : s[i] \in S
  BY ElementOfSeq
<1>2. n \in Int /\ 1 \in Int /\ n + 1 - 1 = n
  OBVIOUS
<1>3. /\ SubSeq(s, 1, n) \in Seq(S)
      /\ Len(SubSeq(s, 1, n)) = IF 1 <= n THEN n - 1 + 1 ELSE 0
      /\ \A i \in 1 .. n - 1 + 1 : SubSeq(s, 1, n)[i] = s[1 + i - 1]
  BY <1>1, <1>2, SubSeqProperties
<1>4. Front(s) = SubSeq(s, 1, n)
  BY <1>2 DEF Front
<1>5. \A i \in 1 .. n : SubSeq(s, 1, n)[i] = s[i]
  BY <1>3
<1> HIDE DEF Front
<1> QED BY <1>3, <1>4, <1>5

LEMMA HoldsBlocks ==
  ASSUME NEW gs, NEW bs, NEW p, Holds(gs, bs, p)
  PROVE  BlocksOf(gs) = bs
<1> DEFINE d == DataBlocks(gs)
<1>1. /\ Len(gs) \in Nat /\ Len(bs) \in Nat
      /\ gs \in Seq(Group) /\ p \in Nat /\ bs \in Seq(Key)
  BY HoldsLengths DEF Holds
<1>2. HasPadding(gs) <=> p > 0
  BY HoldsPadding
<1>3. d \in Seq(Group) /\ Len(d) = Len(bs) /\ \A i \in 1 .. Len(bs) : d[i] = gs[i]
  <2>1. CASE p > 0
    <3>1. Len(gs) = Len(bs) + 1 /\ d = Front(gs)
      BY <1>2, <2>1 DEF Holds, DataBlocks
    <3> HIDE DEF d
    <3>2. /\ Front(gs) \in Seq(Group) /\ Len(Front(gs)) = Len(bs)
          /\ \A i \in 1 .. Len(bs) : Front(gs)[i] = gs[i]
      BY <1>1, <3>1, FrontOf
    <3> QED BY <3>1, <3>2
  <2>2. CASE p = 0
    <3>1. Len(gs) = Len(bs) /\ d = gs
      BY <1>2, <2>2 DEF Holds, DataBlocks
    <3> QED BY <1>1, <3>1
  <2> QED BY <1>1, <2>1, <2>2
<1>4. DOMAIN d = 1 .. Len(bs)
  BY <1>3, LenProperties
<1>5. BlocksOf(gs) = [i \in 1 .. Len(bs) |-> <<gs[i].id, gs[i].size>>]
  BY <1>3, <1>4 DEF BlocksOf
<1>6. bs \in [1 .. Len(bs) -> Key]
  BY <1>1, LenProperties
<1>7. \A i \in 1 .. Len(bs) : <<gs[i].id, gs[i].size>> = bs[i]
  BY DEF Holds, KeyOf
<1> QED BY <1>5, <1>6, <1>7

LEMMA ContentIs ==
  ASSUME NEW s, NEW bs, NEW p, Holds(s.groups, bs, p)
  PROVE  Content(s) = [blocks |-> bs, padding |-> p, payload |-> s.payload]
<1>1. BlocksOf(s.groups) = bs /\ PaddingOf(s.groups) = p
  BY HoldsBlocks, HoldsPadding
<1> QED BY <1>1 DEF Content, BlocksOf, PaddingOf

(***************************************************************************)
(* The padding: another size, or gone.                                     *)
(***************************************************************************)
LEMMA PaddingResized ==
  ASSUME NEW gs, NEW bs, NEW p, Holds(gs, bs, p), p > 0, NEW q \in Size
  PROVE  LET r == [gs EXCEPT ![Len(gs)].size = q]
         IN  /\ Holds(r, bs, q)
             /\ TotalSize(r) = TotalSize(gs) - p + q
             /\ \A header \in Nat : OffsetsFrom(gs, header) => OffsetsFrom(r, header)
<1> DEFINE n == Len(bs)
           r == [gs EXCEPT ![Len(gs)].size = q]
           f == [k \in 0 .. n + 1 |-> IF k = n + 1 THEN Upto(gs, n) + q ELSE Upto(gs, k)]
<1>1. /\ n \in Nat /\ Len(gs) = n + 1 /\ p \in Nat
      /\ gs \in Seq(Group) /\ bs \in Seq(Key)
      /\ gs[n + 1].kind = "padding" /\ gs[n + 1].id = 0 /\ gs[n + 1].size = p
      /\ gs[n + 1] \in Group
  BY HoldsLengths DEF Holds
<1>2. gs \in [1 .. n + 1 -> Group]
  BY <1>1, LenProperties
<1>3. n + 1 \in 1 .. n + 1 /\ r = [gs EXCEPT ![n + 1].size = q]
  BY <1>1
<1>4. r = [gs EXCEPT ![n + 1] = [gs[n + 1] EXCEPT !.size = q]]
  BY <1>2, <1>3
<1>5. [gs[n + 1] EXCEPT !.size = q] \in Group
  BY <1>1 DEF Group
<1>6. /\ [gs[n + 1] EXCEPT !.size = q].kind = "padding"
      /\ [gs[n + 1] EXCEPT !.size = q].id = 0
      /\ [gs[n + 1] EXCEPT !.size = q].size = q
      /\ [gs[n + 1] EXCEPT !.size = q].at = gs[n + 1].at
  BY <1>1 DEF Group
<1>7. /\ r \in [1 .. n + 1 -> Group]
      /\ \A i \in 1 .. n : r[i] = gs[i]
      /\ r[n + 1] = [gs[n + 1] EXCEPT !.size = q]
  BY <1>1, <1>2, <1>3, <1>4, <1>5
<1> HIDE DEF r
<1>8. r \in Seq(Group) /\ Len(r) = n + 1
  BY <1>1, <1>7, SeqDef, LenProperties
<1>9. Holds(r, bs, q)
  BY <1>1, <1>6, <1>7, <1>8 DEF Holds, Size
<1>10. /\ Upto(gs, 0) = 0
       /\ \A k \in 1 .. Len(gs) : Upto(gs, k) = Upto(gs, k - 1) + gs[k].size
       /\ \A k \in 0 .. Len(gs) : Upto(gs, k) \in Nat
       /\ TotalSize(gs) = Upto(gs, Len(gs))
  BY <1>1, GroupsOfSection, UptoSteps
<1>11. Runs(f, r)
  <2>1. f[0] = 0
    BY <1>1, <1>10
  <2>2. ASSUME NEW k \in 1 .. n + 1 PROVE f[k] = f[k - 1] + r[k].size
    <3>1. k \in 0 .. n + 1 /\ k - 1 \in 0 .. n + 1 /\ k - 1 # n + 1
      BY <1>1
    <3>2. CASE k = n + 1
      <4>1. k - 1 = n /\ n # n + 1
        BY <1>1, <3>2
      <4>2. f[k] = Upto(gs, n) + q /\ f[k - 1] = Upto(gs, n)
        BY <3>1, <3>2, <4>1
      <4>3. r[k].size = q
        BY <1>6, <1>7, <3>2
      <4> QED BY <4>2, <4>3
    <3>3. CASE k # n + 1
      <4>1. k \in 1 .. n /\ k \in 1 .. Len(gs)
        BY <1>1, <3>3
      <4> QED BY <1>7, <1>10, <3>1, <3>3, <4>1
    <3> QED BY <3>2, <3>3
  <2> HIDE DEF f
  <2> QED BY <1>8, <2>1, <2>2 DEF Runs, RunsTo
<1>12. \A k \in 0 .. Len(r) : Upto(r, k) = f[k]
  <2> HIDE DEF f
  <2> QED BY <1>8, <1>11, UptoRuns
<1>13. TotalSize(r) = f[Len(r)]
  <2> HIDE DEF f
  <2> QED BY <1>8, <1>11, TotalRuns
<1>14. TotalSize(r) = TotalSize(gs) - p + q
  <2>1. n + 1 \in 0 .. n + 1 /\ n + 1 \in 1 .. Len(gs) /\ n + 1 - 1 = n /\ n \in 0 .. Len(gs)
    BY <1>1
  <2>2. TotalSize(gs) = Upto(gs, n) + p /\ Upto(gs, n) \in Nat
    BY <1>1, <1>10, <2>1
  <2>3. TotalSize(r) = Upto(gs, n) + q
    BY <1>8, <1>13, <2>1
  <2> QED BY <1>1, <2>2, <2>3 DEF Size
<1>15. ASSUME NEW header \in Nat, OffsetsFrom(gs, header) PROVE OffsetsFrom(r, header)
  <2> SUFFICES ASSUME NEW i \in 1 .. n + 1 PROVE r[i].at = header + Upto(r, i - 1)
    BY <1>8 DEF OffsetsFrom
  <2>1. Upto(r, i - 1) = Upto(gs, i - 1)
    <3>1. i - 1 \in 0 .. n + 1 /\ i - 1 # n + 1 /\ i - 1 \in 0 .. Len(r)
      BY <1>1, <1>8
    <3> QED BY <1>12, <3>1
  <2>2. r[i].at = gs[i].at
    <3>1. CASE i = n + 1
      BY <1>6, <1>7, <3>1
    <3>2. CASE i # n + 1
      <4>1. i \in 1 .. n
        BY <1>1, <3>2
      <4> QED BY <1>7, <4>1
    <3> QED BY <3>1, <3>2
  <2> QED BY <1>1, <1>15, <2>1, <2>2 DEF OffsetsFrom
<1> QED BY <1>9, <1>14, <1>15 DEF r

LEMMA PaddingDropped ==
  ASSUME NEW gs, NEW bs, NEW p, Holds(gs, bs, p), p > 0
  PROVE  /\ Holds(Front(gs), bs, 0)
         /\ TotalSize(Front(gs)) = TotalSize(gs) - p
         /\ \A header \in Nat : OffsetsFrom(gs, header) => OffsetsFrom(Front(gs), header)
<1> DEFINE n == Len(bs)
           r == Front(gs)
           f == [k \in 0 .. n |-> Upto(gs, k)]
<1>1. /\ n \in Nat /\ Len(gs) = n + 1 /\ p \in Nat
      /\ gs \in Seq(Group) /\ bs \in Seq(Key)
      /\ gs[n + 1].size = p
  BY HoldsLengths DEF Holds
<1>2. r \in Seq(Group) /\ Len(r) = n /\ \A i \in 1 .. n : r[i] = gs[i]
  BY <1>1, FrontOf
<1> HIDE DEF r
<1>3. Holds(r, bs, 0)
  BY <1>1, <1>2 DEF Holds
<1>10. /\ Upto(gs, 0) = 0
       /\ \A k \in 1 .. Len(gs) : Upto(gs, k) = Upto(gs, k - 1) + gs[k].size
       /\ \A k \in 0 .. Len(gs) : Upto(gs, k) \in Nat
       /\ TotalSize(gs) = Upto(gs, Len(gs))
  BY <1>1, GroupsOfSection, UptoSteps
<1>11. Runs(f, r)
  BY <1>1, <1>2, <1>10 DEF Runs, RunsTo
<1>12. \A k \in 0 .. Len(r) : Upto(r, k) = f[k]
  <2> HIDE DEF f
  <2> QED BY <1>2, <1>11, UptoRuns
<1>13. TotalSize(r) = f[Len(r)]
  <2> HIDE DEF f
  <2> QED BY <1>2, <1>11, TotalRuns
<1>14. TotalSize(r) = TotalSize(gs) - p
  <2>1. n + 1 \in 1 .. Len(gs) /\ n + 1 - 1 = n /\ n \in 0 .. Len(gs) /\ n \in 0 .. n
    BY <1>1
  <2>2. TotalSize(gs) = Upto(gs, n) + p /\ Upto(gs, n) \in Nat
    BY <1>1, <1>10, <2>1
  <2> QED BY <1>1, <1>2, <1>13, <2>1, <2>2
<1>15. ASSUME NEW header \in Nat, OffsetsFrom(gs, header) PROVE OffsetsFrom(r, header)
  <2> SUFFICES ASSUME NEW i \in 1 .. n PROVE r[i].at = header + Upto(r, i - 1)
    BY <1>2 DEF OffsetsFrom
  <2>1. i - 1 \in 0 .. n /\ i - 1 \in 0 .. Len(r) /\ i \in 1 .. Len(gs)
    BY <1>1, <1>2
  <2> QED BY <1>1, <1>2, <1>12, <1>15, <2>1 DEF OffsetsFrom
<1> QED BY <1>3, <1>14, <1>15 DEF r

(***************************************************************************)
(* The operations on a section.                                            *)
(***************************************************************************)
\* The padding that is left when size bytes are taken, and what is missing.
Left(p, size)    == IF p > size THEN p - size ELSE 0
Missing(p, size) == IF p > size THEN 0 ELSE size - p

\* The padding when size bytes are given back, and what the payload loses.
Grown(p, size) == IF p > 0 THEN p + size ELSE 0
Given(p, size) == IF p > 0 THEN 0 ELSE size

\* A section whose free_sz has been computed.
Fresh(gs, bytes) == [groups |-> gs, payload |-> bytes, free |-> Capacity - TotalSize(gs)]

LEMMA FreshIs ==
  ASSUME NEW gs \in Seq(Group), NEW bytes \in Int
  PROVE  /\ Fresh(gs, bytes) \in Sections
         /\ TotalSize(gs) \in Nat
         /\ Fresh(gs, bytes).groups = gs /\ Fresh(gs, bytes).payload = bytes
         /\ Fresh(gs, bytes).free = Capacity - TotalSize(gs)
<1>1. TotalSize(gs) \in Nat
  BY GroupsOfSection, UptoSteps
<1>2. Capacity \in Int
  BY SectionAssumption
<1> HIDE DEF TotalSize
<1> QED BY <1>1, <1>2 DEF Fresh, Sections

LEMMA SectionIs ==
  ASSUME NEW s \in Sections
  PROVE  /\ s.groups \in Seq(Group) /\ s.payload \in Int /\ s.free \in Int
         /\ s = [groups |-> s.groups, payload |-> s.payload, free |-> s.free]
BY DEF Sections

LEMMA OtherGroups ==
  ASSUME NEW s \in Sections, NEW gs \in Seq(Group)
  PROVE  [s EXCEPT !.groups = gs] = [groups |-> gs, payload |-> s.payload, free |-> s.free]
<1> DEFINE t == [s EXCEPT !.groups = gs]
<1>1. t \in Sections /\ t.groups = gs /\ t.payload = s.payload /\ t.free = s.free
  BY DEF Sections
<1> HIDE DEF t
<1>2. t = [groups |-> gs, payload |-> s.payload, free |-> s.free]
  BY <1>1, SectionIs
<1> QED BY <1>2 DEF t

LEMMA OtherPayload ==
  ASSUME NEW s \in Sections, NEW n \in Int
  PROVE  [s EXCEPT !.payload = n] = [groups |-> s.groups, payload |-> n, free |-> s.free]
<1> DEFINE t == [s EXCEPT !.payload = n]
<1>1. t \in Sections /\ t.groups = s.groups /\ t.payload = n /\ t.free = s.free
  BY DEF Sections
<1> HIDE DEF t
<1>2. t = [groups |-> s.groups, payload |-> n, free |-> s.free]
  BY <1>1, SectionIs
<1> QED BY <1>2 DEF t

LEMMA OtherBoth ==
  ASSUME NEW s \in Sections, NEW gs \in Seq(Group), NEW n \in Int
  PROVE  [s EXCEPT !.groups = gs, !.payload = n] = [groups |-> gs, payload |-> n, free |-> s.free]
<1> DEFINE t == [s EXCEPT !.groups = gs, !.payload = n]
<1>1. t \in Sections /\ t.groups = gs /\ t.payload = n /\ t.free = s.free
  BY DEF Sections
<1> HIDE DEF t
<1>2. t = [groups |-> gs, payload |-> n, free |-> s.free]
  BY <1>1, SectionIs
<1> QED BY <1>2 DEF t

LEMMA CalcDataSZIs ==
  ASSUME NEW gs, NEW bytes, NEW left
  PROVE  CalcDataSZ([groups |-> gs, payload |-> bytes, free |-> left]) = Fresh(gs, bytes)
BY DEF CalcDataSZ, Fresh

LEMMA DisplayIDReserveIs ==
  ASSUME NEW s \in Sections, NEW bs, NEW p, Holds(s.groups, bs, p), NEW size \in Size
  PROVE  LET r == DisplayIDReserve(s, size)
         IN  /\ r = Fresh(r.groups, s.payload + Missing(p, size))
             /\ Holds(r.groups, bs, Left(p, size))
             /\ TotalSize(r.groups) = TotalSize(s.groups) - p + Left(p, size)
             /\ p <= size => r.groups = IF p > 0 THEN Front(s.groups) ELSE s.groups
             /\ \A header \in Nat : OffsetsFrom(s.groups, header) => OffsetsFrom(r.groups, header)
<1> DEFINE gs == s.groups
           r == DisplayIDReserve(s, size)
<1>1. /\ p \in Nat /\ size \in Nat /\ size > 0 /\ gs \in Seq(Group)
      /\ (HasPadding(gs) <=> p > 0) /\ (p > 0 => Last(gs) = gs[Len(gs)] /\ Last(gs).size = p)
      /\ s.payload \in Int
      /\ PaddingOf(gs) = p /\ (IF HasPadding(gs) THEN Last(gs).size ELSE 0) = p
  BY HoldsPadding, SectionIs DEF Holds, Size, PaddingOf
<1>2. r = CalcDataSZ(IF p > size
                     THEN [s EXCEPT !.groups[Len(s.groups)].size = @ - size]
                     ELSE [s EXCEPT !.groups = IF p > 0 THEN Front(@) ELSE @,
                                    !.payload = @ + (size - p)])
  BY <1>1 DEF DisplayIDReserve
<1>3. TotalSize(gs) \in Nat
  BY <1>1, GroupsOfSection, UptoSteps
<1>4. CASE p > size
  <2> DEFINE new == [gs EXCEPT ![Len(gs)].size = p - size]
  <2>1. gs[Len(gs)].size = p
    BY <1>1, <1>4
  <2>2. [s EXCEPT !.groups[Len(s.groups)].size = @ - size] = [s EXCEPT !.groups = new]
    BY <2>1 DEF Sections
  <2>3. p - size \in Size /\ Left(p, size) = p - size /\ Missing(p, size) = 0
    BY <1>1, <1>4 DEF Size, Left, Missing
  <2>8. p > 0
    BY <1>1, <1>4
  <2>4. /\ Holds(new, bs, p - size)
        /\ TotalSize(new) = TotalSize(gs) - p + (p - size)
        /\ \A header \in Nat : OffsetsFrom(gs, header) => OffsetsFrom(new, header)
    BY <2>3, <2>8, PaddingResized
  <2> HIDE DEF new
  <2>5. [s EXCEPT !.groups = new] = [groups |-> new, payload |-> s.payload, free |-> s.free]
    BY <2>4, OtherGroups DEF Holds
  <2>6. r = Fresh(new, s.payload)
    BY <1>2, <1>4, <2>2, <2>5, CalcDataSZIs
  <2>7. r.groups = new /\ s.payload + Missing(p, size) = s.payload
    BY <1>1, <2>3, <2>6 DEF Fresh
  <2> QED BY <1>1, <1>4, <2>3, <2>4, <2>6, <2>7
<1>5. CASE p <= size
  <2> DEFINE new == IF p > 0 THEN Front(gs) ELSE gs
  <2>1. Left(p, size) = 0 /\ Missing(p, size) = size - p
    BY <1>1, <1>5 DEF Left, Missing
  <2>2. /\ Holds(new, bs, 0)
        /\ TotalSize(new) = TotalSize(gs) - p
        /\ \A header \in Nat : OffsetsFrom(gs, header) => OffsetsFrom(new, header)
    <3>1. CASE p > 0
      BY <3>1, PaddingDropped
    <3>2. CASE p = 0
      BY <1>3, <3>2
    <3> QED BY <1>1, <3>1, <3>2
  <2> HIDE DEF new
  <2>3. [s EXCEPT !.groups = IF p > 0 THEN Front(@) ELSE @, !.payload = @ + (size - p)]
          = [groups |-> new, payload |-> s.payload + (size - p), free |-> s.free]
    <3>1. new \in Seq(Group) /\ s.payload + (size - p) \in Int
      BY <1>1, <2>2 DEF Holds
    <3>2. [s EXCEPT !.groups = new, !.payload = s.payload + (size - p)]
            = [groups |-> new, payload |-> s.payload + (size - p), free |-> s.free]
      BY <3>1, OtherBoth
    <3> QED BY <3>2, Zenon DEF new
  <2>4. r = Fresh(new, s.payload + (size - p))
    <3>1. ~(p > size)
      BY <1>1, <1>5
    <3> QED BY <1>2, <2>3, <3>1, CalcDataSZIs
  <2>5. r.groups = new
    BY <2>4 DEF Fresh
  <2>6. TotalSize(new) = TotalSize(gs) - p + 0
    BY <1>1, <1>3, <2>2
  <2> QED BY <2>1, <2>2, <2>4, <2>5, <2>6 DEF new
<1> QED BY <1>1, <1>4, <1>5 DEF r

LEMMA DisplayIDReleaseIs ==
  ASSUME NEW s \in Sections, NEW bs, NEW p, Holds(s.groups, bs, p), NEW size \in Size
  PROVE  LET r == DisplayIDRelease(s, size)
         IN  /\ r = Fresh(r.groups, s.payload - Given(p, size))
             /\ Holds(r.groups, bs, Grown(p, size))
             /\ TotalSize(r.groups) = TotalSize(s.groups) - p + Grown(p, size)
             /\ \A header \in Nat : OffsetsFrom(s.groups, header) => OffsetsFrom(r.groups, header)
<1> DEFINE gs == s.groups
           r == DisplayIDRelease(s, size)
<1>1. /\ p \in Nat /\ size \in Nat /\ size > 0 /\ gs \in Seq(Group)
      /\ (HasPadding(gs) <=> p > 0) /\ (p > 0 => Last(gs) = gs[Len(gs)] /\ Last(gs).size = p)
  BY HoldsPadding, SMTT(60) DEF Holds, Size
<1>2. r = CalcDataSZ(IF p > 0
                     THEN [s EXCEPT !.groups[Len(s.groups)].size = @ + size]
                     ELSE [s EXCEPT !.payload = @ - size])
  BY <1>1 DEF DisplayIDRelease
<1>3. TotalSize(gs) \in Nat /\ s.payload \in Int
  BY <1>1, GroupsOfSection, UptoSteps, SectionIs
<1>4. CASE p > 0
  <2> DEFINE new == [gs EXCEPT ![Len(gs)].size = p + size]
  <2>1. gs[Len(gs)].size = p
    BY <1>1, <1>4
  <2>2. [s EXCEPT !.groups[Len(s.groups)].size = @ + size] = [s EXCEPT !.groups = new]
    BY <2>1 DEF Sections
  <2>3. p + size \in Size /\ Grown(p, size) = p + size /\ Given(p, size) = 0
    BY <1>1, <1>4 DEF Size, Grown, Given
  <2>4. /\ Holds(new, bs, p + size)
        /\ TotalSize(new) = TotalSize(gs) - p + (p + size)
        /\ \A header \in Nat : OffsetsFrom(gs, header) => OffsetsFrom(new, header)
    BY <1>1, <1>4, <2>3, PaddingResized
  <2> HIDE DEF new
  <2>5. [s EXCEPT !.groups = new] = [groups |-> new, payload |-> s.payload, free |-> s.free]
    BY <2>4, OtherGroups DEF Holds
  <2>6. r = Fresh(new, s.payload)
    BY <1>2, <1>4, <2>2, <2>5, CalcDataSZIs
  <2>7. r.groups = new /\ s.payload - Given(p, size) = s.payload
    BY <1>3, <2>3, <2>6 DEF Fresh
  <2> QED BY <2>3, <2>4, <2>6, <2>7
<1>5. CASE p = 0
  <2>1. Grown(p, size) = 0 /\ Given(p, size) = size
    BY <1>1, <1>5 DEF Grown, Given
  <2>2. [s EXCEPT !.payload = @ - size]
          = [groups |-> gs, payload |-> s.payload - size, free |-> s.free]
    <3>1. s.payload - size \in Int
      BY <1>1, <1>3
    <3> QED BY <3>1, OtherPayload
  <2>3. r = Fresh(gs, s.payload - size)
    BY <1>2, <1>5, <2>2, CalcDataSZIs
  <2>4. r.groups = gs
    BY <2>3 DEF Fresh
  <2> QED BY <1>3, <1>5, <2>1, <2>3, <2>4
<1> QED BY <1>1, <1>4, <1>5 DEF r

LEMMA HoldsKept ==
  ASSUME NEW gs, NEW bs, NEW p, Holds(gs, bs, p), NEW cs \in Seq(Key),
         NEW t \in Seq(Group), Len(t) - Len(cs) = Len(gs) - Len(bs),
         \A i \in 1 .. Len(cs) : t[i].kind = "data" /\ KeyOf(t[i]) = cs[i],
         p > 0 => Same(t[Len(t)], gs[Len(gs)])
  PROVE  Holds(t, cs, p)
<1>1. /\ Len(gs) \in Nat /\ Len(bs) \in Nat /\ p \in Nat
      /\ \A i \in 1 .. Len(gs) : gs[i] \in Group
  BY HoldsLengths DEF Holds
<1>2. Len(t) \in Nat /\ Len(cs) \in Nat
  BY LenProperties
<1>3. CASE p = 0
  <2>1. Len(gs) = Len(bs)
    BY <1>3 DEF Holds
  <2> QED BY <1>1, <1>2, <1>3, <2>1 DEF Holds
<1>4. CASE p > 0
  <2>1. /\ Len(gs) = Len(bs) + 1 /\ gs[Len(gs)].kind = "padding"
        /\ gs[Len(gs)].id = 0 /\ gs[Len(gs)].size = p
    BY <1>4 DEF Holds
  <2>2. gs[Len(gs)] \in Group
    BY <1>1, <2>1
  <2>3. /\ t[Len(t)].kind = "padding" /\ t[Len(t)].id = 0 /\ t[Len(t)].size = p
    BY <1>4, <2>1, <2>2, SameGroup
  <2>4. Len(t) = Len(cs) + 1
    BY <1>1, <1>2, <2>1
  <2> QED BY <1>1, <1>4, <2>3, <2>4 DEF Holds
<1> QED BY <1>1, <1>3, <1>4

LEMMA InsertedHolds ==
  ASSUME NEW gs, NEW bs, NEW p, Holds(gs, bs, p), NEW i \in 1 .. Len(bs) + 1,
         NEW g, IsBlock(g), NEW t \in Seq(Group), Len(t) = Len(gs) + 1,
         \A j \in 1 .. i - 1 : t[j] = gs[j],
         Same(t[i], g),
         \A j \in i + 1 .. Len(gs) + 1 : Same(t[j], gs[j - 1])
  PROVE  Holds(t, InsertAt(bs, i, KeyOf(g)), p)
<1> DEFINE cs == InsertAt(bs, i, KeyOf(g))
<1>1. /\ Len(gs) \in Nat /\ Len(bs) \in Nat /\ Len(bs) <= Len(gs) /\ bs \in Seq(Key)
      /\ \A j \in 1 .. Len(gs) : gs[j] \in Group
      /\ \A j \in 1 .. Len(bs) : gs[j].kind = "data" /\ KeyOf(gs[j]) = bs[j]
  BY HoldsLengths DEF Holds
<1>2. KeyOf(g) \in Key /\ g \in Group /\ g.kind = "data"
  BY DEF KeyOf, Key, IsBlock, Group, Size
<1>3. /\ cs \in Seq(Key) /\ Len(cs) = Len(bs) + 1
      /\ \A j \in 1 .. i - 1 : cs[j] = bs[j]
      /\ cs[i] = KeyOf(g)
      /\ \A j \in i + 1 .. Len(bs) + 1 : cs[j] = bs[j - 1]
  BY <1>1, <1>2, InsertAtIs, SMTT(90)
<1> HIDE DEF cs
<1>4. ASSUME NEW j \in 1 .. Len(cs) PROVE t[j].kind = "data" /\ KeyOf(t[j]) = cs[j]
  <2>1. CASE j < i
    <3>1. j \in 1 .. i - 1 /\ j \in 1 .. Len(bs)
      BY <1>1, <1>3, <2>1
    <3> QED BY <1>1, <1>3, <3>1
  <2>2. CASE j = i
    BY <1>2, <1>3, <2>2, SameGroup DEF KeyOf
  <2>3. CASE j > i
    <3>1. j \in i + 1 .. Len(gs) + 1 /\ j \in i + 1 .. Len(bs) + 1 /\ j - 1 \in 1 .. Len(bs) /\ j - 1 \in 1 .. Len(gs)
      BY <1>1, <1>3, <2>3
    <3>2. Same(t[j], gs[j - 1]) /\ gs[j - 1] \in Group
      BY <1>1, <3>1
    <3>3. t[j].kind = gs[j - 1].kind /\ KeyOf(t[j]) = KeyOf(gs[j - 1])
      BY <3>2, SameGroup DEF KeyOf
    <3> QED BY <1>1, <1>3, <3>1, <3>3
  <2> QED BY <1>1, <1>3, <2>1, <2>2, <2>3
<1>5. Len(t) - Len(cs) = Len(gs) - Len(bs)
  BY <1>1, <1>3
<1>6. ASSUME p > 0 PROVE Same(t[Len(t)], gs[Len(gs)])
  <2>1. Len(gs) = Len(bs) + 1
    BY <1>6 DEF Holds
  <2>2. Len(t) \in i + 1 .. Len(gs) + 1 /\ Len(t) - 1 = Len(gs)
    BY <1>1, <2>1
  <2> QED BY <2>2
<1>7. Holds(t, cs, p)
  BY <1>3, <1>4, <1>5, <1>6, HoldsKept
<1> QED BY <1>7 DEF cs

LEMMA RemovedHolds ==
  ASSUME NEW gs, NEW bs, NEW p, Holds(gs, bs, p), NEW i \in 1 .. Len(bs),
         NEW t \in Seq(Group), Len(t) = Len(gs) - 1,
         \A j \in 1 .. i - 1 : t[j] = gs[j],
         \A j \in i .. Len(gs) - 1 : Same(t[j], gs[j + 1])
  PROVE  Holds(t, RemoveAt(bs, i), p)
<1> DEFINE cs == RemoveAt(bs, i)
<1>1. /\ Len(gs) \in Nat /\ Len(bs) \in Nat /\ Len(bs) <= Len(gs) /\ bs \in Seq(Key)
      /\ \A j \in 1 .. Len(gs) : gs[j] \in Group
      /\ \A j \in 1 .. Len(bs) : gs[j].kind = "data" /\ KeyOf(gs[j]) = bs[j]
  BY HoldsLengths DEF Holds
<1>2. /\ cs \in Seq(Key) /\ Len(cs) = Len(bs) - 1
      /\ \A j \in 1 .. i - 1 : cs[j] = bs[j]
      /\ \A j \in i .. Len(bs) - 1 : cs[j] = bs[j + 1]
  BY <1>1, RemoveAtIs
<1> HIDE DEF cs
<1>3. ASSUME NEW j \in 1 .. Len(cs) PROVE t[j].kind = "data" /\ KeyOf(t[j]) = cs[j]
  <2>1. CASE j < i
    <3>1. j \in 1 .. i - 1 /\ j \in 1 .. Len(bs)
      BY <1>1, <1>2, <2>1
    <3> QED BY <1>1, <1>2, <3>1
  <2>2. CASE j >= i
    <3>1. j \in i .. Len(gs) - 1 /\ j \in i .. Len(bs) - 1 /\ j + 1 \in 1 .. Len(bs) /\ j + 1 \in 1 .. Len(gs)
      BY <1>1, <1>2, <2>2
    <3>2. Same(t[j], gs[j + 1]) /\ gs[j + 1] \in Group
      BY <1>1, <3>1
    <3>3. t[j].kind = gs[j + 1].kind /\ KeyOf(t[j]) = KeyOf(gs[j + 1])
      BY <3>2, SameGroup DEF KeyOf
    <3> QED BY <1>1, <1>2, <3>1, <3>3
  <2> QED BY <1>1, <1>2, <2>1, <2>2
<1>4. Len(t) - Len(cs) = Len(gs) - Len(bs)
  BY <1>1, <1>2
<1>5. ASSUME p > 0 PROVE Same(t[Len(t)], gs[Len(gs)])
  <2>1. Len(gs) = Len(bs) + 1
    BY <1>5 DEF Holds
  <2>2. Len(t) \in i .. Len(gs) - 1 /\ Len(t) + 1 = Len(gs)
    BY <1>1, <2>1
  <2> QED BY <2>2
<1>6. Holds(t, cs, p)
  BY <1>2, <1>3, <1>4, <1>5, HoldsKept
<1> QED BY <1>6 DEF cs

\* Two neighbours of a sequence change places.
Swapped(s, i) == [s EXCEPT ![i] = s[i + 1], ![i + 1] = s[i]]

LEMMA SwappedTwice ==
  ASSUME NEW S, NEW s \in Seq(S), NEW i \in 1 .. Len(s) - 1
  PROVE  Swapped(Swapped(s, i), i) = s
<1> DEFINE t == Swapped(s, i)
           u == Swapped(t, i)
<1>1. /\ t \in Seq(S) /\ Len(t) = Len(s)
      /\ t[i] = s[i + 1] /\ t[i + 1] = s[i]
      /\ \A j \in 1 .. Len(s) : j # i /\ j # i + 1 => t[j] = s[j]
  BY SwappedIs DEF Swapped
<1> HIDE DEF t
<1>2. i \in 1 .. Len(t) - 1
  BY <1>1
<1>3. /\ u \in Seq(S) /\ Len(u) = Len(t)
      /\ u[i] = t[i + 1] /\ u[i + 1] = t[i]
      /\ \A j \in 1 .. Len(t) : j # i /\ j # i + 1 => u[j] = t[j]
  BY <1>1, <1>2, SwappedIs DEF Swapped
<1> HIDE DEF u
<1>4. \A j \in 1 .. Len(u) : u[j] = s[j]
  BY <1>1, <1>3
<1>5. u = s
  BY <1>1, <1>3, <1>4, SeqEqual
<1> QED BY <1>5 DEF u, t

LEMMA SwappedHolds ==
  ASSUME NEW gs, NEW bs, NEW p, Holds(gs, bs, p), NEW i \in 1 .. Len(bs) - 1,
         NEW t \in Seq(Group), Len(t) = Len(gs),
         Same(t[i], gs[i + 1]), Same(t[i + 1], gs[i]),
         \A j \in 1 .. Len(gs) : j # i /\ j # i + 1 => Same(t[j], gs[j])
  PROVE  Holds(t, Swapped(bs, i), p)
<1> DEFINE cs == Swapped(bs, i)
<1>1. /\ Len(gs) \in Nat /\ Len(bs) \in Nat /\ Len(bs) <= Len(gs) /\ bs \in Seq(Key)
      /\ \A j \in 1 .. Len(gs) : gs[j] \in Group
      /\ \A j \in 1 .. Len(bs) : gs[j].kind = "data" /\ KeyOf(gs[j]) = bs[j]
  BY HoldsLengths DEF Holds
<1>2. /\ cs \in Seq(Key) /\ Len(cs) = Len(bs)
      /\ cs[i] = bs[i + 1] /\ cs[i + 1] = bs[i]
      /\ \A j \in 1 .. Len(bs) : j # i /\ j # i + 1 => cs[j] = bs[j]
  BY <1>1, SwappedIs DEF Swapped
<1> HIDE DEF cs
<1>3. \A k \in 1 .. Len(bs) : \A h : Same(h, gs[k]) => h.kind = "data" /\ KeyOf(h) = bs[k]
  <2> SUFFICES ASSUME NEW k \in 1 .. Len(bs), NEW h, Same(h, gs[k])
               PROVE  h.kind = "data" /\ KeyOf(h) = bs[k]
    OBVIOUS
  <2>1. gs[k] \in Group /\ gs[k].kind = "data" /\ KeyOf(gs[k]) = bs[k]
    BY <1>1
  <2> QED BY <2>1, SameGroup DEF KeyOf
<1>4. ASSUME NEW j \in 1 .. Len(cs) PROVE t[j].kind = "data" /\ KeyOf(t[j]) = cs[j]
  <2>1. i \in 1 .. Len(bs) /\ i + 1 \in 1 .. Len(bs) /\ j \in 1 .. Len(bs) /\ j \in 1 .. Len(gs)
    BY <1>1, <1>2
  <2>2. CASE j = i
    BY <1>2, <1>3, <2>1, <2>2
  <2>3. CASE j = i + 1
    BY <1>2, <1>3, <2>1, <2>3
  <2>4. CASE j # i /\ j # i + 1
    BY <1>2, <1>3, <2>1, <2>4
  <2> QED BY <2>2, <2>3, <2>4
<1>5. Len(t) - Len(cs) = Len(gs) - Len(bs)
  BY <1>2
<1>6. ASSUME p > 0 PROVE Same(t[Len(t)], gs[Len(gs)])
  <2>1. Len(gs) = Len(bs) + 1
    BY <1>6 DEF Holds
  <2>2. Len(gs) \in 1 .. Len(gs) /\ Len(gs) # i /\ Len(gs) # i + 1
    BY <1>1, <2>1
  <2> QED BY <2>2
<1>7. Holds(t, cs, p)
  BY <1>2, <1>4, <1>5, <1>6, HoldsKept
<1> QED BY <1>7 DEF cs

LEMMA HeaderIs == HeaderSize \in Nat
BY DEF HeaderSize

\* What a section is after block g came to index i of its data blocks.
Inserted(s, r, bs, p, i, g) ==
  /\ r = Fresh(r.groups, s.payload + Missing(p, g.size))
  /\ Holds(r.groups, InsertAt(bs, i, KeyOf(g)), Left(p, g.size))
  /\ TotalSize(r.groups) = TotalSize(s.groups) + Missing(p, g.size)

LEMMA RoomIs ==
  ASSUME NEW p \in Nat, NEW size \in Size
  PROVE  /\ Left(p, size) \in Nat /\ Missing(p, size) \in Nat
         /\ Left(p, size) <= p
         /\ Missing(p, size) = size - p + Left(p, size)
         /\ Grown(p, size) \in Nat /\ Given(p, size) \in Nat
         /\ Given(p, size) = size - Grown(p, size) + p
BY DEF Left, Missing, Grown, Given, Size

LEMMA InsertDnIs ==
  ASSUME NEW s \in Sections, NEW bs, NEW p, Holds(s.groups, bs, p),
         NEW i \in 0 .. Len(bs), NEW g, IsBlock(g)
  PROVE  LET r == InsertDn(s, i, g)
         IN  /\ Inserted(s, r, bs, p, i + 1, g)
             /\ OffsetsFrom(s.groups, HeaderSize) => OffsetsFrom(r.groups, HeaderSize)
<1> DEFINE a == DisplayIDReserve(s, g.size)
           new == BaseInsertDn(a.groups, HeaderSize, i, g)
           r == InsertDn(s, i, g)
<1>1. g \in Group /\ g.size \in Size /\ p \in Nat /\ s.groups \in Seq(Group) /\ s.payload \in Int
  BY SectionIs DEF IsBlock, Group, Holds
<1>2. /\ a = Fresh(a.groups, s.payload + Missing(p, g.size))
      /\ Holds(a.groups, bs, Left(p, g.size))
      /\ TotalSize(a.groups) = TotalSize(s.groups) - p + Left(p, g.size)
      /\ p <= g.size => a.groups = IF p > 0 THEN Front(s.groups) ELSE s.groups
      /\ \A header \in Nat : OffsetsFrom(s.groups, header) => OffsetsFrom(a.groups, header)
  BY <1>1, DisplayIDReserveIs
<1>3. Missing(p, g.size) \in Nat /\ Missing(p, g.size) = g.size - p + Left(p, g.size) /\ Left(p, g.size) \in Nat
  BY <1>1, RoomIs
<1>4. r = CalcDataSZ([a EXCEPT !.groups = new])
  BY DEF InsertDn
<1> HIDE DEF a
<1>5. a.groups \in Seq(Group) /\ s.payload + Missing(p, g.size) \in Int
  BY <1>1, <1>2, <1>3 DEF Holds
<1>6. a \in Sections /\ a.payload = s.payload + Missing(p, g.size)
  BY <1>2, <1>5, FreshIs
<1>7. i \in 0 .. Len(a.groups) /\ Len(a.groups) \in Nat /\ Len(bs) \in Nat /\ Len(bs) <= Len(a.groups)
  BY <1>2, HoldsLengths
<1>8. /\ new \in Seq(Group) /\ Len(new) = Len(a.groups) + 1
      /\ \A j \in 1 .. i : new[j] = a.groups[j]
      /\ Same(new[i + 1], g)
      /\ \A j \in i + 2 .. Len(a.groups) + 1 : Same(new[j], a.groups[j - 1])
      /\ TotalSize(new) = TotalSize(a.groups) + g.size
      /\ OffsetsFrom(a.groups, HeaderSize) => OffsetsFrom(new, HeaderSize)
  BY <1>1, <1>5, <1>7, HeaderIs, GroupsOfSection, BaseInsertDnIs
<1> HIDE DEF new
<1>9. r = Fresh(new, s.payload + Missing(p, g.size))
  <2>1. [a EXCEPT !.groups = new] = [groups |-> new, payload |-> a.payload, free |-> a.free]
    BY <1>6, <1>8, OtherGroups
  <2> QED BY <1>4, <1>6, <2>1, CalcDataSZIs
<1> HIDE DEF r
<1>10. r.groups = new
  BY <1>9 DEF Fresh
<1>11. Holds(new, InsertAt(bs, i + 1, KeyOf(g)), Left(p, g.size))
  <2>1. i + 1 \in 1 .. Len(bs) + 1 /\ i + 1 - 1 = i /\ i + 1 + 1 = i + 2
    BY <1>7
  <2>2. /\ \A j \in 1 .. i + 1 - 1 : new[j] = a.groups[j]
        /\ \A j \in i + 1 + 1 .. Len(a.groups) + 1 : Same(new[j], a.groups[j - 1])
    BY <1>8, <2>1
  <2> QED BY <1>2, <1>8, <2>1, <2>2, InsertedHolds, SMTT(60)
<1>12. TotalSize(new) = TotalSize(s.groups) + Missing(p, g.size)
  <2>1. TotalSize(s.groups) \in Nat
    BY <1>1, GroupsOfSection, UptoSteps
  <2> QED BY <1>1, <1>2, <1>3, <1>8, <2>1, SMTT(60) DEF Size
<1>13. OffsetsFrom(s.groups, HeaderSize) => OffsetsFrom(new, HeaderSize)
  BY <1>2, <1>8, HeaderIs
<1> QED BY <1>9, <1>10, <1>11, <1>12, <1>13 DEF Inserted, r

\* The last data block, in front of the padding.
LEMMA InsertUpIs ==
  ASSUME NEW s \in Sections, NEW bs, NEW p, Holds(s.groups, bs, p), p > 0,
         NEW g, IsBlock(g), NEW r \in InsertUp(s, Len(s.groups), g)
  PROVE  Inserted(s, r, bs, p, Len(bs) + 1, g)
<1> DEFINE n == Len(s.groups)
           a == DisplayIDReserve(s, g.size)
<1>1. g \in Group /\ g.size \in Size /\ p \in Nat /\ s.groups \in Seq(Group) /\ s.payload \in Int
  BY SectionIs DEF IsBlock, Group, Holds
<1>2. /\ a = Fresh(a.groups, s.payload + Missing(p, g.size))
      /\ Holds(a.groups, bs, Left(p, g.size))
      /\ TotalSize(a.groups) = TotalSize(s.groups) - p + Left(p, g.size)
      /\ p <= g.size => a.groups = IF p > 0 THEN Front(s.groups) ELSE s.groups
      /\ \A header \in Nat : OffsetsFrom(s.groups, header) => OffsetsFrom(a.groups, header)
  BY <1>1, DisplayIDReserveIs
<1>3. Missing(p, g.size) \in Nat /\ Missing(p, g.size) = g.size - p + Left(p, g.size) /\ Left(p, g.size) \in Nat
  BY <1>1, RoomIs
<1>4. PICK at \in (IF n <= Len(a.groups) THEN {a.groups[n].at} ELSE {s.groups[n].at, Stray}) :
        r = CalcDataSZ([a EXCEPT !.groups = PlaceAt(@, n, g, at)])
  BY DEF InsertUp, Placed
<1> DEFINE new == PlaceAt(a.groups, n, g, at)
<1> HIDE DEF a
<1>5. a.groups \in Seq(Group) /\ s.payload + Missing(p, g.size) \in Int
  BY <1>1, <1>2, <1>3 DEF Holds
<1>6. a \in Sections /\ a.payload = s.payload + Missing(p, g.size)
  BY <1>2, <1>5, FreshIs
<1>7. /\ n = Len(bs) + 1 /\ Len(bs) \in Nat /\ n \in 1 .. Len(a.groups) + 1
      /\ Len(a.groups) \in Nat /\ Len(bs) <= Len(a.groups) /\ n \in 1 .. Len(s.groups)
  BY <1>2, HoldsLengths DEF Holds
<1>8. at \in Offset
  <2>1. n <= Len(a.groups) => a.groups[n] \in Group
    BY <1>2, <1>7, HoldsLengths
  <2>2. s.groups[n] \in Group
    BY <1>7, HoldsLengths
  <2> QED BY <1>4, <2>1, <2>2 DEF Group, Offset
<1>9. /\ new \in Seq(Group) /\ Len(new) = Len(a.groups) + 1
      /\ \A j \in 1 .. n - 1 : new[j] = a.groups[j]
      /\ Same(new[n], g)
      /\ \A j \in n + 1 .. Len(a.groups) + 1 : Same(new[j], a.groups[j - 1])
      /\ TotalSize(new) = TotalSize(a.groups) + g.size
      /\ \A header \in Nat : OffsetsFrom(a.groups, header) /\ at = header + Upto(a.groups, n - 1)
                               => OffsetsFrom(new, header)
  BY <1>1, <1>5, <1>7, <1>8, GroupsOfSection, PlaceAtIs, ZenonT(60)
<1>10. r = CalcDataSZ([a EXCEPT !.groups = new])
  BY <1>4
<1> HIDE DEF new
<1>11. r = Fresh(new, s.payload + Missing(p, g.size))
  <2>1. [a EXCEPT !.groups = new] = [groups |-> new, payload |-> a.payload, free |-> a.free]
    BY <1>6, <1>9, OtherGroups
  <2> QED BY <1>6, <1>10, <2>1, CalcDataSZIs
<1>12. r.groups = new
  BY <1>11 DEF Fresh
<1>13. Holds(new, InsertAt(bs, n, KeyOf(g)), Left(p, g.size))
  <2>1. n \in 1 .. Len(bs) + 1
    BY <1>7
  <2> QED BY <1>2, <1>9, <2>1, InsertedHolds
<1>14. TotalSize(new) = TotalSize(s.groups) + Missing(p, g.size)
  <2>1. TotalSize(s.groups) \in Nat
    BY <1>1, GroupsOfSection, UptoSteps
  <2> QED BY <1>1, <1>2, <1>3, <1>9, <2>1 DEF Size
<1> QED BY <1>7, <1>11, <1>12, <1>13, <1>14 DEF Inserted

\* What a section is after the data block at index i was removed.
Removed(s, r, bs, p, i) ==
  LET size == s.groups[i].size
  IN  /\ r = Fresh(r.groups, s.payload - Given(p, size))
      /\ Holds(r.groups, RemoveAt(bs, i), Grown(p, size))
      /\ TotalSize(r.groups) = TotalSize(s.groups) - Given(p, size)

LEMMA CutIs ==
  ASSUME NEW s \in Sections, NEW bs, NEW p, Holds(s.groups, bs, p), NEW i \in 1 .. Len(bs)
  PROVE  LET r == Cut(s, i)
         IN  /\ Removed(s, r, bs, p, i)
             /\ OffsetsFrom(s.groups, HeaderSize) => OffsetsFrom(r.groups, HeaderSize)
<1> DEFINE size == s.groups[i].size
           c == BaseCut(s.groups, i)
           a == [s EXCEPT !.groups = c]
           r == Cut(s, i)
<1>1. /\ p \in Nat /\ s.groups \in Seq(Group) /\ s.payload \in Int /\ s.free \in Int
      /\ Len(bs) \in Nat /\ Len(bs) <= Len(s.groups) /\ Len(s.groups) \in Nat
      /\ \A j \in 1 .. Len(s.groups) : s.groups[j] \in Group
  BY SectionIs, HoldsLengths DEF Holds
<1>2. i \in 1 .. Len(s.groups) /\ size \in Size
  BY <1>1 DEF Group
<1>3. /\ c \in Seq(Group) /\ Len(c) = Len(s.groups) - 1
      /\ \A j \in 1 .. i - 1 : c[j] = s.groups[j]
      /\ \A j \in i .. Len(s.groups) - 1 : Same(c[j], s.groups[j + 1])
      /\ TotalSize(c) = TotalSize(s.groups) - s.groups[i].size
      /\ \A header \in Nat : OffsetsFrom(s.groups, header) => OffsetsFrom(c, header)
  BY <1>1, <1>2, GroupsOfSection, BaseCutIs
<1>4. r = DisplayIDRelease(a, size)
  BY DEF Cut
<1> HIDE DEF c
<1>5. a = [groups |-> c, payload |-> s.payload, free |-> s.free]
  BY <1>3, OtherGroups
<1> HIDE DEF a
<1>6. a \in Sections /\ a.groups = c /\ a.payload = s.payload
  BY <1>1, <1>3, <1>5 DEF Sections
<1>7. Holds(a.groups, RemoveAt(bs, i), p)
  BY <1>3, <1>6, RemovedHolds
<1>8. /\ r = Fresh(r.groups, a.payload - Given(p, size))
      /\ Holds(r.groups, RemoveAt(bs, i), Grown(p, size))
      /\ TotalSize(r.groups) = TotalSize(a.groups) - p + Grown(p, size)
      /\ \A header \in Nat : OffsetsFrom(a.groups, header) => OffsetsFrom(r.groups, header)
  <2> DEFINE q == DisplayIDRelease(a, size)
  <2> HIDE DEF size
  <2>1. /\ q = Fresh(q.groups, a.payload - Given(p, size))
        /\ Holds(q.groups, RemoveAt(bs, i), Grown(p, size))
        /\ TotalSize(q.groups) = TotalSize(a.groups) - p + Grown(p, size)
        /\ \A header \in Nat : OffsetsFrom(a.groups, header) => OffsetsFrom(q.groups, header)
    BY <1>2, <1>6, <1>7, DisplayIDReleaseIs
  <2> QED BY <1>4, <2>1
<1>9. TotalSize(r.groups) = TotalSize(s.groups) - Given(p, size)
  <2>1. TotalSize(s.groups) \in Nat
    BY <1>1, GroupsOfSection, UptoSteps
  <2>2. Given(p, size) = size - Grown(p, size) + p /\ Grown(p, size) \in Nat
    BY <1>1, <1>2, RoomIs
  <2> QED BY <1>1, <1>2, <1>3, <1>6, <1>8, <2>1, <2>2, SMTT(60) DEF Size
<1>10. OffsetsFrom(s.groups, HeaderSize) => OffsetsFrom(r.groups, HeaderSize)
  BY <1>3, <1>6, <1>8, HeaderIs
<1> QED BY <1>6, <1>8, <1>9, <1>10 DEF Removed

LEMMA MoveDnIs ==
  ASSUME NEW s \in Sections, NEW bs, NEW p, Holds(s.groups, bs, p), NEW i \in 1 .. Len(bs) - 1
  PROVE  LET r == MoveDn(s, i)
         IN  /\ r \in Sections /\ r.payload = s.payload /\ r.free = s.free
             /\ Holds(r.groups, Swapped(bs, i), p)
             /\ TotalSize(r.groups) = TotalSize(s.groups)
             /\ OffsetsFrom(s.groups, HeaderSize) => OffsetsFrom(r.groups, HeaderSize)
<1> DEFINE m == BaseMoveDn(s.groups, i)
           r == MoveDn(s, i)
<1>1. /\ p \in Nat /\ s.groups \in Seq(Group) /\ s.payload \in Int /\ s.free \in Int
      /\ Len(bs) \in Nat /\ Len(bs) <= Len(s.groups) /\ Len(s.groups) \in Nat
  BY SectionIs, HoldsLengths DEF Holds
<1>2. i \in 1 .. Len(s.groups) - 1
  BY <1>1
<1>3. /\ m \in Seq(Group) /\ Len(m) = Len(s.groups)
      /\ Same(m[i], s.groups[i + 1]) /\ Same(m[i + 1], s.groups[i])
      /\ \A j \in 1 .. Len(s.groups) : j # i /\ j # i + 1 => Same(m[j], s.groups[j])
      /\ TotalSize(m) = TotalSize(s.groups)
      /\ \A header \in Nat : OffsetsFrom(s.groups, header) => OffsetsFrom(m, header)
  BY <1>1, <1>2, GroupsOfSection, BaseMoveDnIs
<1>4. r = [s EXCEPT !.groups = m]
  BY DEF MoveDn
<1> HIDE DEF m
<1>5. r = [groups |-> m, payload |-> s.payload, free |-> s.free]
  BY <1>3, <1>4, OtherGroups
<1>6. r \in Sections /\ r.groups = m /\ r.payload = s.payload /\ r.free = s.free
  BY <1>1, <1>3, <1>5 DEF Sections
<1>7. Holds(m, Swapped(bs, i), p)
  BY <1>3, SwappedHolds
<1> HIDE DEF r
<1> QED BY <1>3, <1>6, <1>7, HeaderIs DEF r

LEMMA RoomBack ==
  ASSUME NEW p \in Nat, NEW size \in Size
  PROVE  Left(Grown(p, size), size) = p /\ Missing(Grown(p, size), size) = Given(p, size)
BY DEF Left, Missing, Grown, Given, Size

LEMMA Replaced ==
  ASSUME NEW S, NEW s \in Seq(S), NEW i \in 1 .. Len(s), NEW e \in S
  PROVE  InsertAt(RemoveAt(s, i), i, e) = [s EXCEPT ![i] = e]
<1> DEFINE r == RemoveAt(s, i)
           t == InsertAt(r, i, e)
           u == [s EXCEPT ![i] = e]
<1>1. Len(s) \in Nat
  BY LenProperties
<1>2. /\ r \in Seq(S) /\ Len(r) = Len(s) - 1
      /\ \A j \in 1 .. i - 1 : r[j] = s[j]
      /\ \A j \in i .. Len(s) - 1 : r[j] = s[j + 1]
  BY RemoveAtIs
<1> HIDE DEF r
<1>3. i \in 1 .. Len(r) + 1
  BY <1>1, <1>2
<1>4. /\ t \in Seq(S) /\ Len(t) = Len(r) + 1
      /\ \A j \in 1 .. i - 1 : t[j] = r[j]
      /\ t[i] = e
      /\ \A j \in i + 1 .. Len(r) + 1 : t[j] = r[j - 1]
  BY <1>2, <1>3, InsertAtIs, SMTT(30)
<1> HIDE DEF t
<1>5. /\ u \in Seq(S) /\ Len(u) = Len(s)
      /\ \A j \in 1 .. Len(s) : u[j] = IF j = i THEN e ELSE s[j]
  BY ExceptSeq
<1> HIDE DEF u
<1>6. ASSUME NEW j \in 1 .. Len(s) PROVE t[j] = u[j]
  <2>1. CASE j < i
    BY <1>1, <1>2, <1>4, <1>5, <2>1
  <2>2. CASE j = i
    BY <1>4, <1>5, <2>2
  <2>3. CASE j > i
    <3>1. j \in i + 1 .. Len(r) + 1 /\ j - 1 \in i .. Len(s) - 1 /\ j - 1 + 1 = j
      BY <1>1, <1>2, <2>3
    <3>2. t[j] = r[j - 1] /\ r[j - 1] = s[j - 1 + 1]
      BY <1>2, <1>4, <3>1
    <3> QED BY <1>5, <2>3, <3>1, <3>2
  <2> QED BY <1>1, <2>1, <2>2, <2>3
<1>7. Len(t) = Len(s)
  BY <1>1, <1>2, <1>4
<1>8. t = u
  BY <1>4, <1>5, <1>6, <1>7, SeqEqual
<1> QED BY <1>8 DEF t, r, u

\* A block of the same size in the place of another: nothing else changes.
Exchanged(s, r, bs, p) ==
  /\ r = Fresh(r.groups, s.payload)
  /\ Holds(r.groups, bs, p)
  /\ TotalSize(r.groups) = TotalSize(s.groups)
  /\ OffsetsFrom(s.groups, HeaderSize) => OffsetsFrom(r.groups, HeaderSize)

LEMMA ExchangedIs ==
  ASSUME NEW s \in Sections, NEW bs, NEW p, Holds(s.groups, bs, p), NEW i \in 1 .. Len(bs),
         NEW g, IsBlock(g), g.size = bs[i][2]
  PROVE  Exchanged(s, InsertGroupAt(Cut(s, i), i, g), [bs EXCEPT ![i] = KeyOf(g)], p)
<1> DEFINE c == Cut(s, i)
           cs == RemoveAt(bs, i)
           q == Grown(p, g.size)
           r == InsertGroupAt(c, i, g)
<1>1. /\ p \in Nat /\ s.groups \in Seq(Group) /\ s.payload \in Int /\ bs \in Seq(Key)
      /\ Len(bs) \in Nat
      /\ g \in Group /\ g.size \in Size /\ s.groups[i].size = g.size
      /\ KeyOf(g) \in Key
  BY SectionIs, HoldsLengths, SMTT(60) DEF Holds, IsBlock, Group, KeyOf, Key, Size
<1>2. /\ Removed(s, c, bs, p, i)
      /\ OffsetsFrom(s.groups, HeaderSize) => OffsetsFrom(c.groups, HeaderSize)
  BY CutIs
<1> HIDE DEF c
<1>3. /\ c = Fresh(c.groups, s.payload - Given(p, g.size))
      /\ Holds(c.groups, cs, q)
      /\ TotalSize(c.groups) = TotalSize(s.groups) - Given(p, g.size)
  BY <1>1, <1>2 DEF Removed
<1>4. Given(p, g.size) \in Nat /\ q \in Nat /\ Left(q, g.size) = p /\ Missing(q, g.size) = Given(p, g.size)
  BY <1>1, RoomIs, RoomBack
<1>5. c.groups \in Seq(Group) /\ s.payload - Given(p, g.size) \in Int
  BY <1>1, <1>3, <1>4 DEF Holds
<1>6. c \in Sections /\ c.payload = s.payload - Given(p, g.size)
  BY <1>3, <1>5, FreshIs
<1>7. Len(cs) = Len(bs) - 1
  BY <1>1, RemoveAtIs
<1>8. i - 1 \in 0 .. Len(cs) /\ i - 1 + 1 = i
  BY <1>1, <1>7
<1> HIDE DEF cs, q
<1>9. r = InsertDn(c, i - 1, g)
  BY DEF InsertGroupAt
<1> HIDE DEF r
<1>10. /\ Inserted(c, InsertDn(c, i - 1, g), cs, q, i - 1 + 1, g)
       /\ OffsetsFrom(c.groups, HeaderSize) => OffsetsFrom(InsertDn(c, i - 1, g).groups, HeaderSize)
  BY <1>3, <1>6, <1>8, InsertDnIs
<1>11. /\ Inserted(c, r, cs, q, i, g)
       /\ OffsetsFrom(c.groups, HeaderSize) => OffsetsFrom(r.groups, HeaderSize)
  BY <1>8, <1>9, <1>10
<1>12. /\ r = Fresh(r.groups, c.payload + Missing(q, g.size))
       /\ Holds(r.groups, InsertAt(cs, i, KeyOf(g)), Left(q, g.size))
       /\ TotalSize(r.groups) = TotalSize(c.groups) + Missing(q, g.size)
  BY <1>11 DEF Inserted
<1>13. c.payload + Missing(q, g.size) = s.payload
  BY <1>1, <1>4, <1>6
<1>14. TotalSize(r.groups) = TotalSize(s.groups)
  <2>1. TotalSize(s.groups) \in Nat
    BY <1>1, GroupsOfSection, UptoSteps
  <2> QED BY <1>3, <1>4, <1>12, <2>1
<1>15. InsertAt(cs, i, KeyOf(g)) = [bs EXCEPT ![i] = KeyOf(g)]
  BY <1>1, Replaced DEF cs
<1>16. Exchanged(s, r, [bs EXCEPT ![i] = KeyOf(g)], p)
  BY <1>2, <1>4, <1>11, <1>12, <1>13, <1>14, <1>15 DEF Exchanged
<1> QED BY <1>16 DEF r, c

LEMMA ExchangedTwice ==
  ASSUME NEW s, NEW r, NEW t, NEW bs, NEW cs, NEW p,
         Exchanged(s, r, bs, p), Exchanged(r, t, cs, p)
  PROVE  Exchanged(s, t, cs, p)
<1>1. r.payload = s.payload
  BY DEF Exchanged, Fresh
<1> QED BY <1>1 DEF Exchanged

LEMMA ReplaceGroupIs ==
  ASSUME NEW s \in Sections, NEW bs, NEW p, Holds(s.groups, bs, p), NEW i \in 1 .. Len(bs),
         NEW g, IsBlock(g), g.size = bs[i][2]
  PROVE  LET x == ReplaceGroup(s, i, g)
         IN  /\ Exchanged(s, x.section, IF x.ok THEN [bs EXCEPT ![i] = KeyOf(g)] ELSE bs, p)
             /\ x.ok = (TotalSize(s.groups) <= Capacity)
<1> DEFINE r == InsertGroupAt(Cut(s, i), i, g)
           old == s.groups[i]
           b == InsertGroupAt(Cut(r, i), i, old)
           cs == [bs EXCEPT ![i] = KeyOf(g)]
           x == ReplaceGroup(s, i, g)
<1>1. /\ p \in Nat /\ s.groups \in Seq(Group) /\ s.payload \in Int /\ bs \in Seq(Key)
      /\ Len(bs) \in Nat /\ IsBlock(old) /\ KeyOf(old) = bs[i] /\ bs[i] \in Key
      /\ KeyOf(g) \in Key
  <2>1. p \in Nat /\ s.groups \in Seq(Group) /\ bs \in Seq(Key) /\ KeyOf(old) = bs[i]
    BY DEF Holds
  <2>2. Len(bs) \in Nat /\ IsBlock(old) /\ bs[i] \in Key
    BY HoldsLengths
  <2>3. KeyOf(g) \in Key
    BY DEF KeyOf, Key, IsBlock, Group, Size
  <2> QED BY <2>1, <2>2, <2>3, SectionIs
<1>2. Exchanged(s, r, cs, p)
  BY ExchangedIs
<1>3. x = IF r.free >= 0 THEN [ok |-> TRUE, section |-> r] ELSE [ok |-> FALSE, section |-> b]
  BY DEF ReplaceGroup
<1> HIDE DEF r
<1>4. r = Fresh(r.groups, s.payload) /\ Holds(r.groups, cs, p) /\ TotalSize(r.groups) = TotalSize(s.groups)
  BY <1>2 DEF Exchanged
<1>5. r.groups \in Seq(Group)
  BY <1>4 DEF Holds
<1>6. r \in Sections /\ r.free = Capacity - TotalSize(r.groups) /\ TotalSize(r.groups) \in Nat /\ Capacity \in Nat
  BY <1>1, <1>4, <1>5, FreshIs, SectionAssumption, SMTT(60)
<1>7. r.free >= 0 <=> TotalSize(s.groups) <= Capacity
  BY <1>4, <1>6
<1>8. cs \in Seq(Key) /\ Len(cs) = Len(bs) /\ cs[i] = KeyOf(g)
  BY <1>1, ExceptSeq
<1>9. [cs EXCEPT ![i] = KeyOf(old)] = bs
  <2> DEFINE ds == [cs EXCEPT ![i] = KeyOf(old)]
  <2>1. \A j \in 1 .. Len(bs) : cs[j] = IF j = i THEN KeyOf(g) ELSE bs[j]
    BY <1>1, ExceptSeq
  <2> HIDE DEF cs
  <2>2. /\ ds \in Seq(Key) /\ Len(ds) = Len(cs)
        /\ \A j \in 1 .. Len(cs) : ds[j] = IF j = i THEN KeyOf(old) ELSE cs[j]
    BY <1>1, <1>8, ExceptSeq
  <2> HIDE DEF ds
  <2>3. \A j \in 1 .. Len(ds) : ds[j] = bs[j]
    BY <1>1, <1>8, <2>1, <2>2
  <2>4. ds = bs
    BY <1>1, <1>8, <2>2, <2>3, SeqEqual
  <2> QED BY <2>4 DEF ds
<1>10. Exchanged(r, b, [cs EXCEPT ![i] = KeyOf(old)], p)
  <2>1. old.size = cs[i][2]
    BY <1>1, <1>8 DEF KeyOf
  <2>2. i \in 1 .. Len(cs)
    BY <1>8
  <2> HIDE DEF cs, old
  <2> QED BY <1>1, <1>4, <1>6, <2>1, <2>2, ExchangedIs
<1>13. Exchanged(r, b, bs, p)
  BY <1>9, <1>10, Zenon
<1> HIDE DEF b, cs
<1>11. CASE r.free >= 0
  <2>1. x.ok = TRUE /\ x.section = r
    BY <1>3, <1>11
  <2> QED BY <1>2, <1>7, <1>11, <2>1, Zenon DEF cs
<1>12. CASE ~(r.free >= 0)
  <2>1. Exchanged(s, b, bs, p)
    BY <1>2, <1>13, ExchangedTwice
  <2>2. x.ok = FALSE /\ x.section = b
    BY <1>3, <1>12
  <2>3. (TotalSize(s.groups) <= Capacity) = FALSE
    BY <1>7, <1>12
  <2> HIDE DEF x
  <2>4. Exchanged(s, x.section, IF x.ok THEN [bs EXCEPT ![i] = KeyOf(g)] ELSE bs, p)
    BY <2>1, <2>2, Zenon
  <2>5. x.ok = (TotalSize(s.groups) <= Capacity)
    BY <2>2, <2>3, Zenon
  <2> QED BY <2>4, <2>5, Zenon DEF x
<1> QED BY <1>11, <1>12

(***************************************************************************)
(* Sections whose header counts what they hold, and the ids of the blocks. *)
(***************************************************************************)
Sound(s, bs, p) ==
  /\ s \in Sections
  /\ Holds(s.groups, bs, p)
  /\ s.payload = TotalSize(s.groups)

\* What the editor lets in fits: NewSize, or the size of a block.
RoomIn(s, bs, p) ==
  \A size \in {NewSize} \cup {bs[i][2] : i \in 1 .. Len(bs)} :
    size <= s.free + p => s.payload + Missing(p, size) <= Capacity

Fits(r, cs, q) == r.payload <= Capacity => RoomIn(r, cs, q)

LEMMA SoundFresh ==
  ASSUME NEW r, NEW cs, NEW q, NEW n, r = Fresh(r.groups, n), Holds(r.groups, cs, q),
         n = TotalSize(r.groups)
  PROVE  Sound(r, cs, q) /\ r.payload = n /\ Fits(r, cs, q)
<1>1. r.groups \in Seq(Group) /\ q \in Nat /\ cs \in Seq(Key)
  BY DEF Holds
<1>2. n \in Nat
  BY <1>1, GroupsOfSection, UptoSteps
<1>3. r \in Sections /\ r.payload = n /\ r.free = Capacity - n
  BY <1>1, <1>2, FreshIs
<1>4. ASSUME r.payload <= Capacity PROVE RoomIn(r, cs, q)
  <2> SUFFICES ASSUME NEW size \in {NewSize} \cup {cs[i][2] : i \in 1 .. Len(cs)}, size <= r.free + q
               PROVE  r.payload + Missing(q, size) <= Capacity
    BY DEF RoomIn
  <2>1. size \in Size
    <3>1. \A i \in 1 .. Len(cs) : cs[i] \in Key
      BY <1>1, ElementOfSeq
    <3> QED BY <3>1, SectionAssumption DEF Key, Size
  <2>2. Capacity \in Nat
    BY SectionAssumption
  <2> QED BY <1>1, <1>2, <1>3, <1>4, <2>1, <2>2 DEF Missing, Size
<1> QED BY <1>3, <1>4 DEF Sound, Fits

LEMMA SoundInserted ==
  ASSUME NEW s, NEW bs, NEW p, Sound(s, bs, p), NEW g, IsBlock(g), NEW i, NEW r, Inserted(s, r, bs, p, i, g)
  PROVE  /\ Sound(r, InsertAt(bs, i, KeyOf(g)), Left(p, g.size))
         /\ Fits(r, InsertAt(bs, i, KeyOf(g)), Left(p, g.size))
         /\ r.payload = s.payload + Missing(p, g.size)
         /\ r.payload - Left(p, g.size) = s.payload - p + g.size
<1>1. /\ r = Fresh(r.groups, s.payload + Missing(p, g.size))
      /\ Holds(r.groups, InsertAt(bs, i, KeyOf(g)), Left(p, g.size))
      /\ s.payload + Missing(p, g.size) = TotalSize(r.groups)
  BY DEF Inserted, Sound
<1>2. /\ Sound(r, InsertAt(bs, i, KeyOf(g)), Left(p, g.size))
      /\ r.payload = s.payload + Missing(p, g.size)
      /\ Fits(r, InsertAt(bs, i, KeyOf(g)), Left(p, g.size))
  BY <1>1, SoundFresh
<1>3. g.size \in Size /\ g.size \in Nat /\ p \in Nat /\ s.payload \in Int
  BY SectionIs DEF Sound, IsBlock, Group, Holds, Size
<1>4. Missing(p, g.size) = g.size - p + Left(p, g.size) /\ Left(p, g.size) \in Nat
  BY <1>3, RoomIs
<1> QED BY <1>2, <1>3, <1>4

LEMMA SoundRemoved ==
  ASSUME NEW s, NEW bs, NEW p, Sound(s, bs, p), NEW i \in 1 .. Len(bs), NEW r, Removed(s, r, bs, p, i)
  PROVE  LET size == bs[i][2]
         IN  /\ Sound(r, RemoveAt(bs, i), Grown(p, size))
             /\ Fits(r, RemoveAt(bs, i), Grown(p, size))
             /\ r.payload = s.payload - Given(p, size) /\ Given(p, size) \in Nat
             /\ r.payload - Grown(p, size) = s.payload - p - size
             /\ size \in Size
<1> DEFINE size == bs[i][2]
<1>1. s.groups[i].size = size /\ size \in Size /\ size \in Nat /\ p \in Nat /\ s.payload \in Int
  <2>1. KeyOf(s.groups[i]) = bs[i] /\ p \in Nat /\ s.payload \in Int
    BY SectionIs DEF Sound, Holds
  <2>2. bs[i] \in Key
    BY HoldsLengths DEF Sound
  <2> QED BY <2>1, <2>2 DEF KeyOf, Key, Size
<1> HIDE DEF size
<1>2. /\ r = Fresh(r.groups, s.payload - Given(p, size))
      /\ Holds(r.groups, RemoveAt(bs, i), Grown(p, size))
      /\ s.payload - Given(p, size) = TotalSize(r.groups)
  BY <1>1 DEF Removed, Sound
<1>3. /\ Sound(r, RemoveAt(bs, i), Grown(p, size))
      /\ r.payload = s.payload - Given(p, size)
      /\ Fits(r, RemoveAt(bs, i), Grown(p, size))
  BY <1>2, SoundFresh
<1>4. Given(p, size) = size - Grown(p, size) + p /\ Grown(p, size) \in Nat /\ Given(p, size) \in Nat
  BY <1>1, RoomIs
<1>5. r.payload - Grown(p, size) = s.payload - p - size
  BY <1>1, <1>3, <1>4
<1> QED BY <1>1, <1>3, <1>4, <1>5 DEF size

LEMMA SoundExchanged ==
  ASSUME NEW s, NEW bs, NEW p, Sound(s, bs, p), NEW r, NEW cs, Exchanged(s, r, cs, p)
  PROVE  Sound(r, cs, p) /\ Fits(r, cs, p) /\ r.payload = s.payload
BY SoundFresh DEF Exchanged, Sound

LEMMA SoundSwapped ==
  ASSUME NEW s, NEW bs, NEW p, Sound(s, bs, p), NEW i \in 1 .. Len(bs) - 1
  PROVE  LET r == MoveDn(s, i)
         IN  /\ Sound(r, Swapped(bs, i), p)
             /\ RoomIn(s, bs, p) => RoomIn(r, Swapped(bs, i), p)
             /\ r.payload = s.payload
             /\ OffsetsFrom(s.groups, HeaderSize) => OffsetsFrom(r.groups, HeaderSize)
<1> DEFINE r == MoveDn(s, i)
           cs == Swapped(bs, i)
<1>1. /\ r \in Sections /\ r.payload = s.payload /\ r.free = s.free
      /\ Holds(r.groups, cs, p)
      /\ TotalSize(r.groups) = TotalSize(s.groups)
      /\ OffsetsFrom(s.groups, HeaderSize) => OffsetsFrom(r.groups, HeaderSize)
  BY MoveDnIs DEF Sound
<1>2. bs \in Seq(Key) /\ Len(bs) \in Nat
  BY HoldsLengths DEF Sound, Holds
<1>3. /\ cs \in Seq(Key) /\ Len(cs) = Len(bs)
      /\ cs[i] = bs[i + 1] /\ cs[i + 1] = bs[i]
      /\ \A j \in 1 .. Len(bs) : j # i /\ j # i + 1 => cs[j] = bs[j]
  BY <1>2, SwappedIs DEF Swapped
<1> HIDE DEF cs, r
<1>4. i \in 1 .. Len(bs) /\ i + 1 \in 1 .. Len(bs)
  BY <1>2
<1>5. \A j \in 1 .. Len(cs) : \E k \in 1 .. Len(bs) : cs[j] = bs[k]
  BY <1>3, <1>4
<1>6. {cs[j][2] : j \in 1 .. Len(cs)} \subseteq {bs[k][2] : k \in 1 .. Len(bs)}
  BY <1>5
<1>7. RoomIn(s, bs, p) => RoomIn(r, cs, p)
  BY <1>1, <1>6 DEF RoomIn
<1>8. Sound(r, cs, p)
  BY <1>1 DEF Sound
<1> QED BY <1>1, <1>7, <1>8 DEF cs, r

Distinct(bs) == \A i, j \in 1 .. Len(bs) : bs[i][1] = bs[j][1] => i = j

LEMMA DistinctInserted ==
  ASSUME NEW bs \in Seq(Key), Distinct(bs), NEW i \in 1 .. Len(bs) + 1, NEW k \in Key,
         \A j \in 1 .. Len(bs) : bs[j][1] # k[1]
  PROVE  Distinct(InsertAt(bs, i, k))
<1> DEFINE cs == InsertAt(bs, i, k)
<1>1. Len(bs) \in Nat
  BY LenProperties
<1>2. /\ cs \in Seq(Key) /\ Len(cs) = Len(bs) + 1
      /\ \A j \in 1 .. i - 1 : cs[j] = bs[j]
      /\ cs[i] = k
      /\ \A j \in i + 1 .. Len(bs) + 1 : cs[j] = bs[j - 1]
  BY InsertAtIs, SMTT(30)
<1> HIDE DEF cs
<1> DEFINE from(j) == IF j < i THEN j ELSE j - 1
<1>3. ASSUME NEW j \in 1 .. Len(cs), j # i PROVE from(j) \in 1 .. Len(bs) /\ cs[j] = bs[from(j)]
  <2>1. CASE j < i
    BY <1>1, <1>2, <2>1
  <2>2. CASE j > i
    <3>1. j \in i + 1 .. Len(bs) + 1
      BY <1>1, <1>2, <2>2
    <3> QED BY <1>1, <1>2, <2>2, <3>1
  <2> QED BY <1>3, <2>1, <2>2
<1>4. ASSUME NEW j \in 1 .. Len(cs), NEW l \in 1 .. Len(cs), cs[j][1] = cs[l][1] PROVE j = l
  <2>1. CASE j = i /\ l # i
    BY <1>2, <1>3, <1>4, <2>1
  <2>2. CASE j # i /\ l = i
    BY <1>2, <1>3, <1>4, <2>2
  <2>3. CASE j # i /\ l # i
    <3>1. /\ from(j) \in 1 .. Len(bs) /\ cs[j] = bs[from(j)]
          /\ from(l) \in 1 .. Len(bs) /\ cs[l] = bs[from(l)]
      BY <1>3, <2>3
    <3>2. from(j) = from(l)
      <4> HIDE DEF from
      <4> QED BY <1>4, <3>1 DEF Distinct
    <3> QED BY <1>1, <1>2, <2>3, <3>2
  <2> QED BY <2>1, <2>2, <2>3
<1> QED BY <1>4 DEF Distinct, cs

LEMMA DistinctRemoved ==
  ASSUME NEW bs \in Seq(Key), Distinct(bs), NEW i \in 1 .. Len(bs)
  PROVE  Distinct(RemoveAt(bs, i))
<1> DEFINE cs == RemoveAt(bs, i)
<1>1. Len(bs) \in Nat
  BY LenProperties
<1>2. /\ cs \in Seq(Key) /\ Len(cs) = Len(bs) - 1
      /\ \A j \in 1 .. i - 1 : cs[j] = bs[j]
      /\ \A j \in i .. Len(bs) - 1 : cs[j] = bs[j + 1]
  BY RemoveAtIs
<1> HIDE DEF cs
<1> DEFINE from(j) == IF j < i THEN j ELSE j + 1
<1>3. ASSUME NEW j \in 1 .. Len(cs) PROVE from(j) \in 1 .. Len(bs) /\ cs[j] = bs[from(j)]
  <2>1. CASE j < i
    BY <1>1, <1>2, <2>1
  <2>2. CASE j >= i
    BY <1>1, <1>2, <2>2
  <2> QED BY <2>1, <2>2
<1>4. ASSUME NEW j \in 1 .. Len(cs), NEW l \in 1 .. Len(cs), cs[j][1] = cs[l][1] PROVE j = l
  <2>1. /\ from(j) \in 1 .. Len(bs) /\ cs[j] = bs[from(j)]
        /\ from(l) \in 1 .. Len(bs) /\ cs[l] = bs[from(l)]
    BY <1>3
  <2>2. from(j) = from(l)
    <3> HIDE DEF from
    <3> QED BY <1>4, <2>1 DEF Distinct
  <2> QED BY <1>1, <1>2, <2>2
<1> QED BY <1>4 DEF Distinct, cs

LEMMA DistinctSwapped ==
  ASSUME NEW bs \in Seq(Key), Distinct(bs), NEW i \in 1 .. Len(bs) - 1
  PROVE  Distinct(Swapped(bs, i))
<1> DEFINE cs == Swapped(bs, i)
<1>1. Len(bs) \in Nat
  BY LenProperties
<1>2. /\ cs \in Seq(Key) /\ Len(cs) = Len(bs)
      /\ cs[i] = bs[i + 1] /\ cs[i + 1] = bs[i]
      /\ \A j \in 1 .. Len(bs) : j # i /\ j # i + 1 => cs[j] = bs[j]
  BY SwappedIs DEF Swapped
<1> HIDE DEF cs
<1> DEFINE from(j) == IF j = i THEN i + 1 ELSE IF j = i + 1 THEN i ELSE j
<1>3. ASSUME NEW j \in 1 .. Len(cs) PROVE from(j) \in 1 .. Len(bs) /\ cs[j] = bs[from(j)]
  BY <1>1, <1>2
<1>4. ASSUME NEW j \in 1 .. Len(cs), NEW l \in 1 .. Len(cs), cs[j][1] = cs[l][1] PROVE j = l
  <2>1. /\ from(j) \in 1 .. Len(bs) /\ cs[j] = bs[from(j)]
        /\ from(l) \in 1 .. Len(bs) /\ cs[l] = bs[from(l)]
    BY <1>3
  <2>2. from(j) = from(l)
    <3> HIDE DEF from
    <3> QED BY <1>4, <2>1 DEF Distinct
  <2> QED BY <1>1, <1>2, <2>2
<1> QED BY <1>4 DEF Distinct, cs

LEMMA DistinctReplaced ==
  ASSUME NEW bs \in Seq(Key), Distinct(bs), NEW i \in 1 .. Len(bs), NEW k \in Key,
         \A j \in 1 .. Len(bs) : bs[j][1] # k[1]
  PROVE  Distinct([bs EXCEPT ![i] = k])
<1> DEFINE cs == [bs EXCEPT ![i] = k]
<1>1. /\ cs \in Seq(Key) /\ Len(cs) = Len(bs)
      /\ \A j \in 1 .. Len(bs) : cs[j] = IF j = i THEN k ELSE bs[j]
  BY ExceptSeq
<1> HIDE DEF cs
<1>2. Distinct(cs)
  BY <1>1 DEF Distinct
<1> QED BY <1>2 DEF cs

(***************************************************************************)
(* The history: what an entry makes of the section before it.              *)
(***************************************************************************)
Blocks == {g \in Group : IsBlock(g)}

Entries == [kind : {"insert", "remove", "move", "replace"}, block : Blocks, index : Nat,
            up : BOOLEAN, other : Blocks]

Contents == [blocks : Seq(Key), padding : Nat, payload : Nat]

\* The data blocks: each kind of entry says how to come back as well.
BlocksLead(bs, e, cs) ==
  \/ /\ e.kind = "insert"
     /\ e.index \in 1 .. Len(bs) + 1
     /\ cs = InsertAt(bs, e.index, KeyOf(e.block))
  \/ /\ e.kind = "remove"
     /\ e.index \in 1 .. Len(cs) + 1
     /\ bs = InsertAt(cs, e.index, KeyOf(e.block))
  \/ /\ e.kind = "move"
     /\ SwapOf(e) \in 1 .. Len(bs) - 1
     /\ cs = Swapped(bs, SwapOf(e))
  \/ /\ e.kind = "replace"
     /\ e.other.size = e.block.size
     /\ \E i \in 1 .. Len(bs) : /\ bs[i] = KeyOf(e.block)
                                /\ cs = [bs EXCEPT ![i] = KeyOf(e.other)]

\* The bytes of the payload that are data blocks.
NetLead(n, e, m) ==
  /\ e.kind = "insert" => m = n + e.block.size
  /\ e.kind = "remove" => m = n - e.block.size
  /\ e.kind \in {"move", "replace"} => m = n

PadLead(p, e, q) ==
  /\ e.kind = "insert" => q = Left(p, e.block.size)
  /\ e.kind = "remove" => q = Grown(p, e.block.size)
  /\ e.kind \in {"move", "replace"} => q = p

\* A change that is recorded: the section r with data blocks cs and padding q.
Edited(bs, p, r, e, cs, q) ==
  /\ Record(r, e)
  /\ e \in Entries
  /\ Sound(r, cs, q) /\ Distinct(cs)
  /\ BlocksLead(bs, e, cs)
  /\ NetLead(payload - p, e, r.payload - q)
  /\ PadLead(p, e, q)
  /\ RoomIn(Section, bs, p) /\ payload <= Capacity => RoomIn(r, cs, q) /\ r.payload <= Capacity
  /\ p = 0 /\ OffsetsFrom(groups, HeaderSize) => OffsetsFrom(r.groups, HeaderSize)

LEMMA SectionFields ==
  Section.groups = groups /\ Section.payload = payload /\ Section.free = free
BY DEF Section

LEMMA BlockIs ==
  ASSUME NEW id \in Size, NEW size \in Size
  PROVE  LET g == Block(id, size)
         IN  g \in Blocks /\ IsBlock(g) /\ g.id = id /\ g.size = size /\ KeyOf(g) = <<id, size>>
BY DEF Block, Blocks, IsBlock, Group, Size, Offset, KeyOf

\* A data block of the section is a data block of the history.
LEMMA DataIs ==
  ASSUME NEW bs, NEW p, Sound(Section, bs, p), NEW i, IsData(i)
  PROVE  /\ i \in 1 .. Len(bs) /\ i \in 1 .. Len(groups)
         /\ groups[i] \in Blocks /\ IsBlock(groups[i])
         /\ KeyOf(groups[i]) = bs[i] /\ groups[i].size = bs[i][2] /\ groups[i].size \in Size
<1>1. Holds(groups, bs, p)
  BY SectionFields DEF Sound
<1>2. /\ Len(groups) \in Nat /\ Len(bs) \in Nat /\ Len(bs) <= Len(groups)
      /\ \A j \in 1 .. Len(groups) : groups[j] \in Group
      /\ \A j \in 1 .. Len(bs) : bs[j] \in Key /\ IsBlock(groups[j])
  BY <1>1, HoldsLengths
<1>3. groups \in Seq(Group) /\ p \in Nat /\ \A j \in 1 .. Len(bs) : KeyOf(groups[j]) = bs[j]
  BY <1>1 DEF Holds
<1>4. i \in 1 .. Len(groups) /\ groups[i].kind = "data"
  BY <1>3, LenProperties DEF IsData
<1>5. i \in 1 .. Len(bs)
  <2>1. CASE p = 0
    BY <1>1, <1>4, <2>1 DEF Holds
  <2>2. CASE p > 0
    <3>1. Len(groups) = Len(bs) + 1 /\ groups[Len(groups)].kind = "padding"
      BY <1>1, <2>2 DEF Holds
    <3> QED BY <1>2, <1>4, <3>1
  <2> QED BY <1>3, <2>1, <2>2
<1>6. groups[i] \in Group /\ IsBlock(groups[i]) /\ KeyOf(groups[i]) = bs[i]
  BY <1>2, <1>3, <1>5
<1> QED BY <1>4, <1>5, <1>6 DEF Blocks, KeyOf, Group

LEMMA NewIdIs ==
  ASSUME history \in Seq(Entries), position \in 0 .. Len(history), groups \in Seq(Group)
  PROVE  NewId \in Size /\ \A i \in 1 .. Len(groups) : groups[i].id < NewId
<1> DEFINE A == {groups[i].id : i \in DOMAIN groups}
           B == {history[j].block.id : j \in 1 .. position}
           C == {history[j].other.id : j \in 1 .. position}
           S == {0} \cup A \cup B \cup C
<1>1. /\ Len(groups) \in Nat /\ DOMAIN groups = 1 .. Len(groups)
      /\ Len(history) \in Nat /\ position \in Nat
      /\ \A i \in 1 .. Len(groups) : groups[i].id \in Nat
      /\ \A j \in 1 .. position : history[j].block.id \in Nat /\ history[j].other.id \in Nat
  <2>1. Len(groups) \in Nat /\ DOMAIN groups = 1 .. Len(groups) /\ Len(history) \in Nat /\ position \in Nat
    BY LenProperties
  <2>2. \A i \in 1 .. Len(groups) : groups[i] \in Group
    BY ElementOfSeq
  <2>3. \A j \in 1 .. Len(history) : history[j] \in Entries
    BY ElementOfSeq
  <2>4. \A j \in 1 .. Len(history) : history[j].block \in Group /\ history[j].other \in Group
    BY <2>3 DEF Entries, Blocks
  <2> QED BY <2>1, <2>2, <2>4 DEF Group
<1>2. PICK a \in Nat : \A i \in 1 .. Len(groups) : groups[i].id <= a
  <2> DEFINE f == [i \in 1 .. Len(groups) |-> groups[i].id]
  <2>1. \A i \in 1 .. Len(groups) : f[i] \in Nat
    BY <1>1
  <2> HIDE DEF f
  <2>2. PICK x \in Nat : \A i \in 1 .. Len(groups) : f[i] <= x
    BY <1>1, <2>1, BoundOf
  <2> QED BY <2>2 DEF f
<1>3. PICK b \in Nat : \A j \in 1 .. position : history[j].block.id <= b
  <2> DEFINE f == [j \in 1 .. position |-> history[j].block.id]
  <2>1. \A j \in 1 .. position : f[j] \in Nat
    BY <1>1
  <2> HIDE DEF f
  <2>2. PICK x \in Nat : \A j \in 1 .. position : f[j] <= x
    BY <1>1, <2>1, BoundOf
  <2> QED BY <2>2 DEF f
<1>4. PICK c \in Nat : \A j \in 1 .. position : history[j].other.id <= c
  <2> DEFINE f == [j \in 1 .. position |-> history[j].other.id]
  <2>1. \A j \in 1 .. position : f[j] \in Nat
    BY <1>1
  <2> HIDE DEF f
  <2>2. PICK x \in Nat : \A j \in 1 .. position : f[j] <= x
    BY <1>1, <2>1, BoundOf
  <2> QED BY <2>2 DEF f
<1>5. S \in SUBSET Nat /\ S # {}
  BY <1>1
<1>6. \A k \in S : k <= a + b + c
  <2>1. \A k \in A : k \in Nat /\ k <= a
    BY <1>1, <1>2
  <2>2. \A k \in B : k \in Nat /\ k <= b
    BY <1>1, <1>3
  <2>3. \A k \in C : k \in Nat /\ k <= c
    BY <1>1, <1>4
  <2> HIDE DEF A, B, C
  <2> QED BY <2>1, <2>2, <2>3
<1>7. NewId = 1 + Max(S)
  BY DEF NewId
<1>8. \A i \in 1 .. Len(groups) : groups[i].id \in S
  BY <1>1
<1> HIDE DEF S
<1>9. Max(S) \in S /\ \A k \in S : k <= Max(S)
  <2>1. a + b + c \in Nat
    OBVIOUS
  <2> QED BY <1>5, <1>6, <2>1, MaxIs
<1>10. Max(S) \in Nat
  BY <1>5, <1>9
<1> QED BY <1>1, <1>7, <1>8, <1>9, <1>10 DEF Size

(***************************************************************************)
(* The operations of the editor, one lemma each.                           *)
(***************************************************************************)
LEMMA InsertEdits ==
  ASSUME NEW bs, NEW p, Sound(Section, bs, p), Distinct(bs),
         NEW g \in Blocks, \A j \in 1 .. Len(bs) : bs[j][1] # g.id,
         NEW i \in 1 .. Len(bs) + 1,
         g.size \in {NewSize} \cup {bs[j][2] : j \in 1 .. Len(bs)}, g.size <= free + p,
         NEW r, Inserted(Section, r, bs, p, i, g), Record(r, Entry("insert", g, i)),
         p = 0 /\ OffsetsFrom(groups, HeaderSize) => OffsetsFrom(r.groups, HeaderSize)
  PROVE  Edited(bs, p, r, Entry("insert", g, i), InsertAt(bs, i, KeyOf(g)), Left(p, g.size))
<1> DEFINE e == Entry("insert", g, i)
           cs == InsertAt(bs, i, KeyOf(g))
           q == Left(p, g.size)
<1>1. /\ bs \in Seq(Key) /\ Len(bs) \in Nat /\ IsBlock(g) /\ KeyOf(g) \in Key /\ KeyOf(g)[1] = g.id
      /\ i \in Nat
  <2>1. Len(bs) \in Nat /\ bs \in Seq(Key)
    BY HoldsLengths DEF Sound, Holds
  <2> QED BY <2>1 DEF Blocks, IsBlock, KeyOf, Key, Group, Size
<1>2. /\ e \in Entries
      /\ e.kind = "insert" /\ e.block = g
      /\ e.index = i /\ e.up = FALSE
      /\ e.other = g
  BY <1>1 DEF Entry, Entries
<1>3. /\ Sound(r, cs, q) /\ Fits(r, cs, q)
      /\ r.payload = payload + Missing(p, g.size)
      /\ r.payload - q = payload - p + g.size
  BY <1>1, SoundInserted, SectionFields
<1>4. Distinct(cs)
  BY <1>1, DistinctInserted
<1> HIDE DEF e
<1>5. BlocksLead(bs, e, cs)
  BY <1>2 DEF BlocksLead
<1> HIDE DEF cs
<1>6. NetLead(payload - p, e, r.payload - q)
  BY <1>2, <1>3 DEF NetLead
<1>7. PadLead(p, e, q)
  BY <1>2 DEF PadLead
<1>8. RoomIn(Section, bs, p) /\ payload <= Capacity => RoomIn(r, cs, q) /\ r.payload <= Capacity
  BY <1>3, SectionFields DEF RoomIn, Fits
<1>9. Record(r, e)
  BY DEF e
<1> QED BY <1>2, <1>3, <1>4, <1>5, <1>6, <1>7, <1>8, <1>9 DEF Edited, e, cs

\* An id nobody has.
LEMMA NewBlock ==
  ASSUME NEW bs, NEW p, Sound(Section, bs, p), history \in Seq(Entries), position \in 0 .. Len(history),
         NEW size \in Size
  PROVE  LET g == Block(NewId, size)
         IN  /\ g \in Blocks /\ IsBlock(g) /\ g.size = size
             /\ \A j \in 1 .. Len(bs) : bs[j][1] # g.id
<1>1. Holds(groups, bs, p)
  BY SectionFields DEF Sound
<1>2. groups \in Seq(Group) /\ \A j \in 1 .. Len(bs) : KeyOf(groups[j]) = bs[j]
  BY <1>1 DEF Holds
<1>3. Len(groups) \in Nat /\ Len(bs) \in Nat /\ Len(bs) <= Len(groups) /\ \A j \in 1 .. Len(groups) : groups[j] \in Group
  BY <1>1, HoldsLengths
<1>4. NewId \in Size /\ \A i \in 1 .. Len(groups) : groups[i].id < NewId
  BY <1>2, NewIdIs
<1>5. \A j \in 1 .. Len(bs) : bs[j][1] < NewId /\ bs[j][1] \in Nat
  <2> SUFFICES ASSUME NEW j \in 1 .. Len(bs) PROVE bs[j][1] < NewId /\ bs[j][1] \in Nat
    OBVIOUS
  <2>1. j \in 1 .. Len(groups) /\ bs[j][1] = groups[j].id
    BY <1>2, <1>3 DEF KeyOf
  <2> QED BY <1>3, <1>4, <2>1 DEF Group
<1> DEFINE g == Block(NewId, size)
<1>6. g \in Blocks /\ IsBlock(g) /\ g.id = NewId /\ g.size = size /\ KeyOf(g) = <<NewId, size>>
  BY <1>4, BlockIs
<1> HIDE DEF g
<1>7. \A j \in 1 .. Len(bs) : bs[j][1] # g.id
  BY <1>4, <1>5, <1>6 DEF Size
<1> QED BY <1>6, <1>7 DEF g

LEMMA SpaceIs ==
  ASSUME NEW bs, NEW p, Holds(groups, bs, p)
  PROVE  DisplayIDInsertSpace = free + p
BY HoldsPadding DEF DisplayIDInsertSpace, PaddingOf

LEMMA AddEdits ==
  ASSUME NEW bs, NEW p, Sound(Section, bs, p), Distinct(bs),
         history \in Seq(Entries), position \in 0 .. Len(history), Add
  PROVE  \E r, e, cs, q : Edited(bs, p, r, e, cs, q)
<1> DEFINE g == Block(NewId, NewSize)
           n == Len(groups)
<1>1. Holds(groups, bs, p) /\ Section \in Sections /\ p \in Nat
  BY SectionFields DEF Sound, Holds
<1>2. g \in Blocks /\ IsBlock(g) /\ g.size = NewSize /\ \A j \in 1 .. Len(bs) : bs[j][1] # g.id
  BY SectionAssumption, NewBlock DEF Size
<1>3. n \in Nat /\ Len(bs) \in Nat
  BY <1>1, HoldsLengths
<1>4. HasPadding(groups) <=> p > 0
  BY <1>1, HoldsPadding
<1>5. n > 0 /\ NewSize <= free + p
  BY <1>1, SpaceIs DEF Add
<1>6. PICK r \in (IF HasPadding(groups) THEN InsertUp(Section, n, g) ELSE {InsertDn(Section, n, g)}) :
        Record(r, Entry("insert", g, IF HasPadding(groups) THEN n ELSE n + 1))
  BY DEF Add
<1> HIDE DEF g
<1>7. CASE p > 0
  <2>1. n = Len(bs) + 1
    BY <1>1, <1>7 DEF Holds
  <2>2. Inserted(Section, r, bs, p, Len(bs) + 1, g)
    BY <1>1, <1>2, <1>4, <1>6, <1>7, SectionFields, InsertUpIs
  <2>3. Inserted(Section, r, bs, p, n, g) /\ Record(r, Entry("insert", g, n)) /\ n \in 1 .. Len(bs) + 1
    BY <1>3, <1>4, <1>6, <1>7, <2>1, <2>2
  <2>4. Edited(bs, p, r, Entry("insert", g, n), InsertAt(bs, n, KeyOf(g)), Left(p, g.size))
    BY <1>2, <1>5, <1>7, <2>3, InsertEdits
  <2> QED BY <2>4
<1>8. CASE p = 0
  <2>1. n = Len(bs)
    BY <1>1, <1>8 DEF Holds
  <2>2. r = InsertDn(Section, n, g) /\ Record(r, Entry("insert", g, n + 1))
    BY <1>4, <1>6, <1>8
  <2>3. n \in 0 .. Len(bs) /\ n + 1 \in 1 .. Len(bs) + 1
    BY <1>3, <2>1
  <2>4. /\ Inserted(Section, InsertDn(Section, n, g), bs, p, n + 1, g)
        /\ OffsetsFrom(Section.groups, HeaderSize) => OffsetsFrom(InsertDn(Section, n, g).groups, HeaderSize)
    BY <1>1, <1>2, <2>3, SectionFields, InsertDnIs
  <2>5. /\ Inserted(Section, r, bs, p, n + 1, g)
        /\ OffsetsFrom(groups, HeaderSize) => OffsetsFrom(r.groups, HeaderSize)
    BY <2>2, <2>4, SectionFields
  <2>6. Edited(bs, p, r, Entry("insert", g, n + 1), InsertAt(bs, n + 1, KeyOf(g)), Left(p, g.size))
    BY <1>2, <1>5, <2>2, <2>3, <2>5, InsertEdits
  <2> QED BY <2>6
<1> QED BY <1>1, <1>7, <1>8

LEMMA DuplicateEdits ==
  ASSUME NEW bs, NEW p, Sound(Section, bs, p), Distinct(bs),
         history \in Seq(Entries), position \in 0 .. Len(history),
         NEW i, Duplicate(i)
  PROVE  \E r, e, cs, q : Edited(bs, p, r, e, cs, q)
<1> DEFINE g == Block(NewId, groups[i].size)
           r == InsertDn(Section, i, g)
<1>1. Holds(groups, bs, p) /\ Section \in Sections /\ p \in Nat
  BY SectionFields DEF Sound, Holds
<1>2. /\ i \in 1 .. Len(bs) /\ groups[i].size \in Size /\ groups[i].size = bs[i][2]
      /\ Len(bs) \in Nat
  BY <1>1, DataIs, HoldsLengths DEF Duplicate
<1>3. /\ g \in Blocks /\ IsBlock(g) /\ g.size = groups[i].size
      /\ \A j \in 1 .. Len(bs) : bs[j][1] # g.id
  BY <1>2, NewBlock
<1>4. g.size <= free + p /\ Record(r, Entry("insert", g, i + 1))
  BY <1>1, SpaceIs DEF Duplicate
<1> HIDE DEF g
<1>5. i \in 0 .. Len(bs) /\ i + 1 \in 1 .. Len(bs) + 1
  BY <1>2
<1>6. /\ Inserted(Section, r, bs, p, i + 1, g)
      /\ OffsetsFrom(Section.groups, HeaderSize) => OffsetsFrom(r.groups, HeaderSize)
  BY <1>1, <1>3, <1>5, SectionFields, InsertDnIs
<1> HIDE DEF r
<1>7. g.size \in {NewSize} \cup {bs[j][2] : j \in 1 .. Len(bs)}
  BY <1>2, <1>3
<1>8. Edited(bs, p, r, Entry("insert", g, i + 1), InsertAt(bs, i + 1, KeyOf(g)), Left(p, g.size))
  BY <1>3, <1>4, <1>5, <1>6, <1>7, SectionFields, InsertEdits
<1> QED BY <1>8

LEMMA DeleteEdits ==
  ASSUME NEW bs, NEW p, Sound(Section, bs, p), Distinct(bs), NEW i, Delete(i)
  PROVE  \E r, e, cs, q : Edited(bs, p, r, e, cs, q)
<1> DEFINE g == groups[i]
           r == Cut(Section, i)
           e == Entry("remove", g, i)
           cs == RemoveAt(bs, i)
           q == Grown(p, g.size)
<1>1. Holds(groups, bs, p) /\ Section \in Sections /\ p \in Nat /\ bs \in Seq(Key)
  BY SectionFields DEF Sound, Holds
<1>2. /\ i \in 1 .. Len(bs) /\ g \in Blocks /\ KeyOf(g) = bs[i] /\ g.size = bs[i][2]
      /\ Len(bs) \in Nat /\ i \in Nat
  BY <1>1, DataIs, HoldsLengths DEF Delete
<1>3. Record(r, e)
  BY DEF Delete
<1>4. /\ Removed(Section, r, bs, p, i)
      /\ OffsetsFrom(Section.groups, HeaderSize) => OffsetsFrom(r.groups, HeaderSize)
  BY <1>1, <1>2, SectionFields, CutIs
<1>5. /\ e \in Entries
      /\ e.kind = "remove" /\ e.block = g
      /\ e.index = i /\ e.up = FALSE
      /\ e.other = g
  BY <1>2 DEF Entry, Entries
<1> HIDE DEF e, r
<1>6. /\ Sound(r, cs, q) /\ Fits(r, cs, q)
      /\ r.payload = payload - Given(p, g.size) /\ Given(p, g.size) \in Nat
      /\ r.payload - q = payload - p - g.size
  BY <1>2, <1>4, SoundRemoved, SectionFields
<1>7. Distinct(cs)
  BY <1>1, <1>2, DistinctRemoved
<1>8. BlocksLead(bs, e, cs)
  <2>1. bs = InsertAt(cs, i, KeyOf(g))
    BY <1>1, <1>2, InsertRemoved
  <2>2. i \in 1 .. Len(cs) + 1
    BY <1>1, <1>2, RemoveAtIs
  <2> QED BY <1>5, <2>1, <2>2 DEF BlocksLead
<1>9. NetLead(payload - p, e, r.payload - q) /\ PadLead(p, e, q)
  BY <1>5, <1>6 DEF NetLead, PadLead
<1>10. payload <= Capacity => r.payload <= Capacity
  <2>1. payload \in Int /\ Capacity \in Nat
    BY <1>1, SectionIs, SectionFields, SectionAssumption
  <2> QED BY <1>6, <2>1
<1>11. Edited(bs, p, r, e, cs, q)
  BY <1>3, <1>4, <1>5, <1>6, <1>7, <1>8, <1>9, <1>10, SectionFields DEF Edited, Fits
<1> QED BY <1>11

LEMMA MoveEdits ==
  ASSUME NEW bs, NEW p, Sound(Section, bs, p), Distinct(bs), NEW e \in Entries, e.kind = "move",
         NEW i, i = SwapOf(e), i \in 1 .. Len(bs) - 1, Record(MoveDn(Section, i), e)
  PROVE  \E r, cs, q : Edited(bs, p, r, e, cs, q)
<1> DEFINE r == MoveDn(Section, i)
           cs == Swapped(bs, i)
<1>1. /\ Sound(r, cs, p)
      /\ RoomIn(Section, bs, p) => RoomIn(r, cs, p)
      /\ r.payload = payload
      /\ OffsetsFrom(groups, HeaderSize) => OffsetsFrom(r.groups, HeaderSize)
  BY SoundSwapped, SectionFields
<1>2. Distinct(cs)
  BY DistinctSwapped DEF Sound, Holds
<1>3. BlocksLead(bs, e, cs)
  BY DEF BlocksLead
<1> HIDE DEF r, cs
<1>4. NetLead(payload - p, e, r.payload - p) /\ PadLead(p, e, p)
  BY <1>1 DEF NetLead, PadLead
<1>5. Record(r, e)
  BY DEF r
<1>6. Edited(bs, p, r, e, cs, p)
  BY <1>1, <1>2, <1>3, <1>4, <1>5 DEF Edited
<1> QED BY <1>6

LEMMA MoveUpEdits ==
  ASSUME NEW bs, NEW p, Sound(Section, bs, p), Distinct(bs), NEW i, MoveUp(i)
  PROVE  \E r, e, cs, q : Edited(bs, p, r, e, cs, q)
<1> DEFINE e == [Entry("move", groups[i], i) EXCEPT !.up = TRUE]
<1>1. /\ i \in 1 .. Len(bs) /\ groups[i] \in Blocks /\ Len(bs) \in Nat /\ i > 1
  BY DataIs, HoldsLengths DEF MoveUp, Sound
<1>2. e \in Entries /\ e.kind = "move" /\ e.index = i /\ e.up = TRUE
  <2> DEFINE down == Entry("move", groups[i], i)
  <2>1. down \in Entries /\ down.kind = "move" /\ down.index = i
    BY <1>1 DEF Entry, Entries
  <2> HIDE DEF down
  <2>2. [down EXCEPT !.up = TRUE] \in Entries
    BY <2>1 DEF Entries
  <2>3. [down EXCEPT !.up = TRUE].kind = "move" /\ [down EXCEPT !.up = TRUE].index = i
    BY <2>1 DEF Entries
  <2>4. [down EXCEPT !.up = TRUE].up = TRUE
    BY <2>1 DEF Entries
  <2> QED BY <2>2, <2>3, <2>4 DEF down
<1>3. Record(MoveDn(Section, i - 1), e)
  BY DEF MoveUp
<1> HIDE DEF e
<1>4. i - 1 = SwapOf(e) /\ i - 1 \in 1 .. Len(bs) - 1
  BY <1>1, <1>2 DEF SwapOf
<1>5. \E r, cs, q : Edited(bs, p, r, e, cs, q)
  BY <1>2, <1>3, <1>4, MoveEdits
<1> QED BY <1>5

LEMMA MoveDownEdits ==
  ASSUME NEW bs, NEW p, Sound(Section, bs, p), Distinct(bs), NEW i, MoveDown(i)
  PROVE  \E r, e, cs, q : Edited(bs, p, r, e, cs, q)
<1> DEFINE e == Entry("move", groups[i], i)
<1>1. IsData(i) /\ IsData(i + 1) /\ Record(MoveDn(Section, i), e)
  BY DEF MoveDown
<1>2. i \in 1 .. Len(bs) /\ groups[i] \in Blocks /\ Len(bs) \in Nat /\ i + 1 \in 1 .. Len(bs)
  BY <1>1, DataIs, HoldsLengths DEF Sound
<1>3. e \in Entries /\ e.kind = "move" /\ e.index = i /\ e.up = FALSE
  BY <1>2 DEF Entry, Entries
<1> HIDE DEF e
<1>4. i = SwapOf(e) /\ i \in 1 .. Len(bs) - 1
  BY <1>2, <1>3 DEF SwapOf
<1>5. \E r, cs, q : Edited(bs, p, r, e, cs, q)
  BY <1>1, <1>3, <1>4, MoveEdits
<1> QED BY <1>5

\* A group that can't be built anew is put back.
RebuildFails(bs, p, r) ==
  /\ Exchanged(Section, r, bs, p)
  /\ Becomes(r)
  /\ UNCHANGED <<history, position, timeline>>
  /\ ~(payload <= Capacity)

LEMMA RebuildEdits ==
  ASSUME NEW bs, NEW p, Sound(Section, bs, p), Distinct(bs),
         history \in Seq(Entries), position \in 0 .. Len(history), NEW i, Rebuild(i)
  PROVE  \/ \E r, e, cs, q : Edited(bs, p, r, e, cs, q)
         \/ \E r : RebuildFails(bs, p, r)
<1> DEFINE g == Block(NewId, groups[i].size)
           x == ReplaceGroup(Section, i, g)
           e == [Entry("replace", groups[i], i) EXCEPT !.other = g]
           cs == [bs EXCEPT ![i] = KeyOf(g)]
<1>1. Holds(groups, bs, p) /\ Section \in Sections /\ p \in Nat /\ bs \in Seq(Key) /\ payload = TotalSize(groups)
  BY SectionFields DEF Sound, Holds
<1>2. /\ i \in 1 .. Len(bs) /\ groups[i] \in Blocks /\ groups[i].size \in Size /\ groups[i].size = bs[i][2]
      /\ KeyOf(groups[i]) = bs[i] /\ i \in Nat
  BY <1>1, DataIs DEF Rebuild
<1>3. /\ g \in Blocks /\ IsBlock(g) /\ g.size = groups[i].size
      /\ \A j \in 1 .. Len(bs) : bs[j][1] # g.id
  BY <1>2, NewBlock
<1>4. IF x.ok THEN Record(x.section, e)
              ELSE Becomes(x.section) /\ UNCHANGED <<history, position, timeline>>
  BY DEF Rebuild
<1> HIDE DEF g
<1>5. e \in Entries /\ e.kind = "replace" /\ e.block = groups[i] /\ e.other = g
  BY <1>2, <1>3 DEF Entry, Entries
<1>6. /\ Exchanged(Section, x.section, IF x.ok THEN cs ELSE bs, p)
      /\ x.ok = (payload <= Capacity)
  <2>1. g.size = bs[i][2] /\ Holds(Section.groups, bs, p)
    BY <1>1, <1>2, <1>3, SectionFields
  <2> HIDE DEF x, cs
  <2>2. /\ Exchanged(Section, x.section, IF x.ok THEN [bs EXCEPT ![i] = KeyOf(g)] ELSE bs, p)
        /\ x.ok = (TotalSize(Section.groups) <= Capacity)
    BY <1>1, <1>2, <1>3, <2>1, ReplaceGroupIs, Zenon DEF x
  <2>3. TotalSize(Section.groups) = payload
    BY <1>1, SectionFields
  <2> QED BY <2>2, <2>3, Zenon DEF cs
<1> HIDE DEF x, e
<1>7. CASE x.ok
  <2> DEFINE r == x.section
  <2>1. Exchanged(Section, r, cs, p) /\ Record(r, e)
    BY <1>4, <1>6, <1>7, Zenon
  <2>2. Sound(r, cs, p) /\ Fits(r, cs, p) /\ r.payload = payload
    BY <2>1, SoundExchanged, SectionFields
  <2>3. OffsetsFrom(groups, HeaderSize) => OffsetsFrom(r.groups, HeaderSize)
    BY <2>1, SectionFields DEF Exchanged
  <2>4. Distinct(cs)
    <3>1. KeyOf(g) \in Key /\ KeyOf(g)[1] = g.id
      BY <1>3 DEF KeyOf, Key, IsBlock, Group, Size
    <3> QED BY <1>1, <1>2, <1>3, <3>1, DistinctReplaced
  <2>5. BlocksLead(bs, e, cs)
    BY <1>2, <1>3, <1>5 DEF BlocksLead
  <2> HIDE DEF r, cs
  <2>6. NetLead(payload - p, e, r.payload - p) /\ PadLead(p, e, p)
    BY <1>5, <2>2 DEF NetLead, PadLead
  <2>7. Edited(bs, p, r, e, cs, p)
    BY <1>5, <2>1, <2>2, <2>3, <2>4, <2>5, <2>6 DEF Edited, Fits
  <2> QED BY <2>7
<1>8. CASE ~x.ok
  <2>1. /\ Exchanged(Section, x.section, bs, p)
        /\ Becomes(x.section) /\ UNCHANGED <<history, position, timeline>>
    BY <1>4, <1>6, <1>8, Zenon
  <2>2. ~(payload <= Capacity)
    BY <1>6, <1>8
  <2>3. RebuildFails(bs, p, x.section)
    BY <2>1, <2>2 DEF RebuildFails
  <2> QED BY <2>3
<1> QED BY <1>7, <1>8

(***************************************************************************)
(* Undo and redo.                                                          *)
(***************************************************************************)
\* The padding after the entry that led to a padding of p was taken back.
PadBack(p, e, q) ==
  /\ e.kind = "insert" => q = Grown(p, e.block.size)
  /\ e.kind = "remove" => q = Left(p, e.block.size)
  /\ e.kind \in {"move", "replace"} => q = p

\* What undo or redo of e makes of s, whose data blocks are bs: with ds.
Applied(s, bs, p, e, redo, ds, x, q) ==
  /\ x.ok \in BOOLEAN
  /\ x.ok \/ ~(s.payload <= Capacity)
  /\ Sound(x.section, IF x.ok THEN ds ELSE bs, q)
  /\ x.ok /\ redo => NetLead(s.payload - p, e, x.section.payload - q) /\ PadLead(p, e, q)
  /\ x.ok /\ ~redo => NetLead(x.section.payload - q, e, s.payload - p) /\ PadBack(p, e, q)
  /\ ~x.ok => x.section.payload = s.payload /\ q = p
  /\ RoomIn(s, bs, p) => Fits(x.section, IF x.ok THEN ds ELSE bs, q)
  /\ p = 0 /\ OffsetsFrom(s.groups, HeaderSize) => OffsetsFrom(x.section.groups, HeaderSize)

LEMMA ApplyCases ==
  ASSUME NEW s, NEW e \in Entries, NEW redo \in BOOLEAN
  PROVE  LET x == ApplyStructure(s, e, redo)
         IN  /\ e.kind = "replace" =>
                  x = ReplaceGroup(s, IndexOf(s.groups, IF redo THEN e.block ELSE e.other),
                                      IF redo THEN e.other ELSE e.block)
             /\ e.kind = "move" => x = Accept(MoveDn(s, SwapOf(e)))
             /\ (IF redo THEN e.kind = "insert" ELSE e.kind = "remove") =>
                  x = Accept(InsertGroupAt(s, e.index, e.block))
             /\ (/\ IF redo THEN e.kind = "remove" ELSE e.kind = "insert"
                 /\ e.index <= Len(s.groups)
                 /\ s.groups[e.index].id = e.block.id)
                  => x = Accept(Cut(s, e.index))
BY DEF ApplyStructure

LEMMA AcceptIs ==
  ASSUME NEW r
  PROVE  Accept(r).ok = TRUE /\ Accept(r).section = r
BY DEF Accept

LEMMA ApplyInsert ==
  ASSUME NEW s, NEW bs, NEW p, Sound(s, bs, p), NEW e \in Entries, NEW redo \in BOOLEAN, NEW ds,
         IF redo THEN e.kind = "insert" ELSE e.kind = "remove",
         e.index \in 1 .. Len(bs) + 1, ds = InsertAt(bs, e.index, KeyOf(e.block))
  PROVE  Applied(s, bs, p, e, redo, ds, ApplyStructure(s, e, redo), Left(p, e.block.size))
<1> DEFINE g == e.block
           i == e.index
           r == InsertGroupAt(s, i, g)
           x == ApplyStructure(s, e, redo)
           q == Left(p, g.size)
<1>1. x = Accept(r)
  BY ApplyCases
<1>2. /\ Holds(s.groups, bs, p) /\ s \in Sections /\ IsBlock(g) /\ Len(bs) \in Nat
      /\ p \in Nat /\ s.payload \in Int /\ g.size \in Nat
  BY HoldsLengths, SectionIs, SMTT(60) DEF Sound, Holds, Entries, Blocks, IsBlock, Group, Size
<1>3. i - 1 \in 0 .. Len(bs) /\ i - 1 + 1 = i /\ r = InsertDn(s, i - 1, g)
  BY <1>2 DEF InsertGroupAt
<1>4. /\ Inserted(s, InsertDn(s, i - 1, g), bs, p, i - 1 + 1, g)
      /\ OffsetsFrom(s.groups, HeaderSize) => OffsetsFrom(InsertDn(s, i - 1, g).groups, HeaderSize)
  BY <1>2, <1>3, InsertDnIs
<1> HIDE DEF r, x, g, i
<1>5. /\ Inserted(s, r, bs, p, i, g)
      /\ OffsetsFrom(s.groups, HeaderSize) => OffsetsFrom(r.groups, HeaderSize)
  BY <1>3, <1>4
<1>6. /\ Sound(r, InsertAt(bs, i, KeyOf(g)), q)
      /\ Fits(r, InsertAt(bs, i, KeyOf(g)), q)
      /\ r.payload = s.payload + Missing(p, g.size)
      /\ r.payload - q = s.payload - p + g.size
  BY <1>2, <1>5, SoundInserted
<1>7. x.ok = TRUE /\ x.section = r
  BY <1>1, AcceptIs
<1>8. redo => NetLead(s.payload - p, e, r.payload - q) /\ PadLead(p, e, q)
  BY <1>6 DEF NetLead, PadLead, g
<1>9. ~redo => NetLead(r.payload - q, e, s.payload - p) /\ PadBack(p, e, q)
  BY <1>2, <1>6 DEF NetLead, PadBack, g
<1>10. Sound(r, ds, q) /\ Fits(r, ds, q)
  BY <1>6 DEF g, i
<1>11. Applied(s, bs, p, e, redo, ds, x, q)
  BY <1>5, <1>7, <1>8, <1>9, <1>10 DEF Applied
<1> QED BY <1>11 DEF x, g

LEMMA ApplyRemove ==
  ASSUME NEW s, NEW bs, NEW p, Sound(s, bs, p), NEW e \in Entries, NEW redo \in BOOLEAN,
         NEW ds \in Seq(Key),
         IF redo THEN e.kind = "remove" ELSE e.kind = "insert",
         e.index \in 1 .. Len(ds) + 1, bs = InsertAt(ds, e.index, KeyOf(e.block))
  PROVE  Applied(s, bs, p, e, redo, ds, ApplyStructure(s, e, redo), Grown(p, e.block.size))
<1> DEFINE g == e.block
           i == e.index
           r == Cut(s, i)
           x == ApplyStructure(s, e, redo)
           q == Grown(p, g.size)
<1>1. /\ Holds(s.groups, bs, p) /\ s \in Sections /\ IsBlock(g) /\ Len(ds) \in Nat
      /\ p \in Nat /\ s.payload \in Int /\ g.size \in Nat /\ KeyOf(g) \in Key
  BY LenProperties, SectionIs DEF Sound, Holds, Entries, Blocks, IsBlock, Group, Size, KeyOf, Key
<1>2. /\ InsertAt(ds, i, KeyOf(g)) \in Seq(Key)
      /\ Len(InsertAt(ds, i, KeyOf(g))) = Len(ds) + 1
      /\ \A j \in 1 .. i - 1 : InsertAt(ds, i, KeyOf(g))[j] = ds[j]
      /\ InsertAt(ds, i, KeyOf(g))[i] = KeyOf(g)
      /\ \A j \in i + 1 .. Len(ds) + 1 : InsertAt(ds, i, KeyOf(g))[j] = ds[j - 1]
  <2>1. i \in 1 .. Len(ds) + 1
    OBVIOUS
  <2> HIDE DEF i, g
  <2> QED BY <1>1, <2>1, InsertAtIs, SMTT(30)
<1>3. i \in 1 .. Len(bs) /\ bs[i] = KeyOf(g) /\ RemoveAt(bs, i) = ds
  BY <1>1, <1>2, RemoveInserted
<1>4. KeyOf(s.groups[i]) = KeyOf(g) /\ i <= Len(s.groups)
  BY <1>1, <1>3, HoldsLengths DEF Holds
<1>5. s.groups[i].id = g.id /\ bs[i][2] = g.size
  BY <1>3, <1>4 DEF KeyOf
<1>6. x = Accept(r)
  BY <1>4, <1>5, ApplyCases
<1>7. /\ Removed(s, r, bs, p, i)
      /\ OffsetsFrom(s.groups, HeaderSize) => OffsetsFrom(r.groups, HeaderSize)
  BY <1>1, <1>3, CutIs
<1> HIDE DEF r, x, i, g
<1>8. /\ Sound(r, ds, q) /\ Fits(r, ds, q)
      /\ r.payload = s.payload - Given(p, g.size) /\ Given(p, g.size) \in Nat
      /\ r.payload - q = s.payload - p - g.size
  BY <1>3, <1>5, <1>7, SoundRemoved
<1>9. x.ok = TRUE /\ x.section = r
  BY <1>6, AcceptIs
<1>10. redo => NetLead(s.payload - p, e, r.payload - q) /\ PadLead(p, e, q)
  BY <1>8 DEF NetLead, PadLead, g
<1>11. ~redo => NetLead(r.payload - q, e, s.payload - p) /\ PadBack(p, e, q)
  BY <1>1, <1>8, SMTT(60) DEF NetLead, PadBack, g
<1>12. Applied(s, bs, p, e, redo, ds, x, q)
  BY <1>7, <1>8, <1>9, <1>10, <1>11 DEF Applied
<1> QED BY <1>12 DEF x, g

LEMMA ApplyMove ==
  ASSUME NEW s, NEW bs, NEW p, Sound(s, bs, p), NEW e \in Entries, NEW redo \in BOOLEAN, NEW ds,
         e.kind = "move", SwapOf(e) \in 1 .. Len(bs) - 1, ds = Swapped(bs, SwapOf(e))
  PROVE  Applied(s, bs, p, e, redo, ds, ApplyStructure(s, e, redo), p)
<1> DEFINE r == MoveDn(s, SwapOf(e))
           x == ApplyStructure(s, e, redo)
<1>1. x = Accept(r)
  BY ApplyCases
<1>2. /\ Sound(r, ds, p)
      /\ RoomIn(s, bs, p) => RoomIn(r, ds, p)
      /\ r.payload = s.payload
      /\ OffsetsFrom(s.groups, HeaderSize) => OffsetsFrom(r.groups, HeaderSize)
  BY SoundSwapped
<1>3. x.ok = TRUE /\ x.section = r
  BY <1>1, AcceptIs
<1> HIDE DEF r, x
<1>4. /\ NetLead(s.payload - p, e, r.payload - p) /\ PadLead(p, e, p)
      /\ NetLead(r.payload - p, e, s.payload - p) /\ PadBack(p, e, p)
  BY <1>2 DEF NetLead, PadLead, PadBack
<1>5. Applied(s, bs, p, e, redo, ds, x, p)
  BY <1>2, <1>3, <1>4 DEF Applied, Fits
<1> QED BY <1>5 DEF x

LEMMA IndexIs ==
  ASSUME NEW gs, NEW bs, NEW p, Holds(gs, bs, p), Distinct(bs), NEW i \in 1 .. Len(bs),
         NEW g, IsBlock(g), bs[i][1] = g.id
  PROVE  IndexOf(gs, g) = i
<1>1. /\ Len(gs) \in Nat /\ Len(bs) \in Nat /\ Len(bs) <= Len(gs)
      /\ DOMAIN gs = 1 .. Len(gs) /\ p \in Nat
      /\ \A j \in 1 .. Len(bs) : gs[j].id = bs[j][1]
  BY HoldsLengths, LenProperties DEF Holds, KeyOf
<1>2. ASSUME NEW j \in DOMAIN gs, gs[j].id = g.id PROVE j = i
  <2>1. CASE j \in 1 .. Len(bs)
    BY <1>1, <1>2, <2>1 DEF Distinct
  <2>2. CASE j \notin 1 .. Len(bs)
    <3>1. p > 0 /\ j = Len(gs)
      <4>1. (p = 0 => Len(gs) = Len(bs)) /\ (p > 0 => Len(gs) = Len(bs) + 1)
        BY DEF Holds
      <4>2. j \in 1 .. Len(gs)
        BY <1>1
      <4>3. Len(gs) \in Nat /\ Len(bs) \in Nat /\ Len(bs) <= Len(gs) /\ p \in Nat
        BY <1>1
      <4>4. j \in Nat /\ 1 <= j /\ j <= Len(gs) /\ j > Len(bs)
        BY <2>2, <4>2, <4>3
      <4> QED BY <4>1, <4>3, <4>4
    <3>2. gs[j].id = 0
      BY <3>1 DEF Holds
    <3> QED BY <1>2, <3>2 DEF IsBlock
  <2> QED BY <2>1, <2>2
<1>3. i \in DOMAIN gs /\ gs[i].id = g.id
  BY <1>1
<1>4. \A j \in DOMAIN gs : gs[j].id = g.id <=> j = i
  BY <1>2, <1>3
<1> QED BY <1>3, <1>4 DEF IndexOf

LEMMA ApplyReplace ==
  ASSUME NEW s, NEW bs, NEW p, Sound(s, bs, p), NEW e \in Entries, e.kind = "replace",
         NEW redo \in BOOLEAN, NEW i \in 1 .. Len(bs), NEW g, IsBlock(g), g.size = bs[i][2],
         ApplyStructure(s, e, redo) = ReplaceGroup(s, i, g)
  PROVE  Applied(s, bs, p, e, redo, [bs EXCEPT ![i] = KeyOf(g)], ApplyStructure(s, e, redo), p)
<1> DEFINE x == ReplaceGroup(s, i, g)
           ds == [bs EXCEPT ![i] = KeyOf(g)]
<1>1. Holds(s.groups, bs, p) /\ s \in Sections /\ s.payload = TotalSize(s.groups)
  BY DEF Sound
<1>2. /\ Exchanged(s, x.section, IF x.ok THEN ds ELSE bs, p)
      /\ x.ok = (TotalSize(s.groups) <= Capacity)
  BY <1>1, ReplaceGroupIs, Zenon
<1> HIDE DEF x, ds
<1>3. /\ Sound(x.section, IF x.ok THEN ds ELSE bs, p)
      /\ Fits(x.section, IF x.ok THEN ds ELSE bs, p)
      /\ x.section.payload = s.payload
  BY <1>2, SoundExchanged
<1>4. OffsetsFrom(s.groups, HeaderSize) => OffsetsFrom(x.section.groups, HeaderSize)
  BY <1>2 DEF Exchanged
<1>5. x.ok \in BOOLEAN /\ (x.ok \/ ~(s.payload <= Capacity))
  <2>1. x.ok = (s.payload <= Capacity)
    BY <1>1, <1>2, Zenon
  <2>2. (s.payload <= Capacity) \in BOOLEAN
    OBVIOUS
  <2> QED BY <2>1, <2>2, Zenon
<1>6. /\ NetLead(s.payload - p, e, x.section.payload - p) /\ PadLead(p, e, p)
      /\ NetLead(x.section.payload - p, e, s.payload - p) /\ PadBack(p, e, p)
  BY <1>3 DEF NetLead, PadLead, PadBack
<1>7. Applied(s, bs, p, e, redo, ds, x, p)
  BY <1>3, <1>4, <1>5, <1>6, Zenon DEF Applied
<1>8. ApplyStructure(s, e, redo) = x
  BY DEF x
<1> QED BY <1>7, <1>8, Zenon DEF ds

\* Redo of an entry from where it was made, undo from where it led.
LEMMA ApplyIs ==
  ASSUME NEW s, NEW bs, NEW p, Sound(s, bs, p), Distinct(bs), NEW e \in Entries,
         NEW redo \in BOOLEAN, NEW ds \in Seq(Key),
         IF redo THEN BlocksLead(bs, e, ds) ELSE BlocksLead(ds, e, bs)
  PROVE  \E q : Applied(s, bs, p, e, redo, ds, ApplyStructure(s, e, redo), q)
<1>1. bs \in Seq(Key) /\ Len(bs) \in Nat /\ Len(ds) \in Nat
  BY LenProperties DEF Sound, Holds
<1>2. e.kind \in {"insert", "remove", "move", "replace"} /\ e.block \in Blocks /\ e.other \in Blocks
  BY DEF Entries
<1>3. CASE IF redo THEN e.kind = "insert" ELSE e.kind = "remove"
  <2>1. e.index \in 1 .. Len(bs) + 1 /\ ds = InsertAt(bs, e.index, KeyOf(e.block))
    BY <1>3 DEF BlocksLead
  <2> QED BY <1>3, <2>1, ApplyInsert
<1>4. CASE IF redo THEN e.kind = "remove" ELSE e.kind = "insert"
  <2>1. e.index \in 1 .. Len(ds) + 1 /\ bs = InsertAt(ds, e.index, KeyOf(e.block))
    BY <1>4 DEF BlocksLead
  <2> QED BY <1>4, <2>1, ApplyRemove
<1>5. CASE e.kind = "move"
  <2>1. SwapOf(e) \in 1 .. Len(bs) - 1 /\ ds = Swapped(bs, SwapOf(e))
    <3>1. CASE redo
      BY <1>5, <3>1 DEF BlocksLead
    <3>2. CASE ~redo
      <4>1. SwapOf(e) \in 1 .. Len(ds) - 1 /\ bs = Swapped(ds, SwapOf(e))
        BY <1>5, <3>2 DEF BlocksLead
      <4>2. Swapped(Swapped(ds, SwapOf(e)), SwapOf(e)) = ds
        BY <4>1, SwappedTwice
      <4>3. Len(Swapped(ds, SwapOf(e))) = Len(ds)
        BY <4>1, SwappedIs DEF Swapped
      <4> QED BY <4>1, <4>2, <4>3
    <3> QED BY <3>1, <3>2
  <2> QED BY <1>5, <2>1, ApplyMove
<1>6. CASE e.kind = "replace"
  <2> DEFINE old == IF redo THEN e.block ELSE e.other
             new == IF redo THEN e.other ELSE e.block
  <2>1. e.other.size = e.block.size
    BY <1>6 DEF BlocksLead
  <2>2. \E i \in 1 .. Len(bs) : bs[i] = KeyOf(old) /\ ds = [bs EXCEPT ![i] = KeyOf(new)]
    <3>1. CASE redo
      BY <1>6, <3>1 DEF BlocksLead
    <3>2. CASE ~redo
      <4>1. PICK i \in 1 .. Len(ds) : ds[i] = KeyOf(e.block) /\ bs = [ds EXCEPT ![i] = KeyOf(e.other)]
        BY <1>6, <3>2 DEF BlocksLead
      <4>2. KeyOf(e.other) \in Key /\ KeyOf(e.block) \in Key
        BY <1>2 DEF Blocks, IsBlock, Group, KeyOf, Key, Size
      <4>3. /\ Len(bs) = Len(ds)
            /\ \A j \in 1 .. Len(ds) : bs[j] = IF j = i THEN KeyOf(e.other) ELSE ds[j]
        BY <4>1, <4>2, ExceptSeq
      <4> DEFINE t == [bs EXCEPT ![i] = KeyOf(e.block)]
      <4>4. /\ t \in Seq(Key) /\ Len(t) = Len(bs)
            /\ \A j \in 1 .. Len(bs) : t[j] = IF j = i THEN KeyOf(e.block) ELSE bs[j]
        BY <1>1, <4>1, <4>2, <4>3, ExceptSeq
      <4> HIDE DEF t
      <4>5. t = ds
        BY <4>1, <4>3, <4>4, SeqEqual
      <4>6. i \in 1 .. Len(bs) /\ bs[i] = KeyOf(e.other) /\ ds = [bs EXCEPT ![i] = KeyOf(e.block)]
        BY <4>3, <4>5 DEF t
      <4> QED BY <3>2, <4>6
    <3> QED BY <3>1, <3>2
  <2>3. PICK i \in 1 .. Len(bs) : bs[i] = KeyOf(old) /\ ds = [bs EXCEPT ![i] = KeyOf(new)]
    BY <2>2
  <2>4. IsBlock(old) /\ IsBlock(new) /\ bs[i][1] = old.id /\ new.size = bs[i][2]
    BY <1>2, <2>1, <2>3 DEF Blocks, KeyOf
  <2>5. ApplyStructure(s, e, redo) = ReplaceGroup(s, i, new)
    <3>1. IndexOf(s.groups, old) = i
      BY <2>4, IndexIs DEF Sound
    <3> QED BY <1>6, <3>1, ApplyCases, Zenon
  <2> HIDE DEF new, old
  <2>6. Applied(s, bs, p, e, redo, [bs EXCEPT ![i] = KeyOf(new)], ApplyStructure(s, e, redo), p)
    BY <1>6, <2>4, <2>5, ApplyReplace
  <2>7. Applied(s, bs, p, e, redo, ds, ApplyStructure(s, e, redo), p)
    BY <2>3, <2>6, Zenon
  <2> QED BY <2>7
<1> QED BY <1>2, <1>3, <1>4, <1>5, <1>6

(***************************************************************************)
(* A file that was opened.                                                 *)
(***************************************************************************)
KeysOf(file) == [i \in DOMAIN file.sizes |-> <<i, file.sizes[i]>>]

LEMMA KeysAre ==
  ASSUME NEW file \in Files
  PROVE  /\ KeysOf(file) \in Seq(Key) /\ Distinct(KeysOf(file)) /\ file.padding \in Nat
         /\ Holds(ItemsOf(file), KeysOf(file), file.padding)
<1> DEFINE n == Len(file.sizes)
           ks == KeysOf(file)
           blocks == [i \in DOMAIN file.sizes |-> Block(i, file.sizes[i])]
           pad == Padding(file.padding, 0)
<1>1. file.sizes \in Seq(Size) /\ file.padding \in Nat
  BY SectionAssumption DEF Size
<1>2. n \in Nat /\ DOMAIN file.sizes = 1 .. n /\ \A i \in 1 .. n : file.sizes[i] \in Size
  BY <1>1, LenProperties, ElementOfSeq
<1>3. \A i \in 1 .. n : <<i, file.sizes[i]>> \in Key
  BY <1>2 DEF Key, Size
<1>4. ks = [i \in 1 .. n |-> <<i, file.sizes[i]>>]
  BY <1>2 DEF KeysOf
<1>5. ks \in [1 .. n -> Key]
  BY <1>3, <1>4
<1>6. ks \in Seq(Key) /\ Len(ks) = n
  BY <1>2, <1>5, SeqDef, LenProperties
<1>7. \A i \in 1 .. n : ks[i] = <<i, file.sizes[i]>>
  BY <1>4
<1>8. Distinct(ks)
  <2> HIDE DEF ks
  <2> QED BY <1>2, <1>6, <1>7 DEF Distinct
<1>9. ASSUME NEW i \in 1 .. n
      PROVE  blocks[i] \in Group /\ blocks[i].kind = "data" /\ KeyOf(blocks[i]) = <<i, file.sizes[i]>>
  <2>1. file.sizes[i] \in Size /\ i \in Size /\ blocks[i] = Block(i, file.sizes[i])
    BY <1>2 DEF Size
  <2> HIDE DEF blocks
  <2> QED BY <2>1 DEF Block, Group, Size, Offset, KeyOf
<1>10. blocks \in [1 .. n -> Group]
  BY <1>2, <1>9
<1> HIDE DEF ks, blocks
<1>11. blocks \in Seq(Group) /\ Len(blocks) = n
  BY <1>2, <1>10, SeqDef, LenProperties
<1>12. CASE file.padding = 0
  <2>1. ItemsOf(file) = blocks
    BY <1>12 DEF ItemsOf, blocks
  <2>2. Holds(blocks, ks, file.padding)
    <3>1. \A i \in 1 .. Len(ks) : blocks[i].kind = "data" /\ KeyOf(blocks[i]) = ks[i]
      BY <1>6, <1>7, <1>9
    <3> QED BY <1>1, <1>6, <1>11, <1>12, <3>1 DEF Holds
  <2> QED BY <1>1, <1>6, <1>8, <2>1, <2>2 DEF ks
<1>13. CASE file.padding > 0
  <2> DEFINE t == Append(blocks, pad)
  <2>1. ItemsOf(file) = t
    BY <1>1, <1>13 DEF ItemsOf, blocks
  <2>2. pad \in Group /\ pad.kind = "padding" /\ pad.id = 0 /\ pad.size = file.padding
    BY <1>1, <1>13 DEF Padding, Group, Size, Offset
  <2>3. t \in Seq(Group) /\ Len(t) = n + 1 /\ t[n + 1] = pad
    BY <1>2, <1>11, <2>2, AppendProperties
  <2>4. \A i \in 1 .. n : t[i] = blocks[i]
    BY <1>2, <1>11, <2>2, AppendProperties
  <2> HIDE DEF t, pad
  <2>5. Holds(t, ks, file.padding)
    <3>1. \A i \in 1 .. Len(ks) : t[i].kind = "data" /\ KeyOf(t[i]) = ks[i]
      BY <1>6, <1>7, <1>9, <2>4
    <3>2. Len(t) = Len(ks) + 1 /\ t[Len(t)] = pad
      BY <1>6, <2>3
    <3> QED BY <1>1, <1>6, <1>13, <2>2, <2>3, <3>1, <3>2 DEF Holds
  <2> QED BY <1>1, <1>6, <1>8, <2>1, <2>5 DEF ks
<1> QED BY <1>1, <1>12, <1>13

LEMMA ParsedIs ==
  ASSUME NEW file \in Files
  PROVE  /\ Holds(Parsed(file), KeysOf(file), file.padding)
         /\ TotalSize(Parsed(file)) = SizeOf(file) /\ SizeOf(file) \in Nat
         /\ OffsetsFrom(Parsed(file), HeaderSize)
<1> DEFINE gs == ItemsOf(file)
           u == Parsed(file)
<1>1. /\ Holds(gs, KeysOf(file), file.padding) /\ gs \in Seq(Group)
      /\ KeysOf(file) \in Seq(Key) /\ file.padding \in Nat
  BY KeysAre DEF Holds
<1>2. /\ Len(gs) \in Nat /\ Len(KeysOf(file)) \in Nat
      /\ \A i \in 1 .. Len(gs) : gs[i] \in Group
  BY <1>1, HoldsLengths
<1>3. 1 \in 1 .. Len(gs) + 1 /\ HeaderSize \in Offset /\ HeaderSize \in Nat /\ u = UpdateAbsOffs(gs, 1, HeaderSize)
  BY <1>2 DEF Offset, HeaderSize, Parsed
<1> HIDE DEF gs, u
<1>4. /\ u \in Seq(Group) /\ Len(u) = Len(gs)
      /\ \A i \in 1 .. 1 - 1 : u[i] = gs[i]
      /\ \A i \in 1 .. Len(gs) : /\ Same(u[i], gs[i])
                                 /\ HeaderSize \in Nat => u[i].at = HeaderSize + Upto(gs, i - 1) - Upto(gs, 1 - 1)
      /\ \A i \in 1 .. Len(gs) : u[i].size = gs[i].size
      /\ \A n \in 0 .. Len(gs) : Upto(u, n) = Upto(gs, n)
      /\ TotalSize(u) = TotalSize(gs)
  BY <1>1, <1>3, GroupsOfSection, UpdateAbsOffsIs
<1>5. \A i \in 1 .. Len(KeysOf(file)) : u[i].kind = "data" /\ KeyOf(u[i]) = KeysOf(file)[i]
  <2> SUFFICES ASSUME NEW i \in 1 .. Len(KeysOf(file))
               PROVE  u[i].kind = "data" /\ KeyOf(u[i]) = KeysOf(file)[i]
    OBVIOUS
  <2>1. i \in 1 .. Len(gs) /\ gs[i].kind = "data" /\ KeyOf(gs[i]) = KeysOf(file)[i]
    BY <1>1, HoldsLengths DEF Holds
  <2>2. Same(u[i], gs[i]) /\ gs[i] \in Group
    BY <1>2, <1>4, <2>1
  <2> QED BY <2>1, <2>2, SameGroup DEF KeyOf
<1>6. file.padding > 0 => Same(u[Len(u)], gs[Len(gs)])
  <2> SUFFICES ASSUME file.padding > 0 PROVE Same(u[Len(u)], gs[Len(gs)])
    OBVIOUS
  <2>1. Len(gs) \in 1 .. Len(gs)
    BY <1>1, <1>2 DEF Holds
  <2> QED BY <1>4, <2>1
<1>7. Holds(u, KeysOf(file), file.padding)
  BY <1>1, <1>4, <1>5, <1>6, HoldsKept
<1>8. TotalSize(u) = SizeOf(file) /\ SizeOf(file) \in Nat
  <2>1. SizeOf(file) = TotalSize(gs)
    BY DEF SizeOf, gs
  <2>2. TotalSize(gs) \in Nat
    BY <1>1, GroupsOfSection, UptoSteps
  <2> QED BY <1>4, <2>1, <2>2
<1>9. OffsetsFrom(u, HeaderSize)
  <2>1. Upto(gs, 0) = 0 /\ \A n \in 0 .. Len(gs) : Upto(gs, n) \in Nat
    BY <1>1, GroupsOfSection, UptoSteps
  <2> SUFFICES ASSUME NEW i \in 1 .. Len(gs) PROVE u[i].at = HeaderSize + Upto(u, i - 1)
    BY <1>4 DEF OffsetsFrom
  <2>2. i - 1 \in 0 .. Len(gs) /\ 1 - 1 = 0
    BY <1>2
  <2>3. u[i].at = HeaderSize + Upto(gs, i - 1) - Upto(gs, 0)
    BY <1>3, <1>4, <2>2
  <2> QED BY <1>3, <1>4, <2>1, <2>2, <2>3
<1> QED BY <1>7, <1>8, <1>9 DEF u

(***************************************************************************)
(* The inductive invariant: the section is the one the timeline has at     *)
(* this position, but for padding that was used up, and every entry leads  *)
(* from one section of the timeline to the next.                           *)
(***************************************************************************)
Pad == PaddingOf(groups)
Net(c) == c.payload - c.padding

SectionInv ==
  /\ Sound(Section, timeline[position + 1].blocks, Pad)
  /\ payload - Pad = Net(timeline[position + 1])

HistoryInv ==
  /\ history \in Seq(Entries)
  /\ timeline \in Seq(Contents)
  /\ Len(timeline) = Len(history) + 1
  /\ position \in 0 .. Len(history)
  /\ \A j \in 1 .. Len(timeline) : Distinct(timeline[j].blocks)
  /\ \A j \in 1 .. Len(history) :
       /\ BlocksLead(timeline[j].blocks, history[j], timeline[j + 1].blocks)
       /\ NetLead(Net(timeline[j]), history[j], Net(timeline[j + 1]))

\* As long as there is padding, it is what the timeline says.
PaddingInv ==
  Pad > 0 =>
    /\ Pad = timeline[position + 1].padding
    /\ \A j \in 1 .. Len(history) :
         PadLead(timeline[j].padding, history[j], timeline[j + 1].padding)

IInv == SectionInv /\ HistoryInv /\ PaddingInv

LEMMA Recorded ==
  ASSUME NEW S, NEW s \in Seq(S), NEW n \in 0 .. Len(s), NEW e \in S
  PROVE  LET t == Append(SubSeq(s, 1, n), e)
         IN  /\ t \in Seq(S) /\ Len(t) = n + 1
             /\ \A j \in 1 .. n : t[j] = s[j]
             /\ t[n + 1] = e
<1> DEFINE u == SubSeq(s, 1, n)
<1>1. Len(s) \in Nat /\ \A j \in 1 .. n : s[j] \in S
  BY LenProperties, ElementOfSeq
<1>2. n \in Int /\ 1 \in Int
  OBVIOUS
<1>3. /\ u \in Seq(S) /\ Len(u) = IF 1 <= n THEN n - 1 + 1 ELSE 0
      /\ \A j \in 1 .. n - 1 + 1 : u[j] = s[1 + j - 1]
  BY <1>1, <1>2, SubSeqProperties
<1>4. u \in Seq(S) /\ Len(u) = n /\ \A j \in 1 .. n : u[j] = s[j]
  BY <1>1, <1>3
<1> HIDE DEF u
<1>5. /\ Append(u, e) \in Seq(S) /\ Len(Append(u, e)) = n + 1
      /\ \A j \in 1 .. n : Append(u, e)[j] = u[j]
      /\ Append(u, e)[n + 1] = e
  BY <1>4, AppendProperties
<1> QED BY <1>4, <1>5 DEF u

\* The state of the section and the history at this position.
LEMMA Here ==
  ASSUME IInv
  PROVE  /\ Sound(Section, timeline[position + 1].blocks, Pad)
         /\ Holds(groups, timeline[position + 1].blocks, Pad)
         /\ Distinct(timeline[position + 1].blocks)
         /\ Len(history) \in Nat /\ position \in Nat /\ Pad \in Nat /\ payload \in Nat
         /\ position + 1 \in 1 .. Len(timeline) /\ timeline[position + 1] \in Contents
         /\ \A j \in 1 .. Len(timeline) : timeline[j] \in Contents
         /\ \A j \in 1 .. Len(history) : history[j] \in Entries
<1>1. Len(history) \in Nat /\ Len(timeline) \in Nat
  BY LenProperties DEF IInv, HistoryInv
<1>2. /\ position \in Nat /\ position + 1 \in 1 .. Len(timeline)
      /\ Sound(Section, timeline[position + 1].blocks, Pad)
  BY <1>1 DEF IInv, HistoryInv, SectionInv
<1>3. /\ \A j \in 1 .. Len(timeline) : timeline[j] \in Contents
      /\ \A j \in 1 .. Len(history) : history[j] \in Entries
  BY ElementOfSeq DEF IInv, HistoryInv
<1>4. Holds(groups, timeline[position + 1].blocks, Pad) /\ payload = TotalSize(groups)
  BY <1>2, SectionFields DEF Sound
<1>5. groups \in Seq(Group) /\ Pad \in Nat
  BY <1>4 DEF Holds
<1>6. payload \in Nat
  BY <1>4, <1>5, GroupsOfSection, UptoSteps
<1>7. Distinct(timeline[position + 1].blocks)
  BY <1>2 DEF IInv, HistoryInv
<1> QED BY <1>1, <1>2, <1>3, <1>4, <1>5, <1>6, <1>7

LEMMA BecomesIs ==
  ASSUME NEW r, NEW cs, NEW q, Sound(r, cs, q), Becomes(r)
  PROVE  /\ Section' = r /\ groups' = r.groups /\ payload' = r.payload /\ free' = r.free
         /\ Pad' = q /\ q \in Nat /\ cs \in Seq(Key) /\ r.payload \in Nat
<1>1. r \in Sections /\ Holds(r.groups, cs, q) /\ r.payload = TotalSize(r.groups)
  BY DEF Sound
<1>2. groups' = r.groups /\ payload' = r.payload /\ free' = r.free
  BY DEF Becomes
<1>3. Section' = r
  BY <1>1, <1>2, SectionIs DEF Section
<1>4. Pad' = q
  <2>1. PaddingOf(r.groups) = q
    BY <1>1, HoldsPadding
  <2> QED BY <1>2, <2>1 DEF Pad, PaddingOf, HasPadding
<1>5. r.groups \in Seq(Group) /\ q \in Nat /\ cs \in Seq(Key)
  BY <1>1 DEF Holds
<1>6. r.payload \in Nat
  BY <1>1, <1>5, GroupsOfSection, UptoSteps
<1> QED BY <1>2, <1>3, <1>4, <1>5, <1>6

\* What a recorded change does to the history.
LEMMA RecordIs ==
  ASSUME IInv, NEW r, NEW e, NEW cs, NEW q,
         Edited(timeline[position + 1].blocks, Pad, r, e, cs, q)
  PROVE  LET c == [blocks |-> cs, padding |-> q, payload |-> r.payload]
         IN  /\ c \in Contents
             /\ history' \in Seq(Entries) /\ Len(history') = position + 1
             /\ \A j \in 1 .. position : history'[j] = history[j]
             /\ history'[position + 1] = e
             /\ position' = position + 1
             /\ timeline' \in Seq(Contents) /\ Len(timeline') = position + 2
             /\ \A j \in 1 .. position + 1 : timeline'[j] = timeline[j]
             /\ timeline'[position + 2] = c
             /\ Becomes(r)
<1> DEFINE c == [blocks |-> cs, padding |-> q, payload |-> r.payload]
<1>1. /\ Record(r, e) /\ e \in Entries /\ Sound(r, cs, q)
  BY DEF Edited
<1>2. /\ Becomes(r)
      /\ history' = Append(SubSeq(history, 1, position), e)
      /\ position' = position + 1
      /\ timeline' = Append(SubSeq(timeline, 1, position + 1), Content(r))
  BY <1>1 DEF Record
<1>3. Content(r) = c
  BY <1>1, ContentIs DEF Sound
<1>4. cs \in Seq(Key) /\ q \in Nat /\ r.payload \in Nat
  BY <1>1, <1>2, BecomesIs
<1>5. c \in Contents
  BY <1>4 DEF Contents
<1> HIDE DEF c
<1>6. /\ history \in Seq(Entries) /\ timeline \in Seq(Contents)
      /\ position \in 0 .. Len(history) /\ position + 1 \in 0 .. Len(timeline) /\ position + 1 + 1 = position + 2
  BY Here DEF IInv, HistoryInv
<1>7. /\ history' \in Seq(Entries) /\ Len(history') = position + 1
      /\ \A j \in 1 .. position : history'[j] = history[j]
      /\ history'[position + 1] = e
  BY <1>1, <1>2, <1>6, Recorded
<1>8. /\ timeline' \in Seq(Contents) /\ Len(timeline') = position + 1 + 1
      /\ \A j \in 1 .. position + 1 : timeline'[j] = timeline[j]
      /\ timeline'[position + 1 + 1] = c
  BY <1>2, <1>3, <1>5, <1>6, Recorded
<1> QED BY <1>2, <1>5, <1>6, <1>7, <1>8 DEF c

LEMMA EditedKeeps ==
  ASSUME IInv, NEW r, NEW e, NEW cs, NEW q,
         Edited(timeline[position + 1].blocks, Pad, r, e, cs, q)
  PROVE  IInv'
<1> DEFINE c == [blocks |-> cs, padding |-> q, payload |-> r.payload]
<1>1. /\ c \in Contents
      /\ history' \in Seq(Entries) /\ Len(history') = position + 1
      /\ \A j \in 1 .. position : history'[j] = history[j]
      /\ history'[position + 1] = e
      /\ position' = position + 1
      /\ timeline' \in Seq(Contents) /\ Len(timeline') = position + 2
      /\ \A j \in 1 .. position + 1 : timeline'[j] = timeline[j]
      /\ timeline'[position + 2] = c
      /\ Becomes(r)
  BY RecordIs
<1>2. /\ e \in Entries /\ Sound(r, cs, q) /\ Distinct(cs)
      /\ BlocksLead(timeline[position + 1].blocks, e, cs)
      /\ NetLead(payload - Pad, e, r.payload - q)
      /\ PadLead(Pad, e, q)
  BY DEF Edited
<1>3. /\ Section' = r /\ payload' = r.payload
      /\ Pad' = q /\ q \in Nat
  BY <1>1, <1>2, BecomesIs
<1>4. /\ position \in Nat /\ Pad \in Nat /\ position \in 0 .. Len(history) /\ Len(history) \in Nat
      /\ payload - Pad = Net(timeline[position + 1])
      /\ Len(timeline) = Len(history) + 1
  BY Here DEF IInv, SectionInv, HistoryInv
<1>5. c.blocks = cs /\ c.padding = q /\ c.payload = r.payload /\ Net(c) = r.payload - q
  BY DEF Net
<1> HIDE DEF c
<1>6. position' + 1 = position + 2
  BY <1>1, <1>4
<1>7. SectionInv'
  <2>1. Sound(Section', timeline'[position' + 1].blocks, Pad') /\ payload' - Pad' = Net(timeline'[position' + 1])
    BY <1>1, <1>2, <1>3, <1>5, <1>6
  <2> QED BY <2>1 DEF SectionInv, Net
<1>8. HistoryInv'
  <2>1. position' \in 0 .. Len(history') /\ Len(timeline') = Len(history') + 1
    BY <1>1, <1>4
  <2>2. ASSUME NEW j \in 1 .. Len(timeline') PROVE Distinct(timeline'[j].blocks)
    <3>1. CASE j = position + 2
      BY <1>1, <1>2, <1>5, <3>1
    <3>2. CASE j # position + 2
      <4>1. j \in 1 .. position + 1 /\ j \in 1 .. Len(timeline)
        BY <1>1, <1>4, <3>2
      <4> QED BY <1>1, <4>1 DEF IInv, HistoryInv
    <3> QED BY <3>1, <3>2
  <2>3. ASSUME NEW j \in 1 .. Len(history')
        PROVE  /\ BlocksLead(timeline'[j].blocks, history'[j], timeline'[j + 1].blocks)
               /\ NetLead(Net(timeline'[j]), history'[j], Net(timeline'[j + 1]))
    <3>1. CASE j = position + 1
      <4>1. j + 1 = position + 2 /\ j \in 1 .. position + 1
        BY <1>4, <3>1
      <4> QED BY <1>1, <1>2, <1>4, <1>5, <3>1, <4>1
    <3>2. CASE j # position + 1
      <4>1. j \in 1 .. position /\ j \in 1 .. position + 1 /\ j + 1 \in 1 .. position + 1 /\ j \in 1 .. Len(history)
        BY <1>1, <1>4, <3>2
      <4>2. /\ BlocksLead(timeline[j].blocks, history[j], timeline[j + 1].blocks)
            /\ NetLead(Net(timeline[j]), history[j], Net(timeline[j + 1]))
        BY <4>1 DEF IInv, HistoryInv
      <4> QED BY <1>1, <4>1, <4>2
    <3> QED BY <3>1, <3>2
  <2> QED BY <1>1, <2>1, <2>2, <2>3 DEF HistoryInv, Net
<1>9. PaddingInv'
  <2> SUFFICES ASSUME q > 0
               PROVE  /\ q = timeline'[position' + 1].padding
                      /\ \A j \in 1 .. Len(history') :
                           PadLead(timeline'[j].padding, history'[j], timeline'[j + 1].padding)
    BY <1>3 DEF PaddingInv
  <2>1. Pad > 0
    <3>1. e.kind \in {"insert", "remove", "move", "replace"} /\ e.block.size \in Nat
      BY <1>2 DEF Entries, Blocks, Group, Size
    <3> QED BY <1>2, <1>4, <3>1 DEF PadLead, Left, Grown
  <2>2. /\ Pad = timeline[position + 1].padding
        /\ \A j \in 1 .. Len(history) : PadLead(timeline[j].padding, history[j], timeline[j + 1].padding)
    BY <2>1 DEF IInv, PaddingInv
  <2>3. ASSUME NEW j \in 1 .. Len(history')
        PROVE  PadLead(timeline'[j].padding, history'[j], timeline'[j + 1].padding)
    <3>1. CASE j = position + 1
      <4>1. j + 1 = position + 2 /\ j \in 1 .. position + 1
        BY <1>4, <3>1
      <4> QED BY <1>1, <1>2, <1>5, <2>2, <3>1, <4>1
    <3>2. CASE j # position + 1
      <4>1. j \in 1 .. position /\ j \in 1 .. position + 1 /\ j + 1 \in 1 .. position + 1 /\ j \in 1 .. Len(history)
        BY <1>1, <1>4, <3>2
      <4>2. PadLead(timeline[j].padding, history[j], timeline[j + 1].padding)
        BY <2>2, <4>1
      <4> QED BY <1>1, <4>1, <4>2
    <3> QED BY <3>1, <3>2
  <2> QED BY <1>1, <1>5, <1>6, <2>3
<1> QED BY <1>7, <1>8, <1>9 DEF IInv

LEMMA FailedKeeps ==
  ASSUME IInv, NEW r, RebuildFails(timeline[position + 1].blocks, Pad, r)
  PROVE  IInv'
<1> DEFINE bs == timeline[position + 1].blocks
<1>1. /\ Sound(Section, bs, Pad) /\ payload - Pad = Net(timeline[position + 1])
      /\ Exchanged(Section, r, bs, Pad) /\ Becomes(r)
      /\ history' = history /\ position' = position /\ timeline' = timeline
  BY DEF IInv, SectionInv, RebuildFails
<1> HIDE DEF bs
<1>2. Sound(r, bs, Pad) /\ r.payload = payload
  BY <1>1, SoundExchanged, SectionFields
<1>3. Section' = r /\ payload' = payload /\ Pad' = Pad
  BY <1>1, <1>2, BecomesIs
<1>4. SectionInv'
  BY <1>1, <1>2, <1>3 DEF SectionInv, Net, bs
<1>5. HistoryInv'
  BY <1>1 DEF IInv, HistoryInv, Net
<1>6. PaddingInv'
  BY <1>1, <1>3 DEF IInv, PaddingInv
<1> QED BY <1>4, <1>5, <1>6 DEF IInv

\* Undo or redo of entry j, which leads to position k.
Travels(j, k, redo) ==
  LET x == ApplyStructure(Section, history[j], redo)
  IN  /\ j \in 1 .. Len(history)
      /\ IF redo THEN j = position + 1 /\ k = position + 1 ELSE j = position /\ k = position - 1
      /\ Becomes(x.section)
      /\ position' = IF x.ok THEN k ELSE position
      /\ UNCHANGED <<history, timeline>>

LEMMA UndoTravels ==
  ASSUME IInv, Undo
  PROVE  Travels(position, position - 1, FALSE)
<1>1. position \in 1 .. Len(history)
  BY Here DEF IInv, HistoryInv, Undo
<1> QED BY <1>1 DEF Travels, Undo

LEMMA RedoTravels ==
  ASSUME IInv, Redo
  PROVE  Travels(position + 1, position + 1, TRUE)
<1>1. position + 1 \in 1 .. Len(history)
  BY Here DEF IInv, HistoryInv, Redo
<1> QED BY <1>1 DEF Travels, Redo

\* The section at both ends of the entry.
LEMMA EndsAre ==
  ASSUME IInv, NEW redo \in BOOLEAN, NEW j, NEW k,
         j \in 1 .. Len(history),
         IF redo THEN j = position + 1 /\ k = position + 1 ELSE j = position /\ k = position - 1
  PROVE  /\ history[j] \in Entries
         /\ k \in 0 .. Len(history) /\ k + 1 \in 1 .. Len(timeline)
         /\ timeline[k + 1] \in Contents
         /\ IF redo THEN position + 1 = j /\ k + 1 = j + 1 ELSE position + 1 = j + 1 /\ k + 1 = j
         /\ IF redo THEN BlocksLead(timeline[position + 1].blocks, history[j], timeline[k + 1].blocks)
                    ELSE BlocksLead(timeline[k + 1].blocks, history[j], timeline[position + 1].blocks)
         /\ IF redo THEN NetLead(Net(timeline[position + 1]), history[j], Net(timeline[k + 1]))
                    ELSE NetLead(Net(timeline[k + 1]), history[j], Net(timeline[position + 1]))
<1>1. /\ position \in Nat /\ Len(history) \in Nat /\ Len(timeline) = Len(history) + 1
      /\ \A i \in 1 .. Len(timeline) : timeline[i] \in Contents
      /\ history[j] \in Entries
  BY Here DEF IInv, HistoryInv
<1>2. /\ BlocksLead(timeline[j].blocks, history[j], timeline[j + 1].blocks)
      /\ NetLead(Net(timeline[j]), history[j], Net(timeline[j + 1]))
  BY DEF IInv, HistoryInv
<1>3. CASE redo
  <2>1. j = position + 1 /\ k = position + 1 /\ k + 1 = j + 1 /\ k \in 0 .. Len(history) /\ k + 1 \in 1 .. Len(timeline)
    BY <1>1, <1>3
  <2> QED BY <1>1, <1>2, <1>3, <2>1, Zenon
<1>4. CASE ~redo
  <2>1. j = position /\ k + 1 = j /\ position + 1 = j + 1 /\ k \in 0 .. Len(history) /\ k + 1 \in 1 .. Len(timeline)
    BY <1>1, <1>4
  <2> QED BY <1>1, <1>2, <1>4, <2>1, Zenon
<1> QED BY <1>3, <1>4

LEMMA TravelApplies ==
  ASSUME IInv, NEW redo \in BOOLEAN, NEW j, NEW k,
         j \in 1 .. Len(history),
         IF redo THEN j = position + 1 /\ k = position + 1 ELSE j = position /\ k = position - 1
  PROVE  \E q : Applied(Section, timeline[position + 1].blocks, Pad, history[j], redo,
                        timeline[k + 1].blocks, ApplyStructure(Section, history[j], redo), q)
<1> DEFINE bs == timeline[position + 1].blocks
           ds == timeline[k + 1].blocks
           e == history[j]
<1>1. Sound(Section, bs, Pad) /\ Distinct(bs)
  BY Here
<1>2. e \in Entries /\ ds \in Seq(Key) /\ IF redo THEN BlocksLead(bs, e, ds) ELSE BlocksLead(ds, e, bs)
  BY EndsAre DEF Contents
<1> HIDE DEF bs, ds, e
<1>3. \E q : Applied(Section, bs, Pad, e, redo, ds, ApplyStructure(Section, e, redo), q)
  BY <1>1, <1>2, ApplyIs
<1> QED BY <1>3 DEF bs, ds, e

\* Padding that is left when an entry is undone or redone is what it was.
LEMMA PadBackIs ==
  ASSUME NEW p \in Nat, NEW t \in Nat, NEW e \in Entries, NEW q \in Nat, q > 0,
         PadBack(p, e, q), PadLead(t, e, p)
  PROVE  p > 0 /\ t = q
<1>1. e.kind \in {"insert", "remove", "move", "replace"} /\ e.block.size \in Size
  BY DEF Entries, Blocks, Group
<1>2. CASE e.kind = "insert"
  BY <1>1, <1>2 DEF PadBack, PadLead, Grown, Left, Size
<1>3. CASE e.kind = "remove"
  BY <1>1, <1>3 DEF PadBack, PadLead, Grown, Left, Size
<1>4. CASE e.kind \in {"move", "replace"}
  BY <1>1, <1>4 DEF PadBack, PadLead
<1> QED BY <1>1, <1>2, <1>3, <1>4

LEMMA PadLeadIs ==
  ASSUME NEW p \in Nat, NEW t \in Nat, NEW e \in Entries, NEW q \in Nat, q > 0, PadLead(p, e, q)
  PROVE  p > 0 /\ (PadLead(p, e, t) => t = q)
<1>1. e.kind \in {"insert", "remove", "move", "replace"} /\ e.block.size \in Size
  BY DEF Entries, Blocks, Group
<1> QED BY <1>1 DEF PadLead, Grown, Left, Size

LEMMA NetLeadIs ==
  ASSUME NEW e \in Entries, NEW n \in Int, NEW m \in Int, NEW i \in Int, NetLead(n, e, m)
  PROVE  (NetLead(n, e, i) => i = m) /\ (NetLead(i, e, m) => i = n)
<1>1. e.kind \in {"insert", "remove", "move", "replace"} /\ e.block.size \in Nat
  BY DEF Entries, Blocks, Group, Size
<1> QED BY <1>1 DEF NetLead

LEMMA NetIs ==
  ASSUME NEW c \in Contents
  PROVE  Net(c) \in Int /\ c.padding \in Nat /\ c.payload \in Nat /\ c.blocks \in Seq(Key)
BY DEF Contents, Net

LEMMA TravelKeeps ==
  ASSUME IInv, NEW redo \in BOOLEAN, NEW j, NEW k, Travels(j, k, redo)
  PROVE  IInv'
<1> DEFINE b == timeline[position + 1]
           d == timeline[k + 1]
           e == history[j]
           x == ApplyStructure(Section, e, redo)
<1>1. /\ j \in 1 .. Len(history)
      /\ IF redo THEN j = position + 1 /\ k = position + 1 ELSE j = position /\ k = position - 1
      /\ Becomes(x.section)
      /\ position' = IF x.ok THEN k ELSE position
      /\ history' = history /\ timeline' = timeline
  BY DEF Travels
<1>2. PICK q : Applied(Section, b.blocks, Pad, e, redo, d.blocks, x, q)
  BY <1>1, TravelApplies
<1>3. /\ e \in Entries
      /\ k \in 0 .. Len(history) /\ k + 1 \in 1 .. Len(timeline)
      /\ d \in Contents
      /\ IF redo THEN position + 1 = j /\ k + 1 = j + 1 ELSE position + 1 = j + 1 /\ k + 1 = j
      /\ IF redo THEN BlocksLead(b.blocks, e, d.blocks) ELSE BlocksLead(d.blocks, e, b.blocks)
      /\ IF redo THEN NetLead(Net(b), e, Net(d)) ELSE NetLead(Net(d), e, Net(b))
  BY <1>1, EndsAre
<1>4. /\ Pad \in Nat /\ payload \in Nat /\ b \in Contents /\ position \in 0 .. Len(history)
      /\ payload - Pad = Net(b) /\ position \in Nat
  BY Here DEF IInv, SectionInv, HistoryInv
<1>5. /\ x.ok \in BOOLEAN
      /\ Sound(x.section, IF x.ok THEN d.blocks ELSE b.blocks, q)
      /\ x.ok /\ redo => NetLead(payload - Pad, e, x.section.payload - q) /\ PadLead(Pad, e, q)
      /\ x.ok /\ ~redo => NetLead(x.section.payload - q, e, payload - Pad) /\ PadBack(Pad, e, q)
      /\ ~x.ok => x.section.payload = payload /\ q = Pad
  BY <1>2, SectionFields DEF Applied
<1>6. PadLead(timeline[j].padding, e, timeline[j + 1].padding) \/ ~(Pad > 0)
  BY <1>1 DEF IInv, PaddingInv
<1>7. Pad > 0 => Pad = b.padding
  BY DEF IInv, PaddingInv
<1> HIDE DEF b, d, e, x
<1>8. Net(b) \in Int /\ Net(d) \in Int /\ d.padding \in Nat
  <2>1. b \in Contents /\ d \in Contents
    BY <1>3, <1>4
  <2> QED BY <2>1, NetIs
<1>9. /\ Section' = x.section /\ payload' = x.section.payload
      /\ Pad' = q /\ q \in Nat /\ x.section.payload \in Nat
  BY <1>1, <1>5, BecomesIs
<1>10. x.ok => x.section.payload - q = Net(d) /\ (q > 0 => Pad > 0 /\ q = d.padding)
  <2> SUFFICES ASSUME x.ok
               PROVE  x.section.payload - q = Net(d) /\ (q > 0 => Pad > 0 /\ q = d.padding)
    OBVIOUS
  <2>1. x.section.payload - q \in Int
    BY <1>9
  <2>2. CASE redo
    <3>1. NetLead(Net(b), e, x.section.payload - q) /\ PadLead(Pad, e, q) /\ NetLead(Net(b), e, Net(d))
      BY <1>3, <1>4, <1>5, <2>2
    <3>2. x.section.payload - q = Net(d)
      BY <1>3, <1>8, <2>1, <3>1, NetLeadIs
    <3>3. ASSUME q > 0 PROVE Pad > 0 /\ q = d.padding
      <4>1. Pad > 0 /\ (PadLead(Pad, e, d.padding) => d.padding = q)
        BY <1>3, <1>4, <1>8, <1>9, <3>1, <3>3, PadLeadIs
      <4>2. PadLead(Pad, e, d.padding)
        <5>1. timeline[j].padding = Pad /\ timeline[j + 1].padding = d.padding
          BY <1>3, <1>7, <2>2, <4>1 DEF b, d
        <5> QED BY <1>6, <4>1, <5>1
      <4> QED BY <4>1, <4>2
    <3> QED BY <3>2, <3>3
  <2>3. CASE ~redo
    <3>1. NetLead(x.section.payload - q, e, Net(b)) /\ PadBack(Pad, e, q) /\ NetLead(Net(d), e, Net(b))
      BY <1>3, <1>4, <1>5, <2>3
    <3>2. x.section.payload - q = Net(d)
      BY <1>3, <1>8, <2>1, <3>1, NetLeadIs
    <3>3. ASSUME q > 0 PROVE Pad > 0 /\ q = d.padding
      <4>1. Pad > 0
        <5>1. e.kind \in {"insert", "remove", "move", "replace"} /\ e.block.size \in Size
          BY <1>3 DEF Entries, Blocks, Group
        <5> QED BY <1>4, <1>9, <3>1, <3>3, <5>1 DEF PadBack, Grown, Left, Size
      <4>2. PadLead(d.padding, e, Pad)
        <5>1. timeline[j + 1].padding = Pad /\ timeline[j].padding = d.padding
          BY <1>3, <1>7, <2>3, <4>1 DEF b, d
        <5> QED BY <1>6, <4>1, <5>1
      <4> QED BY <1>3, <1>4, <1>8, <1>9, <3>1, <3>3, <4>1, <4>2, PadBackIs
    <3> QED BY <3>2, <3>3
  <2> QED BY <2>2, <2>3
<1>11. SectionInv'
  <2>1. CASE x.ok
    <3>1. Sound(x.section, d.blocks, q) /\ timeline'[position' + 1] = d
      BY <1>1, <1>5, <2>1 DEF d
    <3> QED BY <1>9, <1>10, <2>1, <3>1 DEF SectionInv, Net
  <2>2. CASE ~x.ok
    <3>1. Sound(x.section, b.blocks, q) /\ timeline'[position' + 1] = b
      BY <1>1, <1>5, <2>2 DEF b
    <3> QED BY <1>4, <1>5, <1>9, <2>2, <3>1 DEF SectionInv, Net
  <2> QED BY <1>5, <2>1, <2>2
<1>12. HistoryInv'
  BY <1>1, <1>3, <1>4 DEF IInv, HistoryInv, Net
<1>13. PaddingInv'
  <2> SUFFICES ASSUME q > 0
               PROVE  /\ q = timeline'[position' + 1].padding
                      /\ \A i \in 1 .. Len(history) :
                           PadLead(timeline[i].padding, history[i], timeline[i + 1].padding)
    BY <1>1, <1>9 DEF PaddingInv
  <2>1. Pad > 0 /\ q = timeline'[position' + 1].padding
    <3>1. CASE x.ok
      BY <1>1, <1>10, <3>1 DEF d
    <3>2. CASE ~x.ok
      BY <1>1, <1>5, <1>7, <3>2 DEF b
    <3> QED BY <1>5, <3>1, <3>2
  <2> QED BY <2>1 DEF IInv, PaddingInv
<1> QED BY <1>11, <1>12, <1>13 DEF IInv

\* The section a file becomes, whatever free_sz was left behind.
OpenedAs(file, left) == [groups |-> Parsed(file), payload |-> SizeOf(file), free |-> left]
ContentOf(file) == Content([groups |-> Parsed(file), payload |-> SizeOf(file)])

LEMMA OpenedIs ==
  ASSUME NEW file \in Files, NEW left \in Int
  PROVE  LET r == OpenedAs(file, left)
             c == ContentOf(file)
         IN  /\ Sound(r, KeysOf(file), file.padding) /\ Distinct(KeysOf(file))
             /\ r.groups = Parsed(file) /\ r.payload = SizeOf(file) /\ r.free = left
             /\ c \in Contents
             /\ c.blocks = KeysOf(file) /\ c.padding = file.padding /\ c.payload = SizeOf(file)
             /\ OffsetsFrom(Parsed(file), HeaderSize)
<1> DEFINE gs == Parsed(file)
           n == SizeOf(file)
           r == [groups |-> gs, payload |-> n, free |-> left]
           t == [groups |-> gs, payload |-> n]
<1>1. /\ Holds(gs, KeysOf(file), file.padding)
      /\ TotalSize(gs) = n /\ n \in Nat
      /\ OffsetsFrom(gs, HeaderSize)
  BY ParsedIs
<1>2. KeysOf(file) \in Seq(Key) /\ Distinct(KeysOf(file)) /\ file.padding \in Nat
  BY KeysAre
<1>3. gs \in Seq(Group)
  BY <1>1 DEF Holds
<1> HIDE DEF gs, n
<1>4. /\ t.groups = gs /\ t.payload = n
      /\ r \in Sections /\ r.groups = gs /\ r.payload = n /\ r.free = left
  BY <1>1, <1>3 DEF Sections
<1>5. Content(t) = [blocks |-> KeysOf(file), padding |-> file.padding, payload |-> n]
  <2> HIDE DEF t
  <2>1. Holds(t.groups, KeysOf(file), file.padding)
    BY <1>1, <1>4
  <2> QED BY <1>4, <2>1, ContentIs
<1>6. Sound(r, KeysOf(file), file.padding)
  BY <1>1, <1>4 DEF Sound
<1>7. [blocks |-> KeysOf(file), padding |-> file.padding, payload |-> n] \in Contents
  BY <1>1, <1>2 DEF Contents
<1> QED BY <1>1, <1>2, <1>4, <1>5, <1>6, <1>7 DEF OpenedAs, ContentOf, gs, n

LEMMA InitIs ==
  ASSUME Init
  PROVE  \E file \in Files : /\ Section = OpenedAs(file, 0) /\ groups = Parsed(file)
                             /\ payload = SizeOf(file) /\ history = <<>> /\ position = 0
                             /\ timeline = <<ContentOf(file)>>
BY DEF Init, Section, OpenedAs, ContentOf

LEMMA OpenIs ==
  ASSUME NEW file \in Files, Open(file), free \in Int
  PROVE  \E left \in Int : /\ Becomes(OpenedAs(file, left)) /\ history' = <<>> /\ position' = 0
                           /\ timeline' = <<ContentOf(file)>>
<1>1. PICK left \in {free} \cup OtherFree : Becomes(OpenedAs(file, left))
  BY DEF Open, OpenedAs
<1>2. left \in Int
  BY SectionAssumption
<1>3. history' = <<>> /\ position' = 0 /\ timeline' = <<ContentOf(file)>>
  BY DEF Open, ContentOf
<1> QED BY <1>1, <1>2, <1>3

LEMMA InitKeeps ==
  ASSUME Init
  PROVE  IInv
<1>1. PICK file \in Files : /\ Section = OpenedAs(file, 0) /\ groups = Parsed(file)
                            /\ payload = SizeOf(file) /\ history = <<>> /\ position = 0
                            /\ timeline = <<ContentOf(file)>>
  BY InitIs
<1> DEFINE c == ContentOf(file)
<1>2. /\ Sound(Section, KeysOf(file), file.padding) /\ Distinct(KeysOf(file))
      /\ c \in Contents
      /\ c.blocks = KeysOf(file) /\ c.padding = file.padding /\ c.payload = SizeOf(file)
  BY <1>1, OpenedIs
<1> HIDE DEF c
<1>3. /\ Len(history) = 0 /\ history \in Seq(Entries)
      /\ Len(timeline) = 1 /\ timeline \in Seq(Contents) /\ timeline[1] = c /\ position + 1 = 1
  BY <1>1, <1>2 DEF c
<1>4. Pad = file.padding
  BY <1>2, HoldsPadding, SectionFields DEF Sound, Pad
<1>5. SectionInv
  BY <1>1, <1>2, <1>3, <1>4 DEF SectionInv, Net
<1>6. HistoryInv
  <2>1. \A j \in 1 .. Len(timeline) : Distinct(timeline[j].blocks)
    BY <1>2, <1>3
  <2> QED BY <1>1, <1>3, <2>1 DEF HistoryInv
<1>7. PaddingInv
  BY <1>2, <1>3, <1>4 DEF PaddingInv
<1> QED BY <1>5, <1>6, <1>7 DEF IInv

LEMMA OpenKeeps ==
  ASSUME IInv, NEW file \in Files, Open(file)
  PROVE  IInv'
<1>1. free \in Int
  BY Here, SectionIs, SectionFields DEF Sound
<1>2. PICK left \in Int : /\ Becomes(OpenedAs(file, left)) /\ history' = <<>> /\ position' = 0
                          /\ timeline' = <<ContentOf(file)>>
  BY <1>1, OpenIs
<1> DEFINE c == ContentOf(file)
           r == OpenedAs(file, left)
<1>3. /\ Sound(r, KeysOf(file), file.padding) /\ Distinct(KeysOf(file))
      /\ r.payload = SizeOf(file)
      /\ c \in Contents
      /\ c.blocks = KeysOf(file) /\ c.padding = file.padding /\ c.payload = SizeOf(file)
  BY OpenedIs
<1>4. Becomes(r)
  BY <1>2
<1> HIDE DEF c, r
<1>5. Section' = r /\ payload' = SizeOf(file) /\ Pad' = file.padding
  BY <1>3, <1>4, BecomesIs
<1>6. /\ Len(history') = 0 /\ history' \in Seq(Entries)
      /\ Len(timeline') = 1 /\ timeline' \in Seq(Contents) /\ timeline'[1] = c /\ position' + 1 = 1
  BY <1>2, <1>3 DEF c
<1>7. SectionInv'
  BY <1>3, <1>5, <1>6 DEF SectionInv, Net
<1>8. HistoryInv'
  <2>1. \A j \in 1 .. Len(timeline') : Distinct(timeline'[j].blocks)
    BY <1>3, <1>6
  <2> QED BY <1>2, <1>6, <2>1 DEF HistoryInv
<1>9. PaddingInv'
  BY <1>3, <1>5, <1>6 DEF PaddingInv
<1> QED BY <1>7, <1>8, <1>9 DEF IInv

\* Every step is one of five.
StepIs ==
  \/ \E r, e, cs, q : Edited(timeline[position + 1].blocks, Pad, r, e, cs, q)
  \/ \E r : RebuildFails(timeline[position + 1].blocks, Pad, r)
  \/ \E j, k, redo : redo \in BOOLEAN /\ Travels(j, k, redo)
  \/ \E file \in Files : Open(file)
  \/ UNCHANGED vars

LEMMA Steps ==
  ASSUME IInv, [Next]_vars
  PROVE  StepIs
<1> DEFINE bs == timeline[position + 1].blocks
<1>1. /\ Sound(Section, bs, Pad) /\ Distinct(bs)
      /\ history \in Seq(Entries) /\ position \in 0 .. Len(history)
  BY Here DEF IInv, HistoryInv
<1>2. CASE Add
  <2> HIDE DEF bs
  <2>1. \E r, e, cs, q : Edited(bs, Pad, r, e, cs, q)
    BY <1>1, <1>2, AddEdits
  <2> QED BY <2>1 DEF StepIs, bs
<1>3. ASSUME NEW i \in DOMAIN groups, Duplicate(i) \/ Delete(i) \/ MoveUp(i) \/ MoveDown(i)
      PROVE  StepIs
  <2> HIDE DEF bs
  <2>1. \E r, e, cs, q : Edited(bs, Pad, r, e, cs, q)
    <3>1. CASE Duplicate(i)
      BY <1>1, <3>1, DuplicateEdits
    <3>2. CASE Delete(i)
      BY <1>1, <3>2, DeleteEdits
    <3>3. CASE MoveUp(i)
      BY <1>1, <3>3, MoveUpEdits
    <3>4. CASE MoveDown(i)
      BY <1>1, <3>4, MoveDownEdits
    <3> QED BY <1>3, <3>1, <3>2, <3>3, <3>4
  <2> QED BY <2>1 DEF StepIs, bs
<1>4. ASSUME NEW i \in DOMAIN groups, Rebuild(i)
      PROVE  StepIs
  <2> HIDE DEF bs
  <2>1. \/ \E r, e, cs, q : Edited(bs, Pad, r, e, cs, q)
        \/ \E r : RebuildFails(bs, Pad, r)
    BY <1>1, <1>4, RebuildEdits
  <2> QED BY <2>1 DEF StepIs, bs
<1>5. CASE Undo
  BY <1>5, UndoTravels DEF StepIs
<1>6. CASE Redo
  BY <1>6, RedoTravels DEF StepIs
<1>7. CASE \E file \in Files : Open(file)
  BY <1>7 DEF StepIs
<1>8. CASE UNCHANGED vars
  BY <1>8 DEF StepIs
<1> QED BY <1>2, <1>3, <1>4, <1>5, <1>6, <1>7, <1>8 DEF Next

LEMMA IInvStep ==
  ASSUME IInv, [Next]_vars
  PROVE  IInv'
<1>1. StepIs
  BY Steps
<1>2. CASE \E r, e, cs, q : Edited(timeline[position + 1].blocks, Pad, r, e, cs, q)
  BY <1>2, EditedKeeps
<1>3. CASE \E r : RebuildFails(timeline[position + 1].blocks, Pad, r)
  BY <1>3, FailedKeeps
<1>4. CASE \E j, k, redo : redo \in BOOLEAN /\ Travels(j, k, redo)
  BY <1>4, TravelKeeps
<1>5. CASE \E file \in Files : Open(file)
  BY <1>5, OpenKeeps
<1>6. CASE UNCHANGED vars
  BY <1>6 DEF vars, IInv, SectionInv, HistoryInv, PaddingInv, Section, Pad, Net
<1> QED BY <1>1, <1>2, <1>3, <1>4, <1>5, <1>6 DEF StepIs

LEMMA Invariance == Spec => []IInv
<1>1. Init => IInv
  BY InitKeeps
<1>2. IInv /\ [Next]_vars => IInv'
  BY IInvStep
<1> QED BY <1>1, <1>2, PTL DEF Spec

(***************************************************************************)
(* For every set of files, every capacity and every limit.                 *)
(***************************************************************************)
\* The groups are data blocks with different ids and, last, at most one
\* padding; the history's position lies within it, through every operation of
\* the editor (grpar.cpp, history.cpp).
THEOREM TypeCorrect == Spec => []TypeOK
<1>1. IInv => TypeOK
  <2> SUFFICES ASSUME IInv PROVE TypeOK
    OBVIOUS
  <2> DEFINE bs == timeline[position + 1].blocks
  <2>1. /\ Holds(groups, bs, Pad) /\ Distinct(bs) /\ Sound(Section, bs, Pad) /\ payload \in Nat
        /\ position \in 0 .. Len(history) /\ Len(timeline) = Len(history) + 1
    BY Here DEF IInv, HistoryInv
  <2> HIDE DEF bs
  <2>2. free \in Int
    BY <2>1, SectionIs, SectionFields DEF Sound
  <2>3. /\ Len(groups) \in Nat /\ Len(bs) \in Nat /\ DOMAIN groups = 1 .. Len(groups)
        /\ \A i \in 1 .. Len(groups) : groups[i] \in Group
        /\ \A i \in 1 .. Len(bs) : IsBlock(groups[i])
        /\ Pad \in Nat
    BY <2>1, HoldsLengths, LenProperties DEF Holds
  <2>4. ASSUME NEW i \in 1 .. Len(groups)
        PROVE  \/ i \in 1 .. Len(bs) /\ groups[i].kind = "data" /\ groups[i].id = bs[i][1] /\ groups[i].id # 0
               \/ i = Len(groups) /\ groups[i].kind = "padding" /\ groups[i].id = 0
    <3>1. CASE i \in 1 .. Len(bs)
      <4>1. groups[i].kind = "data" /\ groups[i].id # 0 /\ KeyOf(groups[i]) = bs[i]
        BY <2>1, <2>3, <3>1 DEF Holds, IsBlock
      <4> QED BY <3>1, <4>1 DEF KeyOf
    <3>2. CASE i \notin 1 .. Len(bs)
      <4>1. Pad > 0
        <5>1. Pad = 0 => Len(groups) = Len(bs)
          BY <2>1 DEF Holds
        <5> QED BY <2>3, <3>2, <5>1
      <4>2. Len(groups) = Len(bs) + 1 /\ groups[Len(groups)].kind = "padding" /\ groups[Len(groups)].id = 0
        BY <2>1, <4>1 DEF Holds
      <4> QED BY <2>3, <3>2, <4>2
    <3> QED BY <3>1, <3>2
  <2>5. \A i \in DOMAIN groups :
          /\ groups[i].kind = "data" \/ (groups[i].kind = "padding" /\ i = Len(groups))
          /\ groups[i].size \in Nat \ {0}
          /\ groups[i].at \in Nat \cup {Stray}
    BY <2>3, <2>4 DEF Group, Size, Offset
  <2>6. IsInjective([i \in DOMAIN groups |-> groups[i].id])
    <3>1. ASSUME NEW i \in 1 .. Len(groups), NEW j \in 1 .. Len(groups), groups[i].id = groups[j].id
          PROVE  i = j
      BY <2>1, <2>4, <3>1 DEF Distinct
    <3> QED BY <2>3, <3>1 DEF IsInjective
  <2> QED BY <2>1, <2>2, <2>5, <2>6 DEF TypeOK
<1> QED BY <1>1, Invariance, PTL

\* The payload length in the header is what the groups add up to, padding or
\* not: AssembleEDID (EDID_main.cpp:1351-1358) never refuses a section.
THEOREM PayloadCovered == Spec => []PayloadIsCovered
<1>1. IInv => PayloadIsCovered
  BY SectionFields DEF IInv, SectionInv, Sound, PayloadIsCovered
<1> QED BY <1>1, Invariance, PTL

\* Undo and redo bring back the data blocks the section had, in their order,
\* also when the padding that held them is gone (ApplyStructure, history.cpp).
THEOREM BlocksFollow == Spec => []BlocksFollowHistory
<1>1. IInv => BlocksFollowHistory
  <2> SUFFICES ASSUME IInv PROVE BlocksFollowHistory
    OBVIOUS
  <2>1. Holds(Section.groups, timeline[position + 1].blocks, Pad)
    BY Here, SectionFields
  <2> QED BY <2>1, ContentIs DEF BlocksFollowHistory
<1> QED BY <1>1, Invariance, PTL

(***************************************************************************)
(* Sections without padding.                                               *)
(***************************************************************************)
\* Padding never comes: it is only left over by padding.
PlainFacts ==
  /\ Pad = 0
  /\ \A j \in 1 .. Len(timeline) : timeline[j].padding = 0
  /\ OffsetsFrom(groups, HeaderSize)

PlainInv == Plain => PlainFacts

LEMMA NoPadding ==
  ASSUME NEW e \in Entries, NEW q \in Nat, PadLead(0, e, q) \/ PadBack(0, e, q)
  PROVE  q = 0
<1>1. e.kind \in {"insert", "remove", "move", "replace"} /\ e.block.size \in Size
  BY DEF Entries, Blocks, Group
<1> QED BY <1>1 DEF PadLead, PadBack, Left, Grown, Size

LEMMA PlainInit ==
  ASSUME Init, Plain
  PROVE  PlainFacts
<1>1. PICK file \in Files : /\ Section = OpenedAs(file, 0) /\ groups = Parsed(file)
                            /\ payload = SizeOf(file) /\ history = <<>> /\ position = 0
                            /\ timeline = <<ContentOf(file)>>
  BY InitIs
<1> DEFINE c == ContentOf(file)
<1>2. /\ Sound(Section, KeysOf(file), file.padding) /\ c.padding = file.padding
      /\ OffsetsFrom(groups, HeaderSize)
  BY <1>1, OpenedIs
<1> HIDE DEF c
<1>3. Pad = file.padding
  BY <1>2, HoldsPadding, SectionFields DEF Sound, Pad
<1>4. Len(timeline) = 1 /\ timeline[1] = c
  BY <1>1 DEF c
<1>5. file.padding = 0
  BY <1>2, <1>4 DEF Plain
<1> QED BY <1>2, <1>3, <1>4, <1>5 DEF PlainFacts

LEMMA PlainStep ==
  ASSUME IInv, PlainInv, Plain', [Next]_vars
  PROVE  PlainFacts'
<1>1. StepIs
  BY Steps
<1>2. ASSUME NEW r, NEW e, NEW cs, NEW q, Edited(timeline[position + 1].blocks, Pad, r, e, cs, q)
      PROVE  PlainFacts'
  <2> DEFINE c == [blocks |-> cs, padding |-> q, payload |-> r.payload]
  <2>1. /\ timeline' \in Seq(Contents) /\ Len(timeline') = position + 2
        /\ \A j \in 1 .. position + 1 : timeline'[j] = timeline[j]
        /\ timeline'[position + 2] = c
        /\ Becomes(r)
    BY <1>2, RecordIs
  <2>2. c.padding = q
    OBVIOUS
  <2>0. PlainFacts
    <3>1. timeline'[1] = timeline[1]
      BY <2>1, Here DEF IInv, HistoryInv
    <3> QED BY <3>1 DEF Plain, PlainInv
  <2> HIDE DEF c
  <2>3. /\ Sound(r, cs, q) /\ PadLead(Pad, e, q) /\ e \in Entries
        /\ Pad = 0 /\ OffsetsFrom(groups, HeaderSize) => OffsetsFrom(r.groups, HeaderSize)
    BY <1>2 DEF Edited
  <2>4. groups' = r.groups /\ Pad' = q /\ q \in Nat
    BY <2>1, <2>3, BecomesIs
  <2>5. q = 0
    BY <2>3, <2>4, <2>0, NoPadding DEF PlainFacts
  <2>6. OffsetsFrom(groups', HeaderSize)
    BY <2>3, <2>4, <2>0 DEF PlainFacts
  <2>7. ASSUME NEW j \in 1 .. Len(timeline') PROVE timeline'[j].padding = 0
    <3>1. position + 1 \in 1 .. Len(timeline) /\ position \in Nat /\ Len(timeline) \in Nat
      BY Here, LenProperties DEF IInv, HistoryInv
    <3>2. CASE j = position + 2
      BY <2>1, <2>2, <2>5, <3>2
    <3>3. CASE j # position + 2
      <4>1. j \in 1 .. position + 1 /\ j \in 1 .. Len(timeline)
        BY <2>1, <3>1, <3>3
      <4> QED BY <2>1, <2>0, <4>1 DEF PlainFacts
    <3> QED BY <3>2, <3>3
  <2> QED BY <2>4, <2>5, <2>6, <2>7 DEF PlainFacts, OffsetsFrom, HeaderSize
<1>3. ASSUME NEW r, RebuildFails(timeline[position + 1].blocks, Pad, r)
      PROVE  PlainFacts'
  <2> DEFINE bs == timeline[position + 1].blocks
  <2>1. /\ Sound(Section, bs, Pad) /\ Exchanged(Section, r, bs, Pad) /\ Becomes(r)
        /\ timeline' = timeline
    BY <1>3 DEF IInv, SectionInv, RebuildFails
  <2>0. PlainFacts
    BY <2>1 DEF Plain, PlainInv
  <2> HIDE DEF bs
  <2>2. Sound(r, bs, Pad)
    BY <2>1, SoundExchanged
  <2>3. groups' = r.groups /\ Pad' = Pad
    BY <2>1, <2>2, BecomesIs
  <2>4. OffsetsFrom(groups', HeaderSize)
    BY <2>1, <2>3, <2>0, SectionFields DEF PlainFacts, Exchanged
  <2> QED BY <2>1, <2>3, <2>4, <2>0 DEF PlainFacts, OffsetsFrom, HeaderSize
<1>4. ASSUME NEW j, NEW k, NEW redo \in BOOLEAN, Travels(j, k, redo)
      PROVE  PlainFacts'
  <2> DEFINE bs == timeline[position + 1].blocks
             ds == timeline[k + 1].blocks
             e == history[j]
             x == ApplyStructure(Section, e, redo)
  <2>1. /\ j \in 1 .. Len(history)
        /\ IF redo THEN j = position + 1 /\ k = position + 1 ELSE j = position /\ k = position - 1
        /\ Becomes(x.section) /\ timeline' = timeline
    BY <1>4 DEF Travels
  <2>0. PlainFacts
    BY <2>1 DEF Plain, PlainInv
  <2>2. PICK q : Applied(Section, bs, Pad, e, redo, ds, x, q)
    BY <2>1, TravelApplies
  <2>3. e \in Entries
    BY <2>1, EndsAre
  <2> HIDE DEF bs, ds, e, x
  <2>4. /\ x.ok \in BOOLEAN /\ Sound(x.section, IF x.ok THEN ds ELSE bs, q)
        /\ x.ok /\ redo => PadLead(Pad, e, q)
        /\ x.ok /\ ~redo => PadBack(Pad, e, q)
        /\ ~x.ok => q = Pad
        /\ Pad = 0 /\ OffsetsFrom(groups, HeaderSize) => OffsetsFrom(x.section.groups, HeaderSize)
    BY <2>2, SectionFields DEF Applied
  <2>5. groups' = x.section.groups /\ Pad' = q /\ q \in Nat
    BY <2>1, <2>4, BecomesIs
  <2>6. q = 0
    BY <2>3, <2>4, <2>5, <2>0, NoPadding DEF PlainFacts
  <2>7. OffsetsFrom(groups', HeaderSize)
    BY <2>4, <2>5, <2>0 DEF PlainFacts
  <2> QED BY <2>1, <2>5, <2>6, <2>7, <2>0 DEF PlainFacts, OffsetsFrom, HeaderSize
<1>5. ASSUME NEW file \in Files, Open(file)
      PROVE  PlainFacts'
  <2>1. free \in Int
    BY Here, SectionIs, SectionFields DEF Sound
  <2>2. PICK left \in Int : /\ Becomes(OpenedAs(file, left)) /\ history' = <<>> /\ position' = 0
                            /\ timeline' = <<ContentOf(file)>>
    BY <1>5, <2>1, OpenIs
  <2> DEFINE c == ContentOf(file)
             r == OpenedAs(file, left)
  <2>3. /\ Sound(r, KeysOf(file), file.padding) /\ c.padding = file.padding
        /\ r.groups = Parsed(file) /\ OffsetsFrom(Parsed(file), HeaderSize)
    BY OpenedIs
  <2>4. Becomes(r)
    BY <2>2
  <2> HIDE DEF c, r
  <2>5. groups' = r.groups /\ Pad' = file.padding
    BY <2>3, <2>4, BecomesIs
  <2>6. Len(timeline') = 1 /\ timeline'[1] = c /\ file.padding = 0
    <3>1. Len(timeline') = 1 /\ timeline'[1] = c
      BY <2>2 DEF c
    <3> QED BY <2>3, <3>1 DEF Plain
  <2>7. OffsetsFrom(groups', HeaderSize)
    BY <2>3, <2>5
  <2> QED BY <2>3, <2>5, <2>6, <2>7 DEF PlainFacts, OffsetsFrom, HeaderSize
<1>6. CASE UNCHANGED vars
  BY <1>6 DEF vars, Plain, PlainInv, PlainFacts, Pad, OffsetsFrom, HeaderSize
<1> QED BY <1>1, <1>2, <1>3, <1>4, <1>5, <1>6 DEF StepIs

LEMMA PlainInvariance == Spec => [](IInv /\ PlainInv)
<1>1. Init => IInv /\ PlainInv
  BY InitKeeps, PlainInit DEF PlainInv
<1>2. (IInv /\ PlainInv) /\ [Next]_vars => (IInv /\ PlainInv)'
  BY IInvStep, PlainStep DEF PlainInv
<1> QED BY <1>1, <1>2, PTL DEF Spec

\* In a section without padding every group has the offset its bytes are written to: the
\* offsets are carried through every insertion, removal and move (grpar.cpp).
THEOREM OffsetsCorrect == Spec => []PlainOffsetsMatch
<1>1. IInv /\ PlainInv => PlainOffsetsMatch
  <2> SUFFICES ASSUME IInv, PlainFacts, NEW i \in DOMAIN groups
               PROVE  groups[i].at = HeaderSize + TotalSize(SubSeq(groups, 1, i - 1))
    BY DEF PlainOffsetsMatch, OffsetsMatch, PlainInv
  <2>1. groups \in Seq(Group)
    BY Here DEF Holds
  <2>2. i \in 1 .. Len(groups)
    BY <2>1, LenProperties
  <2> QED BY <2>2 DEF PlainFacts, OffsetsFrom, Upto
<1> QED BY <1>1, PlainInvariance, PTL

\* In a section without padding undo and redo bring back the whole section, payload length
\* included ("Undo and Redo cover these changes", usage.md:81).
THEOREM SectionFollows == Spec => []PlainFollowsHistory
<1>1. IInv /\ PlainInv => PlainFollowsHistory
  <2> SUFFICES ASSUME IInv, PlainFacts PROVE Content(Section) = timeline[position + 1]
    BY DEF PlainFollowsHistory, SectionFollowsHistory, PlainInv
  <2> DEFINE c == timeline[position + 1]
  <2>1. /\ Holds(Section.groups, c.blocks, Pad) /\ c \in Contents
        /\ payload \in Nat /\ Section.payload = payload
        /\ payload - Pad = Net(c) /\ Pad = 0 /\ c.padding = 0
    BY Here, SectionFields DEF IInv, SectionInv, PlainFacts
  <2> HIDE DEF c
  <2>2. Content(Section) = [blocks |-> c.blocks, padding |-> Pad, payload |-> payload]
    BY <2>1, ContentIs
  <2>3. payload = c.payload
    BY <2>1, NetIs DEF Net
  <2>4. c = [blocks |-> c.blocks, padding |-> c.padding, payload |-> c.payload]
    BY <2>1 DEF Contents
  <2>5. Content(Section) = c
    BY <2>1, <2>2, <2>3, <2>4
  <2> QED BY <2>5 DEF c
<1> QED BY <1>1, PlainInvariance, PTL

(***************************************************************************)
(* Files with room for one more block.  After a file was opened free_sz    *)
(* is what the extension opened before had left, so that the first block   *)
(* is let in on a stale number; from the first change on it is right.      *)
(***************************************************************************)
RoomToGrow ==
  \A file \in Files :
    \A size \in {NewSize} \cup {file.sizes[i] : i \in DOMAIN file.sizes} :
      SizeOf(file) + Missing(file.padding, size) <= Capacity

\* What was recorded fits, and what the editor lets in next does too.
FitInv ==
  /\ RoomIn(Section, timeline[position + 1].blocks, Pad)
  /\ \A j \in 1 .. Len(timeline) : timeline[j].payload <= Capacity

LEMMA OpenedFits ==
  ASSUME RoomToGrow, NEW file \in Files, NEW left \in Int
  PROVE  /\ RoomIn(OpenedAs(file, left), KeysOf(file), file.padding)
         /\ SizeOf(file) <= Capacity
<1> DEFINE ks == KeysOf(file)
           r == OpenedAs(file, left)
<1>1. r.payload = SizeOf(file) /\ ks \in Seq(Key) /\ SizeOf(file) \in Nat /\ file.padding \in Nat
  BY OpenedIs, KeysAre, ParsedIs
<1>2. file.sizes \in Seq(Size)
  BY SectionAssumption DEF Size
<1>3. Len(ks) = Len(file.sizes) /\ \A i \in 1 .. Len(ks) : ks[i][2] = file.sizes[i] /\ i \in DOMAIN file.sizes
  BY <1>1, <1>2, LenProperties DEF KeysOf
<1>4. NewSize \in Size /\ Capacity \in Nat
  BY SectionAssumption DEF Size
<1> HIDE DEF ks, r
<1>5. {ks[i][2] : i \in 1 .. Len(ks)} \subseteq {file.sizes[i] : i \in DOMAIN file.sizes}
  BY <1>3
<1>6. RoomIn(r, ks, file.padding)
  BY <1>1, <1>5 DEF RoomIn, RoomToGrow
<1>7. SizeOf(file) <= Capacity
  <2>1. SizeOf(file) + Missing(file.padding, NewSize) <= Capacity
    BY DEF RoomToGrow
  <2>2. Missing(file.padding, NewSize) \in Nat
    BY <1>1, <1>4, RoomIs
  <2> QED BY <1>1, <1>4, <2>1, <2>2
<1> QED BY <1>6, <1>7 DEF ks, r

LEMMA FitsAtPosition ==
  ASSUME NEW c \in Contents, NEW n \in Nat, NEW p \in Nat, n - p = Net(c),
         p > 0 => p = c.padding, c.payload <= Capacity
  PROVE  n <= Capacity
BY NetIs, SectionAssumption DEF Net

LEMMA FitsHere ==
  ASSUME IInv, FitInv
  PROVE  payload <= Capacity
<1>1. /\ timeline[position + 1] \in Contents /\ payload \in Nat /\ Pad \in Nat
      /\ payload - Pad = Net(timeline[position + 1])
      /\ Pad > 0 => Pad = timeline[position + 1].padding
      /\ timeline[position + 1].payload <= Capacity
  BY Here DEF IInv, SectionInv, PaddingInv, FitInv
<1> QED BY <1>1, FitsAtPosition

LEMMA FitInit ==
  ASSUME RoomToGrow, Init
  PROVE  FitInv
<1>1. PICK file \in Files : /\ Section = OpenedAs(file, 0) /\ groups = Parsed(file)
                            /\ payload = SizeOf(file) /\ history = <<>> /\ position = 0
                            /\ timeline = <<ContentOf(file)>>
  BY InitIs
<1> DEFINE c == ContentOf(file)
<1>2. /\ Sound(Section, KeysOf(file), file.padding)
      /\ c.blocks = KeysOf(file) /\ c.payload = SizeOf(file)
      /\ RoomIn(Section, KeysOf(file), file.padding) /\ SizeOf(file) <= Capacity
  BY <1>1, OpenedIs, OpenedFits
<1> HIDE DEF c
<1>3. Pad = file.padding
  BY <1>2, HoldsPadding, SectionFields DEF Sound, Pad
<1>4. Len(timeline) = 1 /\ timeline[1] = c /\ position + 1 = 1
  BY <1>1 DEF c
<1> QED BY <1>2, <1>3, <1>4 DEF FitInv

LEMMA FitStep ==
  ASSUME RoomToGrow, IInv, FitInv, [Next]_vars
  PROVE  FitInv'
<1>1. StepIs
  BY Steps
<1>2. ASSUME NEW r, NEW e, NEW cs, NEW q, Edited(timeline[position + 1].blocks, Pad, r, e, cs, q)
      PROVE  FitInv'
  <2> DEFINE c == [blocks |-> cs, padding |-> q, payload |-> r.payload]
  <2>1. /\ position' = position + 1
        /\ timeline' \in Seq(Contents) /\ Len(timeline') = position + 2
        /\ \A j \in 1 .. position + 1 : timeline'[j] = timeline[j]
        /\ timeline'[position + 2] = c
        /\ Becomes(r)
    BY <1>2, RecordIs
  <2>2. c.blocks = cs /\ c.payload = r.payload
    OBVIOUS
  <2> HIDE DEF c
  <2>3. Sound(r, cs, q) /\ RoomIn(r, cs, q) /\ r.payload <= Capacity
    BY <1>2, FitsHere DEF Edited, FitInv
  <2>4. Section' = r /\ Pad' = q
    BY <2>1, <2>3, BecomesIs
  <2>5. position + 1 \in 1 .. Len(timeline) /\ position \in Nat /\ Len(timeline) \in Nat
    BY Here, LenProperties DEF IInv, HistoryInv
  <2>6. ASSUME NEW j \in 1 .. Len(timeline') PROVE timeline'[j].payload <= Capacity
    <3>1. CASE j = position + 2
      BY <2>1, <2>2, <2>3, <3>1
    <3>2. CASE j # position + 2
      <4>1. j \in 1 .. position + 1 /\ j \in 1 .. Len(timeline)
        BY <2>1, <2>5, <3>2
      <4> QED BY <2>1, <4>1 DEF FitInv
    <3> QED BY <3>1, <3>2
  <2>7. timeline'[position' + 1] = c
    BY <2>1, <2>5
  <2>8. RoomIn(Section', timeline'[position' + 1].blocks, Pad')
    BY <2>2, <2>3, <2>4, <2>7
  <2> QED BY <2>6, <2>8 DEF FitInv, RoomIn, Missing
<1>3. ASSUME NEW r, RebuildFails(timeline[position + 1].blocks, Pad, r)
      PROVE  FitInv'
  BY <1>3, FitsHere DEF RebuildFails
<1>4. ASSUME NEW j, NEW k, NEW redo \in BOOLEAN, Travels(j, k, redo)
      PROVE  FitInv'
  <2> DEFINE bs == timeline[position + 1].blocks
             ds == timeline[k + 1].blocks
             e == history[j]
             x == ApplyStructure(Section, e, redo)
  <2>1. /\ j \in 1 .. Len(history)
        /\ IF redo THEN j = position + 1 /\ k = position + 1 ELSE j = position /\ k = position - 1
        /\ Becomes(x.section) /\ timeline' = timeline
        /\ position' = IF x.ok THEN k ELSE position
    BY <1>4 DEF Travels
  <2>2. PICK q : Applied(Section, bs, Pad, e, redo, ds, x, q)
    BY <2>1, TravelApplies
  <2>3. k + 1 \in 1 .. Len(timeline) /\ timeline[k + 1] \in Contents
    BY <2>1, EndsAre
  <2>4. IInv'
    BY <1>4, TravelKeeps
  <2>5. RoomIn(Section, bs, Pad) /\ \A i \in 1 .. Len(timeline) : timeline[i].payload <= Capacity
    BY DEF FitInv
  <2> HIDE DEF e, x
  <2>6. x.ok /\ Sound(x.section, ds, q) /\ Fits(x.section, ds, q)
    BY <2>2, <2>5, FitsHere, SectionFields DEF Applied
  <2>7. /\ Section' = x.section /\ payload' = x.section.payload /\ x.section.payload \in Nat
        /\ Pad' = q /\ q \in Nat
    BY <2>1, <2>6, BecomesIs
  <2>8. timeline'[position' + 1] = timeline[k + 1]
    BY <2>1, <2>6
  <2>9. /\ payload' - Pad' = Net(timeline[k + 1])
        /\ Pad' > 0 => Pad' = timeline[k + 1].padding
    BY <2>4, <2>8 DEF IInv, SectionInv, PaddingInv, Net
  <2>10. x.section.payload <= Capacity
    BY <2>3, <2>5, <2>7, <2>9, FitsAtPosition
  <2>11. RoomIn(Section', timeline'[position' + 1].blocks, Pad')
    BY <2>6, <2>7, <2>8, <2>10 DEF Fits
  <2> QED BY <2>1, <2>5, <2>11 DEF FitInv, RoomIn, Missing
<1>5. ASSUME NEW file \in Files, Open(file)
      PROVE  FitInv'
  <2>1. free \in Int
    BY Here, SectionIs, SectionFields DEF Sound
  <2>2. PICK left \in Int : /\ Becomes(OpenedAs(file, left)) /\ history' = <<>> /\ position' = 0
                            /\ timeline' = <<ContentOf(file)>>
    BY <1>5, <2>1, OpenIs
  <2> DEFINE c == ContentOf(file)
             r == OpenedAs(file, left)
  <2>3. /\ Sound(r, KeysOf(file), file.padding)
        /\ c.blocks = KeysOf(file) /\ c.payload = SizeOf(file)
        /\ RoomIn(r, KeysOf(file), file.padding) /\ SizeOf(file) <= Capacity
    BY OpenedIs, OpenedFits
  <2>4. Becomes(r)
    BY <2>2
  <2> HIDE DEF c, r
  <2>5. Section' = r /\ Pad' = file.padding
    BY <2>3, <2>4, BecomesIs
  <2>6. Len(timeline') = 1 /\ timeline'[1] = c /\ position' + 1 = 1
    BY <2>2 DEF c
  <2>7. RoomIn(Section', timeline'[position' + 1].blocks, Pad')
    BY <2>3, <2>5, <2>6
  <2> QED BY <2>3, <2>6, <2>7 DEF FitInv, RoomIn, Missing
<1>6. CASE UNCHANGED vars
  BY <1>6 DEF vars, FitInv, Section, Pad, RoomIn
<1> QED BY <1>1, <1>2, <1>3, <1>4, <1>5, <1>6 DEF StepIs

LEMMA FitInvariance ==
  ASSUME RoomToGrow
  PROVE  Spec => [](IInv /\ FitInv)
<1>1. Init => IInv /\ FitInv
  BY InitKeeps, FitInit
<1>2. (IInv /\ FitInv) /\ [Next]_vars => (IInv /\ FitInv)'
  BY IInvStep, FitStep
<1> QED BY <1>1, <1>2, PTL DEF Spec

\* The groups never take more than the block has, and AssembleEDID
\* (EDID_main.cpp:1368) never meets its size limit.
THEOREM GroupsFit ==
  ASSUME RoomToGrow
  PROVE  Spec => []GroupsFitBlock
<1>1. IInv /\ FitInv => GroupsFitBlock
  BY FitsHere, SectionFields DEF IInv, SectionInv, Sound, GroupsFitBlock
<1> QED BY <1>1, FitInvariance, PTL

\* Undo and redo never meet a structure the entry can't be applied to
\* ("Couldn't restore the previous structure", history.cpp:145).
THEOREM HistoryAlwaysApplies ==
  ASSUME RoomToGrow
  PROVE  Spec => []HistoryApplies
<1>1. IInv /\ FitInv => HistoryApplies
  <2> SUFFICES ASSUME IInv, FitInv PROVE HistoryApplies
    OBVIOUS
  <2>1. payload <= Capacity
    BY FitsHere
  <2>2. ASSUME position > 0 PROVE ApplyStructure(Section, history[position], FALSE).ok
    <3>1. position \in 1 .. Len(history)
      BY <2>2, Here DEF IInv, HistoryInv
    <3>2. \E q : Applied(Section, timeline[position + 1].blocks, Pad, history[position], FALSE,
                         timeline[position - 1 + 1].blocks, ApplyStructure(Section, history[position], FALSE), q)
      BY <3>1, TravelApplies
    <3> QED BY <2>1, <3>2, SectionFields DEF Applied
  <2>3. ASSUME position < Len(history) PROVE ApplyStructure(Section, history[position + 1], TRUE).ok
    <3>1. position + 1 \in 1 .. Len(history)
      BY <2>3, Here DEF IInv, HistoryInv
    <3>2. \E q : Applied(Section, timeline[position + 1].blocks, Pad, history[position + 1], TRUE,
                         timeline[position + 1 + 1].blocks, ApplyStructure(Section, history[position + 1], TRUE), q)
      BY <3>1, TravelApplies
    <3> QED BY <2>1, <3>2, SectionFields DEF Applied
  <2> QED BY <2>2, <2>3 DEF HistoryApplies
<1> QED BY <1>1, FitInvariance, PTL
(***************************************************************************)
(* The data blocks implement UndoTimeline.                                 *)
(***************************************************************************)
Points(t) == [k \in DOMAIN t |-> t[k].blocks]

LEMMA SubSeqIs ==
  ASSUME NEW S, NEW a \in Seq(S), NEW n \in Nat, n <= Len(a)
  PROVE  SubSeq(a, 1, n) = [j \in 1 .. n |-> a[j]]
<1> DEFINE u == SubSeq(a, 1, n)
<1>1. Len(a) \in Nat /\ \A i \in 1 .. n : a[i] \in S
  BY LenProperties, ElementOfSeq
<1>2. /\ u \in Seq(S) /\ Len(u) = IF 1 <= n THEN n - 1 + 1 ELSE 0
      /\ \A i \in 1 .. n - 1 + 1 : u[i] = a[1 + i - 1]
  BY <1>1, SubSeqProperties
<1> HIDE DEF u
<1>3. Len(u) = n
  BY <1>2
<1>4. u = [i \in 1 .. n |-> u[i]]
  BY <1>2, <1>3, LenProperties
<1>5. \A i \in 1 .. n : u[i] = a[i]
  BY <1>2
<1>6. u = [i \in 1 .. n |-> a[i]]
  BY <1>4, <1>5
<1> QED BY <1>6 DEF u

LEMMA PointsIs ==
  ASSUME NEW t \in Seq(Contents)
  PROVE  /\ Points(t) \in Seq(Seq(Key)) /\ Len(Points(t)) = Len(t)
         /\ \A j \in 1 .. Len(t) : Points(t)[j] = t[j].blocks
<1>1. DOMAIN t = 1 .. Len(t) /\ Len(t) \in Nat /\ \A j \in 1 .. Len(t) : t[j] \in Contents
  BY LenProperties, ElementOfSeq
<1>2. Points(t) \in [1 .. Len(t) -> Seq(Key)]
  BY <1>1 DEF Points, Contents
<1> QED BY <1>1, <1>2 DEF Points

\* Two timelines with the same first points have the same blocks there.
LEMMA PastIs ==
  ASSUME NEW t \in Seq(Contents), NEW u \in Seq(Contents), NEW n \in Nat,
         n <= Len(t), n <= Len(u), \A j \in 1 .. n : u[j] = t[j]
  PROVE  SubSeq(Points(u), 1, n) = SubSeq(Points(t), 1, n)
<1> DEFINE a == Points(u)
           b == Points(t)
<1>1. /\ a \in Seq(Seq(Key)) /\ Len(a) = Len(u) /\ b \in Seq(Seq(Key)) /\ Len(b) = Len(t)
      /\ \A j \in 1 .. n : a[j] = b[j]
  <2>1. Len(t) \in Nat /\ Len(u) \in Nat
    BY LenProperties
  <2>2. /\ a \in Seq(Seq(Key)) /\ Len(a) = Len(u)
        /\ \A j \in 1 .. Len(u) : a[j] = u[j].blocks
    BY PointsIs
  <2>3. /\ b \in Seq(Seq(Key)) /\ Len(b) = Len(t)
        /\ \A j \in 1 .. Len(t) : b[j] = t[j].blocks
    BY PointsIs
  <2> HIDE DEF a, b
  <2>4. ASSUME NEW j \in 1 .. n PROVE a[j] = b[j]
    <3>1. j \in 1 .. Len(t) /\ j \in 1 .. Len(u) /\ u[j] = t[j]
      BY <2>1
    <3> QED BY <2>2, <2>3, <3>1
  <2> QED BY <2>2, <2>3, <2>4
<1> HIDE DEF a, b
<1>2. SubSeq(a, 1, n) = [j \in 1 .. n |-> a[j]] /\ SubSeq(b, 1, n) = [j \in 1 .. n |-> b[j]]
  BY <1>1, SubSeqIs
<1>3. SubSeq(a, 1, n) = SubSeq(b, 1, n)
  BY <1>1, <1>2
<1> QED BY <1>3 DEF a, b

LEMMA BlocksHere ==
  ASSUME IInv
  PROVE  BlocksFollowHistory
<1>1. Holds(Section.groups, timeline[position + 1].blocks, Pad)
  BY Here, SectionFields
<1> QED BY <1>1, ContentIs DEF BlocksFollowHistory

LEMMA PointsAre ==
  BlockPoints = Points(timeline) /\ BlockPoints' = Points(timeline')
BY DEF BlockPoints, Points

\* What UndoTimeline calls truthful is that the blocks follow the history.
LEMMA TruthfulIs ==
  ASSUME IInv
  PROVE  Timeline!Truthful
<1>1. timeline \in Seq(Contents) /\ position + 1 \in 1 .. Len(timeline)
  BY Here DEF IInv, HistoryInv
<1>2. BlockPoints[position + 1] = Content(Section).blocks
  BY <1>1, BlocksHere, PointsIs, PointsAre DEF BlocksFollowHistory
<1> QED BY <1>2 DEF Timeline!Truthful

\* A change keeps the points up to this one and adds one.
LEMMA ChangeIs ==
  ASSUME IInv, NEW r, NEW e, NEW cs, NEW q,
         Edited(timeline[position + 1].blocks, Pad, r, e, cs, q)
  PROVE  Timeline!Change
<1>1. /\ timeline \in Seq(Contents) /\ timeline' \in Seq(Contents)
      /\ position \in Nat /\ position + 1 <= Len(timeline)
      /\ position' = position + 1 /\ Len(timeline') = position + 2
      /\ \A j \in 1 .. position + 1 : timeline'[j] = timeline[j]
  <2>1. /\ timeline \in Seq(Contents) /\ position \in Nat /\ position + 1 <= Len(timeline)
    BY Here DEF IInv, HistoryInv
  <2>2. /\ timeline' \in Seq(Contents) /\ position' = position + 1
        /\ Len(timeline') = position + 2
        /\ \A j \in 1 .. position + 1 : timeline'[j] = timeline[j]
    BY RecordIs
  <2> QED BY <2>1, <2>2
<1>2. SubSeq(BlockPoints', 1, position + 1) = SubSeq(BlockPoints, 1, position + 1)
  BY <1>1, PastIs, PointsAre
<1>3. Len(BlockPoints') = position + 2
  BY <1>1, PointsIs, PointsAre
<1>4. Timeline!PastIsKept(position + 1)
  BY <1>1, <1>2, <1>3 DEF Timeline!PastIsKept
<1>5. position + 1 \in (position + 1) - 1 .. position + 1
  BY <1>1
<1>6. Len(BlockPoints') \in position + 1 .. (position + 1) + 3
  BY <1>1, <1>3
<1>7. position' + 1 = Len(BlockPoints')
  BY <1>1, <1>3
<1>8. Timeline!Extend(3)
  BY <1>4, <1>5, <1>6, <1>7 DEF Timeline!Extend
<1> QED BY <1>8 DEF Timeline!Change, NotSaved

LEMMA Behind ==
  ASSUME NEW a \in Nat, NEW b \in 0 .. a, NEW n \in Nat, a + 1 <= n, NEW p, p = n
  PROVE  b + 1 \in 1 .. a + 1 /\ p >= b + 1
OBVIOUS

LEMMA Ahead ==
  ASSUME NEW a \in Nat, NEW n \in Nat, NEW b \in a .. n, NEW p, p = n + 1
  PROVE  b + 1 \in a + 1 .. p
OBVIOUS

\* Undo, and what leaves the timeline and the position alone.
LEMMA UndoIs ==
  ASSUME IInv, timeline' = timeline, position' \in 0 .. position
  PROVE  Timeline!Undo
<1>1. timeline \in Seq(Contents) /\ position \in Nat /\ position + 1 <= Len(timeline)
  BY Here DEF IInv, HistoryInv
<1>2. BlockPoints' = BlockPoints /\ Len(BlockPoints') = Len(timeline) /\ Len(timeline) \in Nat
  BY <1>1, LenProperties, PointsIs, PointsAre
<1>3. position' + 1 \in 1 .. position + 1 /\ Len(BlockPoints') >= position' + 1
  BY <1>1, <1>2, Behind
<1>4. Timeline!PastIsKept(position' + 1)
  BY <1>2, <1>3 DEF Timeline!PastIsKept
<1> QED BY <1>3, <1>4 DEF Timeline!Undo, NotSaved

LEMMA RedoIs ==
  ASSUME IInv, timeline' = timeline, position' \in position .. Len(history)
  PROVE  Timeline!Redo
<1>1. /\ timeline \in Seq(Contents) /\ position \in Nat /\ Len(history) \in Nat
      /\ Len(timeline) = Len(history) + 1
  BY Here DEF IInv, HistoryInv
<1>2. BlockPoints' = BlockPoints /\ Len(BlockPoints) = Len(history) + 1
  BY <1>1, PointsIs, PointsAre
<1>3. position' + 1 \in position + 1 .. Len(BlockPoints)
  BY <1>1, <1>2, Ahead
<1> QED BY <1>2, <1>3 DEF Timeline!Redo, NotSaved

LEMMA LoadIs ==
  ASSUME NEW file \in Files, Open(file)
  PROVE  Timeline!Load
<1>1. position' = 0 /\ timeline' = <<ContentOf(file)>>
  BY DEF Open, ContentOf
<1>2. BlockPoints' = <<ContentOf(file).blocks>>
  BY <1>1, PointsAre DEF Points
<1>3. Len(BlockPoints') = 1
  BY <1>2
<1> QED BY <1>1, <1>3 DEF Timeline!Load

LEMMA TimelineStep ==
  ASSUME IInv, Timeline!Truthful', [Next]_vars
  PROVE  [Timeline!Next]_(Timeline!vars)
<1>1. Timeline!Truthful'
  OBVIOUS
<1>2. StepIs
  BY Steps
<1>3. CASE \E r, e, cs, q : Edited(timeline[position + 1].blocks, Pad, r, e, cs, q)
  <2>1. Timeline!Change
    BY <1>3, ChangeIs
  <2> QED BY <1>1, <2>1 DEF Timeline!Next
<1>4. CASE \E r : RebuildFails(timeline[position + 1].blocks, Pad, r)
  <2>1. timeline' = timeline /\ position' = position
    BY <1>4 DEF RebuildFails
  <2>2. Timeline!Undo
    BY <2>1, Here, UndoIs
  <2> QED BY <1>1, <2>2 DEF Timeline!Next
<1>5. ASSUME NEW j, NEW k, NEW redo \in BOOLEAN, Travels(j, k, redo)
      PROVE  Timeline!Undo \/ Timeline!Redo
  <2>1. /\ timeline' = timeline /\ j \in 1 .. Len(history) /\ position' \in {k, position}
        /\ IF redo THEN j = position + 1 /\ k = position + 1 ELSE j = position /\ k = position - 1
    BY <1>5 DEF Travels
  <2>2. position \in Nat /\ Len(history) \in Nat /\ position <= Len(history)
    BY Here DEF IInv, HistoryInv
  <2>3. CASE redo
    <3>1. position' \in position .. Len(history)
      BY <2>1, <2>2, <2>3
    <3> QED BY <2>1, <3>1, RedoIs
  <2>4. CASE ~redo
    <3>1. position' \in 0 .. position
      BY <2>1, <2>2, <2>4
    <3> QED BY <2>1, <3>1, UndoIs
  <2> QED BY <2>3, <2>4
<1>6. CASE \E j, k, redo : redo \in BOOLEAN /\ Travels(j, k, redo)
  <2>1. Timeline!Undo \/ Timeline!Redo
    BY <1>5, <1>6
  <2> QED BY <1>1, <2>1 DEF Timeline!Next
<1>7. CASE \E file \in Files : Open(file)
  <2>1. Timeline!Load
    BY <1>7, LoadIs
  <2> QED BY <1>1, <2>1 DEF Timeline!Next
<1>8. CASE UNCHANGED vars
  BY <1>8 DEF vars, Timeline!vars, Section, BlockPoints, NotSaved
<1> QED BY <1>2, <1>3, <1>4, <1>6, <1>7, <1>8 DEF StepIs

\* In every file, whatever becomes of the padding, the data blocks implement the
\* abstract timeline: a change keeps every point undo can lead to, and undo and
\* redo lead to points (ApplyStructure, history.cpp).
THEOREM ImplementsTimeline == Spec => BlocksAreATimeline
<1>1. Init => Timeline!Init
  <2> SUFFICES ASSUME Init PROVE Timeline!Init
    OBVIOUS
  <2>1. PICK file \in Files : position = 0 /\ timeline = <<ContentOf(file)>>
    BY InitIs
  <2>2. BlockPoints = <<ContentOf(file).blocks>>
    BY <2>1 DEF BlockPoints
  <2>3. Len(BlockPoints) = 1
    BY <2>2
  <2>4. Timeline!Truthful
    BY InitKeeps, TruthfulIs
  <2> QED BY <2>1, <2>3, <2>4 DEF Timeline!Init
<1>2. IInv => Timeline!Truthful
  BY TruthfulIs
<1>3. IInv /\ Timeline!Truthful' /\ [Next]_vars => [Timeline!Next]_(Timeline!vars)
  BY TimelineStep
<1> QED BY <1>1, <1>2, <1>3, Invariance, PTL DEF Spec, BlocksAreATimeline, Timeline!Spec
=============================================================================
