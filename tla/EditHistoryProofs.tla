-------------------------- MODULE EditHistoryProofs --------------------------
(***************************************************************************)
(* Theorems about EditHistory, for every value of its constants.           *)
(***************************************************************************)
EXTENDS EditHistory, SequenceTheorems, WellFoundedInduction, TLAPS

(***************************************************************************)
(* A nonempty set of numbers between 0 and n has a greatest and a least    *)
(* element.                                                                *)
(***************************************************************************)
NatLess == {p \in Nat \X Nat : p[1] < p[2]}

LEMMA NatLessWellFounded == IsWellFoundedOn(NatLess, Nat)
<1>1. NatLess = OpToRel(<, Nat)
  BY DEF NatLess, OpToRel
<1> QED BY <1>1, NatLessThanWellFounded

LEMMA MaxIsLast ==
  ASSUME NEW n \in Nat, NEW S \in SUBSET (0 .. n), S # {}
  PROVE  Max(S) \in S /\ \A x \in S : x <= Max(S)
<1> DEFINE Bounds == {b \in Nat : \A x \in S : x <= b}
<1>1. n \in Bounds /\ Bounds \subseteq Nat
  OBVIOUS
<1>2. PICK b \in Bounds : \A c \in Bounds : <<c, b>> \notin NatLess
  <2> HIDE DEF Bounds
  <2> QED BY <1>1, NatLessWellFounded, WFMin
<1>3. b \in S
  <2> SUFFICES ASSUME b \notin S PROVE FALSE
    OBVIOUS
  <2>1. PICK s \in S : TRUE
    OBVIOUS
  <2>2. b - 1 \in Bounds
    BY <2>1
  <2>3. <<b - 1, b>> \in NatLess
    BY <1>1, <2>2 DEF NatLess
  <2> HIDE DEF Bounds
  <2> QED BY <1>2, <2>2, <2>3
<1> QED BY <1>3 DEF Max

LEMMA MinIsFirst ==
  ASSUME NEW n \in Nat, NEW S \in SUBSET (0 .. n), S # {}
  PROVE  Min(S) \in S /\ \A x \in S : Min(S) <= x
<1>1. PICK b \in S : \A c \in S : <<c, b>> \notin NatLess
  BY NatLessWellFounded, WFMin, S \subseteq Nat
<1>2. ASSUME NEW c \in S PROVE b <= c
  <2>1. b \in Nat /\ c \in Nat
    OBVIOUS
  <2>2. ~(c < b)
    BY <1>1, <2>1 DEF NatLess
  <2> QED BY <2>1, <2>2
<1> QED BY <1>2 DEF Min

(***************************************************************************)
(* Types of the operators.                                                 *)
(***************************************************************************)
LEMMA SlotsOfFields ==
  /\ \A f \in Fields : Value(f) \in Slots /\ Built(f) \in Slots
  /\ Groups \in Slots
  /\ \A f, g \in Fields : Value(f) = Value(g) => f = g
BY DEF Value, Built, Groups, Slots

LEMMA EntryTyped ==
  ASSUME NEW kind \in {"field", "data", "replace", "structure"}, NEW slot \in Slots,
         NEW before \in Values, NEW after \in Values, NEW joined \in BOOLEAN
  PROVE  Entry(kind, slot, before, after, joined) \in EntryType
BY DEF Entry, EntryType

\* Dropping entries keeps those before them, and everything else but matches.
LEMMA DropTyped ==
  ASSUME NEW l, l \in [entries : Seq(EntryType), position : Nat,
                       saved : Nat \cup {-1}, matches : BOOLEAN],
         NEW from \in 0 .. Len(l.entries)
  PROVE  LET kept == DropHistory(l, from)
         IN  /\ kept \in [entries : Seq(EntryType), position : Nat,
                          saved : Nat \cup {-1}, matches : BOOLEAN]
             /\ kept.entries = SubSeq(l.entries, 1, from)
             /\ Len(kept.entries) = from
             /\ kept.position = l.position
             /\ kept.saved = l.saved
             /\ kept.matches = (l.matches /\ ~(SavePending /\ from < write.position))
<1>1. /\ SubSeq(l.entries, 1, from) \in Seq(EntryType)
      /\ Len(SubSeq(l.entries, 1, from)) = from
  BY SubSeqProperties, ElementOfSeq
<1> QED BY <1>1 DEF DropHistory

LEMMA PushTyped ==
  ASSUME NEW l \in HistoryType, NEW entry \in EntryType
  PROVE  LET new == PushHistory(l, entry)
         IN  /\ new \in HistoryType
             /\ new.position = l.position + 1
             /\ Len(new.entries) = new.position
             /\ new.entries[new.position] = entry
<1> DEFINE rewrites == l.position < Len(l.entries)
           kept == IF rewrites THEN DropHistory(l, l.position) ELSE l
           new == PushHistory(l, entry)
<1>1. /\ kept \in [entries : Seq(EntryType), position : Nat,
                   saved : Nat \cup {-1}, matches : BOOLEAN]
      /\ Len(kept.entries) = l.position
  BY DropTyped DEF HistoryType
<1>2. /\ Append(kept.entries, entry) \in Seq(EntryType)
      /\ Len(Append(kept.entries, entry)) = l.position + 1
      /\ Append(kept.entries, entry)[l.position + 1] = entry
  BY <1>1, AppendProperties
<1>3. /\ l.position \in Nat
      /\ kept.matches \in BOOLEAN
      /\ (IF rewrites /\ l.saved > l.position THEN -1 ELSE l.saved) \in Nat \cup {-1}
  BY <1>1 DEF HistoryType
<1>4. PushHistory(l, entry) =
        [entries  |-> Append(kept.entries, entry),
         position |-> Len(kept.entries) + 1,
         saved    |-> IF rewrites /\ l.saved > l.position THEN -1 ELSE l.saved,
         matches  |-> kept.matches]
  BY DEF PushHistory
<1> HIDE DEF kept, rewrites
<1> QED BY <1>1, <1>2, <1>3, <1>4 DEF HistoryType

LEMMA ReapplyTyped ==
  ASSUME NEW d \in Content, NEW entries \in Seq(EntryType)
  PROVE  Reapply(d, entries) \in Content /\ Revert(d, entries) \in Content
<1>1. ASSUME NEW slot \in Slots, Touching(entries, slot) # {}
      PROVE  /\ entries[Max(Touching(entries, slot))].after \in Values
             /\ entries[Min(Touching(entries, slot))].before \in Values
  <2>1. Touching(entries, slot) \subseteq 1 .. Len(entries) /\ Len(entries) \in Nat
    BY LenProperties DEF Touching
  <2>2. /\ Max(Touching(entries, slot)) \in 1 .. Len(entries)
        /\ Min(Touching(entries, slot)) \in 1 .. Len(entries)
    <3>1. Touching(entries, slot) \in SUBSET (0 .. Len(entries))
      BY <2>1
    <3> QED BY <1>1, <2>1, <3>1, MaxIsLast, MinIsFirst
  <2>3. \A i \in 1 .. Len(entries) : entries[i] \in EntryType
    BY ElementOfSeq
  <2> QED BY <2>2, <2>3 DEF EntryType
<1> QED BY <1>1 DEF Reapply, Revert, Content

LEMMA KeptRowsTyped ==
  ASSUME NEW rows \in SUBSET RowType, NEW entries
  PROVE  KeptRows(rows, entries) \subseteq RowType
BY DEF KeptRows, RowType

\* What a rebuild leaves: the history with the rebuild, or without the newest
\* entry, or as it was.
FlushResults(l, r) ==
  {l} \cup {PushHistory(l, Entry("replace", Built(r.field), before, after, joined)) :
             before \in Values, after \in Values, joined \in BOOLEAN}

LEMMA FlushTyped ==
  ASSUME NEW l \in HistoryType, NEW d \in Content, NEW r \in RefreshType,
         NEW w \in RowType
  PROVE  /\ Flush(l, d, r, w).l \in HistoryType
         /\ Flush(l, d, r, w).d \in Content
         /\ Flush(l, d, r, w).rows \subseteq RowType
         /\ \/ Flush(l, d, r, w).l \in FlushResults(l, r)
            \/ /\ Refused # {} /\ r # NoRefresh /\ JoinsLast(l, r)
               /\ Flush(l, d, r, w).l = DropHistory([l EXCEPT !.position = @ - 1], l.position - 1)
<1> DEFINE outcome == RebuildOutcome(d, r)
           joined  == JoinsLast(l, r)
           last    == l.entries[l.position]
           undone  == [l EXCEPT !.position = @ - 1]
<1>1. CASE outcome = "rebuilt"
  <2>1. r \in [field : Fields, typeChanged : BOOLEAN, due : BOOLEAN]
    BY <1>1 DEF RebuildOutcome, RefreshType
  <2>2. Built(r.field) \in Slots /\ Value(r.field) \in Slots
    BY <2>1, SlotsOfFields
  <2>3. d[Built(r.field)] \in Values /\ d[Value(r.field)] \in Values
    BY <2>2 DEF Content
  <2> DEFINE entry == Entry("replace", Built(r.field), d[Built(r.field)],
                            d[Value(r.field)], joined)
  <2>4. joined \in BOOLEAN
    BY DEF JoinsLast
  <2>5. entry \in EntryType
    BY <2>2, <2>3, <2>4, EntryTyped
  <2>6. PushHistory(l, entry) \in HistoryType
    BY <2>5, PushTyped
  <2>7. [d EXCEPT ![Built(r.field)] = d[Value(r.field)]] \in Content
    BY <2>3 DEF Content
  <2>8. Flush(l, d, r, w) =
          [l |-> PushHistory(l, entry),
           d |-> [d EXCEPT ![Built(r.field)] = d[Value(r.field)]],
           rows |-> {NoRow}]
    BY <1>1 DEF Flush
  <2>9. PushHistory(l, entry) \in FlushResults(l, r)
    BY <2>3, <2>4 DEF FlushResults
  <2> QED BY <2>6, <2>7, <2>8, <2>9 DEF RowType
<1>2. CASE outcome = "refused" /\ joined /\ ~CannotRestore(last)
  <2>1. /\ l \in [entries : Seq(EntryType), position : Nat,
                  saved : Nat \cup {-1}, matches : BOOLEAN]
        /\ l.position > 0 /\ l.position = Len(l.entries)
    BY <1>2 DEF HistoryType, JoinsLast
  <2>2. last \in EntryType
    BY <2>1, ElementOfSeq
  <2>3. /\ undone \in [entries : Seq(EntryType), position : Nat,
                       saved : Nat \cup {-1}, matches : BOOLEAN]
        /\ undone.entries = l.entries
        /\ undone.position = l.position - 1
    BY <2>1
  <2>4. DropHistory(undone, undone.position) \in HistoryType
    <3>1. undone.position \in 0 .. Len(undone.entries)
      BY <2>1, <2>3
    <3> HIDE DEF undone
    <3> QED BY <2>3, <3>1, DropTyped DEF HistoryType
  <2>5. [d EXCEPT ![last.slot] = last.before] \in Content
    BY <2>2 DEF Content, EntryType
  <2>6. Flush(l, d, r, w) =
          [l |-> DropHistory(undone, undone.position),
           d |-> [d EXCEPT ![last.slot] = last.before],
           rows |-> KeptRows({w}, <<last>>)]
    BY <1>2 DEF Flush
  <2>7. KeptRows({w}, <<last>>) \subseteq RowType
    BY KeptRowsTyped
  <2>8. Refused # {} /\ r # NoRefresh
    BY <1>2 DEF RebuildOutcome
  <2>9. DropHistory(undone, undone.position)
          = DropHistory([l EXCEPT !.position = @ - 1], l.position - 1)
    BY <2>3
  <2> HIDE DEF undone, last, outcome
  <2> QED BY <1>2, <2>4, <2>5, <2>6, <2>7, <2>8, <2>9
<1>3. CASE ~(outcome = "rebuilt") /\ ~(outcome = "refused" /\ joined /\ ~CannotRestore(last))
  <2>1. Flush(l, d, r, w) = [l |-> l, d |-> d, rows |-> {w}]
    BY <1>3 DEF Flush
  <2> QED BY <2>1 DEF FlushResults
<1> QED BY <1>1, <1>2, <1>3

LEMMA FlushedTyped ==
  ASSUME TypeOK
  PROVE  /\ Flushed.l \in HistoryType
         /\ Flushed.d \in Content
         /\ Flushed.rows \subseteq RowType
BY FlushTyped DEF Flushed, TypeOK

LEMMA StopsInHistory ==
  ASSUME NEW l \in HistoryType
  PROVE  /\ l.position > 0 => UndoStop(l) \in 0 .. l.position
         /\ l.position < Len(l.entries) => RedoStop(l) \in l.position + 1 .. Len(l.entries)
<1>0. l.position \in Nat /\ Len(l.entries) \in Nat /\ l.position <= Len(l.entries)
  BY LenProperties DEF HistoryType
<1>1. ASSUME l.position > 0 PROVE UndoStop(l) \in 0 .. l.position
  <2> DEFINE starts == {p \in 0 .. l.position - 1 : p = 0 \/ ~l.entries[p + 1].joined}
             stuck  == {p \in Max(starts) + 1 .. l.position : CannotRestore(l.entries[p])}
  <2>1. 0 \in starts /\ starts \in SUBSET (0 .. l.position)
    BY <1>0, <1>1
  <2>2. Max(starts) \in 0 .. l.position
    BY <1>0, <2>1, MaxIsLast
  <2>3. ({Max(starts)} \cup stuck) \in SUBSET (0 .. l.position)
    <3>1. Max(starts) \in Nat
      BY <1>0, <2>2
    <3> HIDE DEF starts
    <3> QED BY <1>0, <2>2, <3>1
  <2>4. Max({Max(starts)} \cup stuck) \in 0 .. l.position
    <3> HIDE DEF starts, stuck
    <3> QED BY <1>0, <2>3, MaxIsLast
  <2> QED BY <2>4 DEF UndoStop
<1>2. ASSUME l.position < Len(l.entries)
      PROVE  RedoStop(l) \in l.position + 1 .. Len(l.entries)
  <2> DEFINE ends == {p \in l.position + 1 .. Len(l.entries) :
                        p = Len(l.entries) \/ ~l.entries[p + 1].joined}
  <2>1. Len(l.entries) \in ends /\ ends \in SUBSET (0 .. Len(l.entries))
    BY <1>0, <1>2
  <2>2. Min(ends) \in ends
    <3> HIDE DEF ends
    <3> QED BY <1>0, <2>1, MinIsFirst
  <2> QED BY <2>2 DEF RedoStop
<1> QED BY <1>1, <1>2

(***************************************************************************)
(* Type correctness.                                                       *)
(***************************************************************************)
LEMMA OpenedTyped == \A v \in Start : Opened(v) \in Content
BY EditAssumption DEF Opened, Content

LEMMA InitTyped == Init => TypeOK
<1> SUFFICES ASSUME NEW v \in Start, doc = Opened(v),
                    h = [entries |-> <<>>, position |-> 0, saved |-> 0, matches |-> FALSE],
                    row = NoRow, refresh = NoRefresh, idle = FALSE, write = NoWrite,
                    file = doc, savedPrefix = <<>>, base = doc
             PROVE  TypeOK
  BY DEF Init
<1>1. doc \in Content
  BY OpenedTyped
<1>2. h \in HistoryType /\ savedPrefix \in Seq(EntryType)
  BY EmptySeq DEF HistoryType
<1> QED BY <1>1, <1>2 DEF TypeOK, RowType, RefreshType, WriteType

LEMMA RequestTyped ==
  ASSUME TypeOK, NEW l \in HistoryType, NEW d \in Content, NEW w \in RowType,
         NEW f \in Fields, NEW typeChanged \in BOOLEAN, NEW now \in BOOLEAN,
         RequestRefresh(l, d, w, f, typeChanged, now)
  PROVE  /\ h' \in HistoryType /\ doc' \in Content /\ row' \in RowType
         /\ refresh' \in RefreshType /\ idle' \in BOOLEAN
<1> DEFINE asked  == typeChanged \/ f \in LayoutFields
           other  == refresh # NoRefresh /\ refresh.field # f
           done   == IF asked /\ other THEN Flush(l, d, refresh, w)
                                       ELSE [l |-> l, d |-> d, rows |-> {w}]
           same   == refresh # NoRefresh /\ ~other
           typed  == (same /\ refresh.typeChanged) \/ typeChanged
           due    == (same /\ refresh.due) \/ now \/ row'.field = f
<1>1. done.l \in HistoryType /\ done.d \in Content /\ done.rows \subseteq RowType
  BY FlushTyped DEF TypeOK
<1>2. /\ typed \in BOOLEAN /\ due \in BOOLEAN /\ asked \in BOOLEAN /\ other \in BOOLEAN
      /\ idle \in BOOLEAN
  BY DEF TypeOK
<1>3. /\ h' = done.l /\ doc' = done.d /\ row' \in done.rows
      /\ refresh' = IF asked THEN [field |-> f, typeChanged |-> typed, due |-> due]
                             ELSE refresh
      /\ idle' = IF asked THEN (idle /\ ~other) \/ now ELSE idle
  BY DEF RequestRefresh
<1>4. refresh' \in RefreshType
  <2> HIDE DEF typed, due, asked
  <2> QED BY <1>2, <1>3 DEF TypeOK, RefreshType
<1> HIDE DEF done, asked, other, typed, due
<1> QED BY <1>1, <1>2, <1>3, <1>4

\* A keystroke: the history and the entry index the row remembers.
LEMMA CoalescedTyped ==
  ASSUME TypeOK, row # NoRow, CanCoalesce, NEW v \in Values
  PROVE  Coalesced(v).l \in HistoryType /\ Coalesced(v).index \in Nat
<1>1. /\ h \in [entries : Seq(EntryType), position : Nat,
                saved : Nat \cup {-1}, matches : BOOLEAN]
      /\ row.index \in Nat \ {0} /\ h.position = row.index /\ Len(h.entries) = row.index
  BY DEF TypeOK, HistoryType, RowType, CanCoalesce, NewestOfRow
<1>2. CASE h.entries[h.position].before = v
  <2>1. /\ SubSeq(h.entries, 1, h.position - 1) \in Seq(EntryType)
        /\ Len(SubSeq(h.entries, 1, h.position - 1)) = h.position - 1
    BY <1>1, SubSeqProperties, ElementOfSeq
  <2>2. Coalesced(v) =
          [l |-> [entries  |-> SubSeq(h.entries, 1, h.position - 1),
                  position |-> h.position - 1,
                  saved    |-> h.saved,
                  matches  |-> h.matches],
           index |-> 0]
    BY <1>2 DEF Coalesced
  <2> QED BY <1>1, <2>1, <2>2 DEF HistoryType
<1>3. CASE h.entries[h.position].before # v
  <2>1. h.entries[h.position] \in EntryType /\ h.position \in 1 .. Len(h.entries)
    BY <1>1, ElementOfSeq
  <2>2. [h.entries[h.position] EXCEPT !.after = v] \in EntryType
    BY <2>1 DEF EntryType
  <2> DEFINE edited == [h.entries EXCEPT ![h.position].after = v]
  <2>3. edited = [h.entries EXCEPT ![h.position] = [h.entries[h.position] EXCEPT !.after = v]]
    OBVIOUS
  <2>4. edited \in Seq(EntryType) /\ Len(edited) = Len(h.entries)
    BY <1>1, <2>1, <2>2, <2>3, ExceptSeq
  <2>5. Coalesced(v) = [l |-> [h EXCEPT !.entries = edited], index |-> row.index]
    BY <1>3 DEF Coalesced
  <2> HIDE DEF edited
  <2> QED BY <1>1, <2>4, <2>5 DEF HistoryType
<1> QED BY <1>2, <1>3

LEMMA RecordedTyped ==
  ASSUME TypeOK, row # NoRow, NEW v \in Values
  PROVE  Recorded(v).l \in HistoryType /\ Recorded(v).index \in Nat
<1> DEFINE before == IF row.index = 0 THEN row.before ELSE doc[Value(row.field)]
           entry  == Entry("field", Value(row.field), before, v, FALSE)
           pushed == PushHistory(h, entry)
           l      == IF before = v THEN h ELSE pushed
<1>1. row \in [field : TextFields, index : Nat, before : Values]
  BY DEF TypeOK, RowType
<1>2. Value(row.field) \in Slots /\ before \in Values
  BY <1>1, SlotsOfFields, EditAssumption DEF TypeOK, Content
<1>3. entry \in EntryType
  BY <1>2, EntryTyped
<1>4. l \in HistoryType
  BY <1>3, PushTyped DEF TypeOK
<1>5. Len(l.entries) \in Nat
  BY <1>4, LenProperties DEF HistoryType
<1>6. Recorded(v) = [l |-> l, index |-> IF Len(l.entries) > Len(h.entries)
                                        THEN Len(l.entries) ELSE 0]
  BY DEF Recorded
<1> HIDE DEF l
<1> QED BY <1>4, <1>5, <1>6

LEMMA EditTyped == ASSUME TypeOK, Edit PROVE TypeOK'
<1> USE EditAssumption
<1>1. CASE LeaveRow \/ ActivateRow
  BY <1>1 DEF LeaveRow, ActivateRow, TypeOK, RowType
<1>2. ASSUME NEW f \in TextFields, FocusRow(f) PROVE TypeOK'
  <2>1. doc[Value(f)] \in Values
    BY SlotsOfFields DEF TypeOK, Content
  <2> QED BY <1>2, <2>1 DEF FocusRow, TypeOK, RowType
<1>3. ASSUME NEW v \in Values, TypeText(v) PROVE TypeOK'
  <2> DEFINE typed == IF CanCoalesce THEN Coalesced(v) ELSE Recorded(v)
             d == [doc EXCEPT ![Value(row.field)] = v]
             w == [row EXCEPT !.index = typed.index]
  <2>1. row \in [field : TextFields, index : Nat, before : Values]
    BY <1>3 DEF TypeText, TypeOK, RowType
  <2>2. typed.l \in HistoryType /\ typed.index \in Nat
    BY <1>3, CoalescedTyped, RecordedTyped DEF TypeText
  <2>3. d \in Content
    BY DEF TypeOK, Content
  <2>4. w \in RowType
    BY <2>1, <2>2 DEF RowType
  <2>5. RequestRefresh(typed.l, d, w, row.field,
                       row.field \in TypeFields /\ v \in Retyping, FALSE)
    BY <1>3 DEF TypeText
  <2> HIDE DEF typed, d, w
  <2>6. /\ h' \in HistoryType /\ doc' \in Content /\ row' \in RowType
        /\ refresh' \in RefreshType /\ idle' \in BOOLEAN
    BY <2>1, <2>2, <2>3, <2>4, <2>5, RequestTyped
  <2> QED BY <1>3, <2>6 DEF TypeText, TypeOK
<1>4. ASSUME NEW f \in Fields, NEW v \in Values, NEW now \in BOOLEAN, Change(f, v, now)
      PROVE  TypeOK'
  <2> DEFINE entry == Entry("field", Value(f), doc[Value(f)], v, FALSE)
             d == [doc EXCEPT ![Value(f)] = v]
  <2>1. doc[Value(f)] \in Values /\ Value(f) \in Slots
    BY SlotsOfFields DEF TypeOK, Content
  <2>2. entry \in EntryType
    BY <2>1, EntryTyped
  <2>3. PushHistory(h, entry) \in HistoryType
    BY <2>2, PushTyped DEF TypeOK
  <2>4. d \in Content /\ row \in RowType
    BY DEF TypeOK, Content
  <2>5. RequestRefresh(PushHistory(h, entry), d, row, f,
                       f \in TypeFields /\ v \in Retyping, now)
    BY <1>4 DEF Change
  <2> HIDE DEF entry, d
  <2>6. /\ h' \in HistoryType /\ doc' \in Content /\ row' \in RowType
        /\ refresh' \in RefreshType /\ idle' \in BOOLEAN
    BY <2>3, <2>4, <2>5, RequestTyped
  <2> QED BY <1>4, <2>6 DEF Change, TypeOK
<1>5. ASSUME NEW g \in Values, ChangeGroups(g) PROVE TypeOK'
  <2> DEFINE entry == Entry("structure", Groups, Flushed.d[Groups], g, FALSE)
  <2>1. entry \in EntryType
    BY FlushedTyped, SlotsOfFields, EntryTyped DEF Content
  <2>2. PushHistory(Flushed.l, entry) \in HistoryType
    BY <2>1, FlushedTyped, PushTyped
  <2>3. [Flushed.d EXCEPT ![Groups] = g] \in Content
    BY FlushedTyped DEF Content
  <2>4. /\ h' = PushHistory(Flushed.l, entry)
        /\ doc' = [Flushed.d EXCEPT ![Groups] = g]
    BY <1>5 DEF ChangeGroups
  <2> QED BY <1>5, <2>2, <2>3, <2>4 DEF ChangeGroups, TypeOK, RowType, RefreshType
<1>6. ASSUME NEW f \in Fields, NEW g \in Fields, SwapData(f, g) PROVE TypeOK'
  <2> DEFINE first  == Entry("data", Value(f), Flushed.d[Value(f)], Flushed.d[Value(g)], FALSE)
             second == Entry("data", Value(g), Flushed.d[Value(g)], Flushed.d[Value(f)], TRUE)
  <2>1. Flushed.d[Value(f)] \in Values /\ Flushed.d[Value(g)] \in Values
    BY FlushedTyped, SlotsOfFields DEF Content
  <2>2. first \in EntryType /\ second \in EntryType
    BY <2>1, SlotsOfFields, EntryTyped
  <2>3. <<first, second>> \in Seq(EntryType)
    <3> HIDE DEF first, second
    <3> QED BY <2>2
  <2>4. /\ h' = PushHistory(PushHistory(Flushed.l, first), second)
        /\ doc' = Reapply(Flushed.d, <<first, second>>)
    BY <1>6 DEF SwapData
  <2> HIDE DEF first, second
  <2>5. h' \in HistoryType /\ doc' \in Content
    BY <2>2, <2>3, <2>4, FlushedTyped, PushTyped, ReapplyTyped
  <2> QED BY <1>6, <2>5 DEF SwapData, TypeOK, RowType, RefreshType
<1> QED BY <1>1, <1>2, <1>3, <1>4, <1>5, <1>6 DEF Edit, Choose, ChangeUnfocused

LEMMA EntriesBetween ==
  ASSUME NEW l \in HistoryType, NEW from \in Nat, NEW to \in Nat, to <= Len(l.entries)
  PROVE  SubSeq(l.entries, from + 1, to) \in Seq(EntryType)
<1>1. l.entries \in Seq(EntryType)
  BY DEF HistoryType
<1>2. \A i \in from + 1 .. to : l.entries[i] \in EntryType
  BY <1>1, ElementOfSeq, LenProperties
<1> QED BY <1>2, SubSeqProperties

LEMMA MovedTyped ==
  ASSUME NEW l \in HistoryType, NEW to \in 0 .. Len(l.entries)
  PROVE  [l EXCEPT !.position = to] \in HistoryType
BY DEF HistoryType

LEMMA UndoTyped == ASSUME TypeOK, Undo PROVE TypeOK'
<1> DEFINE stop    == UndoStop(Flushed.l)
           entries == SubSeq(Flushed.l.entries, stop + 1, Flushed.l.position)
<1>1. /\ Flushed.l \in HistoryType /\ Flushed.d \in Content
      /\ Flushed.rows \subseteq RowType
  BY FlushedTyped
<1>2. /\ Flushed.l.position \in Nat /\ Len(Flushed.l.entries) \in Nat
      /\ Flushed.l.position <= Len(Flushed.l.entries)
  BY <1>1, LenProperties DEF HistoryType
<1>3. CASE Flushed.l.position = 0 \/ entries = <<>>
  <2>1. h' = Flushed.l /\ doc' = Flushed.d /\ row' \in Flushed.rows
    BY <1>3 DEF Undo
  <2> QED BY <1>1, <2>1 DEF Undo, TypeOK, RefreshType
<1>4. CASE ~(Flushed.l.position = 0 \/ entries = <<>>)
  <2>1. stop \in 0 .. Flushed.l.position
    BY <1>1, <1>2, <1>4, StopsInHistory
  <2>2. entries \in Seq(EntryType)
    BY <1>1, <1>2, <2>1, EntriesBetween
  <2>3. /\ h' = [Flushed.l EXCEPT !.position = stop]
        /\ doc' = Revert(Flushed.d, entries)
        /\ row' \in KeptRows(Flushed.rows, entries)
    BY <1>4 DEF Undo
  <2> HIDE DEF stop, entries
  <2>4. h' \in HistoryType
    BY <1>1, <1>2, <2>1, <2>3, MovedTyped
  <2>5. doc' \in Content /\ row' \in RowType
    BY <1>1, <2>2, <2>3, ReapplyTyped, KeptRowsTyped
  <2> QED BY <2>4, <2>5 DEF Undo, TypeOK, RefreshType
<1> QED BY <1>3, <1>4

LEMMA RedoTyped == ASSUME TypeOK, Redo PROVE TypeOK'
<1> DEFINE stop    == RedoStop(Flushed.l)
           entries == SubSeq(Flushed.l.entries, Flushed.l.position + 1, stop)
<1>1. /\ Flushed.l \in HistoryType /\ Flushed.d \in Content
      /\ Flushed.rows \subseteq RowType
  BY FlushedTyped
<1>2. /\ Flushed.l.position \in Nat /\ Len(Flushed.l.entries) \in Nat
      /\ Flushed.l.position <= Len(Flushed.l.entries)
  BY <1>1, LenProperties DEF HistoryType
<1>3. CASE Flushed.l.position = Len(Flushed.l.entries)
  <2>1. h' = Flushed.l /\ doc' = Flushed.d /\ row' \in Flushed.rows
    BY <1>3 DEF Redo
  <2> QED BY <1>1, <2>1 DEF Redo, TypeOK, RefreshType
<1>4. CASE Flushed.l.position # Len(Flushed.l.entries)
  <2>1. stop \in Flushed.l.position + 1 .. Len(Flushed.l.entries)
    BY <1>1, <1>2, <1>4, StopsInHistory
  <2>2. entries \in Seq(EntryType)
    BY <1>1, <1>2, <2>1, EntriesBetween, SMTT(60)
  <2>3. /\ h' = [Flushed.l EXCEPT !.position = stop]
        /\ doc' = Reapply(Flushed.d, entries)
        /\ row' \in KeptRows(Flushed.rows, entries)
    BY <1>4 DEF Redo
  <2> HIDE DEF stop, entries
  <2>4. h' \in HistoryType
    BY <1>1, <1>2, <2>1, <2>3, MovedTyped
  <2>5. doc' \in Content /\ row' \in RowType
    BY <1>1, <2>2, <2>3, ReapplyTyped, KeptRowsTyped
  <2> QED BY <2>4, <2>5 DEF Redo, TypeOK, RefreshType
<1> QED BY <1>3, <1>4

LEMMA StartSaveTyped == ASSUME TypeOK, StartSave PROVE TypeOK'
<1>1. /\ Flushed.l \in HistoryType /\ Flushed.d \in Content
      /\ Flushed.rows \subseteq RowType
  BY FlushedTyped
<1>2. /\ Flushed.l.position \in Nat
      /\ SubSeq(Flushed.l.entries, 1, Flushed.l.position) \in Seq(EntryType)
  <2>1. Flushed.l.position \in Nat /\ Flushed.l.position <= Len(Flushed.l.entries)
    BY <1>1 DEF HistoryType
  <2>2. SubSeq(Flushed.l.entries, 0 + 1, Flushed.l.position) \in Seq(EntryType)
    BY <1>1, <2>1, LenProperties, EntriesBetween
  <2> QED BY <2>1, <2>2
<1>3. [Flushed.l EXCEPT !.matches = TRUE] \in HistoryType
  BY <1>1 DEF HistoryType
<1>4. /\ h' = [Flushed.l EXCEPT !.matches = TRUE]
      /\ doc' = Flushed.d /\ row' \in Flushed.rows
      /\ write' = [position |-> Flushed.l.position, content |-> Flushed.d, current |-> TRUE,
                   prefix |-> SubSeq(Flushed.l.entries, 1, Flushed.l.position)]
  BY DEF StartSave
<1>5. write' \in WriteType
  BY <1>1, <1>2, <1>4 DEF WriteType
<1>6. h' \in HistoryType /\ doc' \in Content /\ row' \in RowType
  BY <1>1, <1>3, <1>4
<1> QED BY <1>5, <1>6 DEF StartSave, TypeOK, RefreshType

LEMMA WrittenTyped == ASSUME TypeOK, Written PROVE TypeOK'
<1>1. write \in [position : Nat, content : Content, current : BOOLEAN,
                prefix : Seq(EntryType)]
  BY DEF Written, SavePending, TypeOK, WriteType
<1>2. \A n \in Nat \cup {-1} : [h EXCEPT !.saved = n] \in HistoryType
  BY DEF TypeOK, HistoryType
<1>3. (IF h.matches THEN write.position ELSE -1) \in Nat \cup {-1}
  BY <1>1
<1>4. CASE write.current
  BY <1>1, <1>2, <1>3, <1>4 DEF Written, TypeOK, WriteType
<1>5. CASE ~write.current
  BY <1>5 DEF Written, TypeOK, WriteType
<1> QED BY <1>4, <1>5

LEMMA LoadTyped ==
  ASSUME TypeOK, NEW v \in Start, NEW adjusted \in BOOLEAN, Load(v, adjusted)
  PROVE  TypeOK'
<1>1. Flushed.l \in HistoryType
  BY FlushedTyped
<1>2. h' \in HistoryType
  <2>1. DropHistory(Flushed.l, 0).matches \in BOOLEAN
    BY DEF DropHistory
  <2>2. <<>> \in Seq(EntryType) /\ Len(<<>>) = 0
    BY EmptySeq
  <2> QED BY <2>1, <2>2 DEF Load, HistoryType
<1>3. Opened(v) \in Content
  BY OpenedTyped
<1>4. write' \in WriteType
  BY DEF Load, TypeOK, WriteType, SavePending
<1>5. <<>> \in Seq(EntryType)
  BY EmptySeq
<1> QED BY <1>2, <1>3, <1>4, <1>5 DEF Load, TypeOK, RowType, RefreshType

LEMMA NextTyped == TypeOK /\ [Next]_vars => TypeOK'
<1> SUFFICES ASSUME TypeOK, [Next]_vars PROVE TypeOK'
  OBVIOUS
<1>1. CASE Edit
  BY <1>1, EditTyped
<1>2. CASE Refresh \/ PrepareOutput
  BY <1>2, FlushedTyped DEF Refresh, PrepareOutput, TypeOK, RefreshType
<1>3. CASE Undo
  BY <1>3, UndoTyped
<1>4. CASE Redo
  BY <1>4, RedoTyped
<1>5. CASE StartSave
  BY <1>5, StartSaveTyped
<1>6. CASE Written
  BY <1>6, WrittenTyped
<1>7. CASE WriteFailed
  BY <1>7 DEF WriteFailed, TypeOK, WriteType
<1>8. CASE \E v \in Start, adjusted \in BOOLEAN : Load(v, adjusted)
  BY <1>8, LoadTyped
<1>9. CASE UNCHANGED vars
  BY <1>9 DEF vars, TypeOK
<1> QED BY <1>1, <1>2, <1>3, <1>4, <1>5, <1>6, <1>7, <1>8, <1>9 DEF Next

\* Every variable keeps its type and the history position stays within the
\* history, for any number of fields, values and entries.
THEOREM TypeCorrect == Spec => []TypeOK
<1>1. Init => TypeOK
  BY InitTyped
<1>2. TypeOK /\ [Next]_vars => TypeOK'
  BY NextTyped
<1> QED BY <1>1, <1>2, PTL DEF Spec

(***************************************************************************)
(* The saved position.                                                     *)
(***************************************************************************)
SavedIntact(l, prefix) ==
  l.saved >= 0 => l.saved <= Len(l.entries) /\ SubSeq(l.entries, 1, l.saved) = prefix

WriteIntact(l, w) ==
  (w # NoWrite /\ w.current /\ l.matches) =>
    w.position <= Len(l.entries) /\ SubSeq(l.entries, 1, w.position) = w.prefix

\* The position is not saved and will not be by the write under way.
Unsaved(l, w) ==
  /\ l.saved # l.position
  /\ ~(w # NoWrite /\ w.current /\ l.matches /\ w.position = l.position)

LEMMA SamePrefix ==
  ASSUME NEW S, NEW s \in Seq(S), NEW t \in Seq(S), NEW k \in Nat,
         k <= Len(s), k <= Len(t), \A i \in 1 .. k : s[i] = t[i]
  PROVE  SubSeq(s, 1, k) = SubSeq(t, 1, k)
<1>1. /\ \A i \in 1 .. k : s[i] \in S /\ t[i] \in S
      /\ Len(s) \in Nat /\ Len(t) \in Nat
  BY ElementOfSeq, LenProperties
<1>2. /\ SubSeq(s, 1, k) \in Seq(S) /\ Len(SubSeq(s, 1, k)) = k
      /\ \A i \in 1 .. k : SubSeq(s, 1, k)[i] = s[i]
  BY <1>1, SubSeqProperties
<1>3. /\ SubSeq(t, 1, k) \in Seq(S) /\ Len(SubSeq(t, 1, k)) = k
      /\ \A i \in 1 .. k : SubSeq(t, 1, k)[i] = t[i]
  BY <1>1, SubSeqProperties
<1> QED BY <1>2, <1>3, SeqEqual

LEMMA PrefixOfPrefix ==
  ASSUME NEW S, NEW s \in Seq(S), NEW n \in 0 .. Len(s), NEW k \in 0 .. n
  PROVE  SubSeq(SubSeq(s, 1, n), 1, k) = SubSeq(s, 1, k)
<1>1. \A i \in 1 .. n : s[i] \in S
  BY ElementOfSeq, LenProperties
<1>2. /\ SubSeq(s, 1, n) \in Seq(S) /\ Len(SubSeq(s, 1, n)) = n
      /\ \A i \in 1 .. n : SubSeq(s, 1, n)[i] = s[i]
  BY <1>1, SubSeqProperties
<1>3. k \in Nat /\ k <= n /\ k <= Len(s)
  BY LenProperties
<1> QED BY <1>2, <1>3, SamePrefix

LEMMA PrefixOfAppend ==
  ASSUME NEW S, NEW s \in Seq(S), NEW e \in S, NEW k \in 0 .. Len(s)
  PROVE  SubSeq(Append(s, e), 1, k) = SubSeq(s, 1, k)
<1>1. /\ Append(s, e) \in Seq(S) /\ Len(Append(s, e)) = Len(s) + 1
      /\ \A i \in 1 .. Len(s) : Append(s, e)[i] = s[i]
  BY AppendProperties
<1>2. k \in Nat /\ k <= Len(s) /\ Len(s) \in Nat
  BY LenProperties
<1> QED BY <1>1, <1>2, SamePrefix

LEMMA DropIntact ==
  ASSUME NEW l, l \in [entries : Seq(EntryType), position : Nat,
                       saved : Nat \cup {-1}, matches : BOOLEAN],
         NEW from \in 0 .. Len(l.entries), l.saved <= from,
         write \in WriteType, NEW prefix,
         SavedIntact(l, prefix), WriteIntact(l, write)
  PROVE  /\ SavedIntact(DropHistory(l, from), prefix)
         /\ WriteIntact(DropHistory(l, from), write)
<1> DEFINE kept == DropHistory(l, from)
<1>1. /\ kept.entries = SubSeq(l.entries, 1, from) /\ Len(kept.entries) = from
      /\ kept.saved = l.saved
      /\ kept.matches = (l.matches /\ ~(SavePending /\ from < write.position))
  BY DropTyped
<1>2. \A k \in 0 .. from : SubSeq(kept.entries, 1, k) = SubSeq(l.entries, 1, k)
  BY <1>1, PrefixOfPrefix
<1>3. SavedIntact(kept, prefix)
  <2> HIDE DEF kept
  <2> QED BY <1>1, <1>2 DEF SavedIntact
<1>4. ASSUME write # NoWrite, write.current, kept.matches
      PROVE  /\ write.position <= Len(kept.entries)
             /\ SubSeq(kept.entries, 1, write.position) = write.prefix
  <2>1. write.position \in Nat
    BY <1>4 DEF WriteType
  <2>2. l.matches /\ write.position <= from
    <3> HIDE DEF kept
    <3>1. l.matches /\ ~(SavePending /\ from < write.position)
      BY <1>1, <1>4, Zenon
    <3> QED BY <1>4, <2>1, <3>1 DEF SavePending
  <2>3. SubSeq(l.entries, 1, write.position) = write.prefix
    BY <1>4, <2>2 DEF WriteIntact
  <2> HIDE DEF kept
  <2> QED BY <1>1, <1>2, <2>1, <2>2, <2>3
<1> HIDE DEF kept
<1>5. WriteIntact(kept, write)
  BY <1>4 DEF WriteIntact
<1> QED BY <1>3, <1>5 DEF kept

\* A new entry leaves the saved prefix alone, and the position unsaved.
LEMMA PushIntact ==
  ASSUME NEW l \in HistoryType, NEW entry \in EntryType,
         write \in WriteType, NEW prefix,
         SavedIntact(l, prefix), WriteIntact(l, write)
  PROVE  LET new == PushHistory(l, entry)
         IN  SavedIntact(new, prefix) /\ WriteIntact(new, write) /\ Unsaved(new, write)
<1> DEFINE rewrites == l.position < Len(l.entries)
           kept == IF rewrites THEN DropHistory(l, l.position) ELSE l
           saved == IF rewrites /\ l.saved > l.position THEN -1 ELSE l.saved
           new == PushHistory(l, entry)
<1>0. /\ l \in [entries : Seq(EntryType), position : Nat,
                saved : Nat \cup {-1}, matches : BOOLEAN]
      /\ l.position <= Len(l.entries) /\ Len(l.entries) \in Nat
  BY LenProperties DEF HistoryType
<1>1. /\ kept.entries \in Seq(EntryType) /\ Len(kept.entries) = l.position
      /\ \A k \in 0 .. l.position : SubSeq(kept.entries, 1, k) = SubSeq(l.entries, 1, k)
  <2>1. CASE rewrites
    BY <1>0, <2>1, DropTyped, PrefixOfPrefix
  <2>2. CASE ~rewrites
    BY <1>0, <2>2
  <2> QED BY <2>1, <2>2
<1>2. new = [entries |-> Append(kept.entries, entry), position |-> Len(kept.entries) + 1,
             saved |-> saved, matches |-> kept.matches]
  BY DEF PushHistory
<1>3. /\ Len(new.entries) = l.position + 1 /\ new.position = l.position + 1
      /\ new.saved = saved /\ new.matches = kept.matches
      /\ \A k \in 0 .. l.position : SubSeq(new.entries, 1, k) = SubSeq(l.entries, 1, k)
  <2> HIDE DEF kept, saved, rewrites
  <2>1. new.entries = Append(kept.entries, entry)
    BY <1>2
  <2>2. Len(new.entries) = l.position + 1
    BY <1>1, <2>1, AppendProperties
  <2>3. \A k \in 0 .. l.position : SubSeq(new.entries, 1, k) = SubSeq(kept.entries, 1, k)
    BY <1>1, <2>1, PrefixOfAppend
  <2> QED BY <1>1, <1>2, <2>2, <2>3
<1>4. saved \in Nat \cup {-1} /\ saved <= l.position /\ (saved >= 0 => saved = l.saved)
  BY <1>0 DEF SavedIntact
<1>5. ASSUME write # NoWrite, write.current, kept.matches
      PROVE  /\ write.position \in 0 .. l.position
             /\ SubSeq(l.entries, 1, write.position) = write.prefix
  <2>1. write.position \in Nat
    BY <1>5 DEF WriteType
  <2>2. CASE rewrites
    <3>1. kept.matches = (l.matches /\ ~(SavePending /\ l.position < write.position))
      BY <1>0, <2>2, DropTyped
    <3>2. l.matches /\ write.position <= l.position
      <4> HIDE DEF kept
      <4>1. l.matches /\ ~(SavePending /\ l.position < write.position)
        BY <1>5, <3>1, Zenon
      <4> QED BY <1>0, <1>5, <2>1, <4>1 DEF SavePending
    <3> QED BY <1>0, <1>5, <2>1, <3>2 DEF WriteIntact
  <2>3. CASE ~rewrites
    BY <1>0, <1>5, <2>1, <2>3 DEF WriteIntact
  <2> QED BY <2>2, <2>3
<1> HIDE DEF kept, saved, rewrites, new
<1>6. SavedIntact(new, prefix)
  BY <1>0, <1>3, <1>4 DEF SavedIntact
<1>7. WriteIntact(new, write)
  BY <1>0, <1>3, <1>5 DEF WriteIntact
<1>8. Unsaved(new, write)
  BY <1>0, <1>3, <1>4, <1>5 DEF Unsaved
<1> QED BY <1>6, <1>7, <1>8 DEF new

\* A rebuild leaves the saved prefix alone, when taking a refused value back
\* does not reach the saved position.
LEMMA FlushIntact ==
  ASSUME NEW l \in HistoryType, NEW d \in Content, NEW r \in RefreshType,
         NEW w \in RowType, write \in WriteType, NEW prefix,
         SavedIntact(l, prefix), WriteIntact(l, write),
         (Refused # {} /\ r # NoRefresh /\ JoinsLast(l, r)) => l.saved # l.position
  PROVE  /\ SavedIntact(Flush(l, d, r, w).l, prefix)
         /\ WriteIntact(Flush(l, d, r, w).l, write)
         /\ (Unsaved(l, write) /\ ~(Refused # {} /\ r # NoRefresh /\ JoinsLast(l, r)))
              => Unsaved(Flush(l, d, r, w).l, write)
<1> DEFINE done == Flush(l, d, r, w)
           undone == [l EXCEPT !.position = @ - 1]
<1>1. CASE done.l = l
  BY <1>1
<1>2. CASE \E before \in Values, after \in Values, joined \in BOOLEAN :
             /\ r # NoRefresh
             /\ done.l = PushHistory(l, Entry("replace", Built(r.field), before, after, joined))
  <2>1. PICK before \in Values, after \in Values, joined \in BOOLEAN :
          /\ r # NoRefresh
          /\ done.l = PushHistory(l, Entry("replace", Built(r.field), before, after, joined))
    BY <1>2
  <2>2. Built(r.field) \in Slots
    BY <2>1, SlotsOfFields DEF RefreshType
  <2> DEFINE entry == Entry("replace", Built(r.field), before, after, joined)
  <2>3. entry \in EntryType
    BY <2>2, EntryTyped
  <2> HIDE DEF entry, done
  <2>4. done.l = PushHistory(l, entry)
    BY <2>1 DEF entry
  <2>5. /\ SavedIntact(done.l, prefix) /\ WriteIntact(done.l, write)
        /\ Unsaved(done.l, write)
    BY <2>3, <2>4, PushIntact
  <2> QED BY <2>5 DEF done
<1>3. CASE /\ Refused # {} /\ r # NoRefresh /\ JoinsLast(l, r)
           /\ done.l = DropHistory(undone, l.position - 1)
  <2>1. /\ l \in [entries : Seq(EntryType), position : Nat,
                  saved : Nat \cup {-1}, matches : BOOLEAN]
        /\ l.position > 0 /\ l.position = Len(l.entries)
        /\ l.saved # l.position
    BY <1>3 DEF HistoryType, JoinsLast
  <2>2. /\ undone \in [entries : Seq(EntryType), position : Nat,
                       saved : Nat \cup {-1}, matches : BOOLEAN]
        /\ undone.entries = l.entries
        /\ undone.saved = l.saved
        /\ undone.matches = l.matches
    BY <2>1
  <2>3. l.position - 1 \in 0 .. Len(undone.entries) /\ undone.saved <= l.position - 1
    BY <2>1, <2>2 DEF SavedIntact
  <2> HIDE DEF undone
  <2>4. SavedIntact(undone, prefix) /\ WriteIntact(undone, write)
    BY <2>2 DEF SavedIntact, WriteIntact
  <2>5. /\ SavedIntact(DropHistory(undone, l.position - 1), prefix)
        /\ WriteIntact(DropHistory(undone, l.position - 1), write)
    BY <2>2, <2>3, <2>4, DropIntact
  <2> QED BY <1>3, <2>5
<1> QED
  <2>1. \/ done.l \in FlushResults(l, r)
        \/ /\ Refused # {} /\ r # NoRefresh /\ JoinsLast(l, r)
           /\ done.l = DropHistory(undone, l.position - 1)
    BY FlushTyped
  <2>2. r = NoRefresh => done.l = l
    BY DEF Flush, RebuildOutcome
  <2> HIDE DEF done, undone
  <2>3. \/ done.l = l
        \/ \E before \in Values, after \in Values, joined \in BOOLEAN :
             /\ r # NoRefresh
             /\ done.l = PushHistory(l, Entry("replace", Built(r.field), before, after, joined))
        \/ /\ Refused # {} /\ r # NoRefresh /\ JoinsLast(l, r)
           /\ done.l = DropHistory(undone, l.position - 1)
    BY <2>1, <2>2 DEF FlushResults
  <2> QED BY <1>1, <1>2, <1>3, <2>3 DEF done

\* The inductive strengthening: a value that may be refused waits at a position
\* that is not saved.  It is false of text fields, whose newest entry can take
\* new values and be dropped, so the two don't go together.
Separate == TextFields = {} \/ Refused = {}

Intact ==
  /\ SavedPositionIntact
  /\ WritePositionIntact
  /\ Refused # {} => PendingIsUnsaved

LEMMA IntactByParts ==
  /\ Intact <=> /\ SavedIntact(h, savedPrefix) /\ WriteIntact(h, write)
                /\ Refused # {} => (refresh # NoRefresh => Unsaved(h, write))
  /\ Intact' <=> /\ SavedIntact(h', savedPrefix') /\ WriteIntact(h', write')
                 /\ Refused # {} => (refresh' # NoRefresh => Unsaved(h', write'))
BY DEF Intact, SavedPositionIntact, WritePositionIntact, PendingIsUnsaved,
       SavedIntact, WriteIntact, Unsaved, SavePending

LEMMA FlushedIntact ==
  ASSUME TypeOK, Intact
  PROVE  /\ Flushed.l \in HistoryType
         /\ SavedIntact(Flushed.l, savedPrefix)
         /\ WriteIntact(Flushed.l, write)
<1>1. (Refused # {} /\ refresh # NoRefresh /\ JoinsLast(h, refresh)) => h.saved # h.position
  BY IntactByParts DEF Unsaved
<1>2. /\ h \in HistoryType /\ doc \in Content /\ refresh \in RefreshType
      /\ row \in RowType /\ write \in WriteType
  BY DEF TypeOK
<1>3. SavedIntact(h, savedPrefix) /\ WriteIntact(h, write)
  BY IntactByParts
<1> QED BY <1>1, <1>2, <1>3, FlushIntact, FlushTyped DEF Flushed

LEMMA CoalescedIntact ==
  ASSUME TypeOK, Intact, row # NoRow, CanCoalesce, NEW v \in Values
  PROVE  /\ SavedIntact(Coalesced(v).l, savedPrefix)
         /\ WriteIntact(Coalesced(v).l, write)
<1>1. /\ h \in [entries : Seq(EntryType), position : Nat,
                saved : Nat \cup {-1}, matches : BOOLEAN]
      /\ row.index \in Nat \ {0} /\ h.position = row.index /\ Len(h.entries) = row.index
      /\ h.saved # h.position
      /\ ~(SavePending /\ write.position = h.position)
  BY DEF TypeOK, HistoryType, RowType, CanCoalesce, NewestOfRow
<1>2. SavedIntact(h, savedPrefix) /\ WriteIntact(h, write)
  BY IntactByParts
<1>3. h.saved <= h.position - 1
  BY <1>1, <1>2 DEF SavedIntact
<1>4. ASSUME write # NoWrite, write.current, h.matches
      PROVE  /\ write.position \in 0 .. h.position - 1
             /\ SubSeq(h.entries, 1, write.position) = write.prefix
  <2>1. write.position \in Nat
    BY <1>4 DEF TypeOK, WriteType
  <2> QED BY <1>1, <1>2, <1>4, <2>1 DEF WriteIntact, SavePending
<1>5. /\ Coalesced(v).l.saved = h.saved
      /\ Coalesced(v).l.matches = h.matches
      /\ Len(Coalesced(v).l.entries) \in {h.position - 1, h.position}
      /\ \A k \in 0 .. h.position - 1 :
           SubSeq(Coalesced(v).l.entries, 1, k) = SubSeq(h.entries, 1, k)
  <2>1. CASE h.entries[h.position].before = v
    <3>1. Coalesced(v).l = [entries  |-> SubSeq(h.entries, 1, h.position - 1),
                            position |-> h.position - 1,
                            saved    |-> h.saved,
                            matches  |-> h.matches]
      BY <2>1 DEF Coalesced
    <3>2. Len(SubSeq(h.entries, 1, h.position - 1)) = h.position - 1
      BY <1>1, SubSeqProperties, ElementOfSeq
    <3>3. h.position - 1 \in 0 .. Len(h.entries)
      BY <1>1
    <3> QED BY <1>1, <3>1, <3>2, <3>3, PrefixOfPrefix
  <2>2. CASE h.entries[h.position].before # v
    <3> DEFINE entry == [h.entries[h.position] EXCEPT !.after = v]
               edited == [h.entries EXCEPT ![h.position] = entry]
    <3>1. h.position \in 1 .. Len(h.entries) /\ entry \in EntryType
      <4>1. h.position \in 1 .. Len(h.entries) /\ h.entries[h.position] \in EntryType
        BY <1>1, ElementOfSeq
      <4> QED BY <4>1 DEF EntryType
    <3>2. Coalesced(v).l = [h EXCEPT !.entries = edited]
      BY <2>2 DEF Coalesced
    <3> HIDE DEF entry
    <3>3. /\ edited \in Seq(EntryType) /\ Len(edited) = h.position
          /\ \A i \in 1 .. h.position - 1 : edited[i] = h.entries[i]
      BY <1>1, <3>1, ExceptSeq
    <3> HIDE DEF edited
    <3>4. \A k \in 0 .. h.position - 1 : SubSeq(edited, 1, k) = SubSeq(h.entries, 1, k)
      BY <1>1, <3>3, SamePrefix
    <3> QED BY <1>1, <3>2, <3>3, <3>4
  <2> QED BY <2>1, <2>2
<1>6. SavedIntact(Coalesced(v).l, savedPrefix)
  BY <1>1, <1>2, <1>3, <1>5 DEF SavedIntact
<1>7. WriteIntact(Coalesced(v).l, write)
  BY <1>1, <1>4, <1>5 DEF WriteIntact
<1> QED BY <1>6, <1>7

LEMMA RecordedIntact ==
  ASSUME TypeOK, Intact, row # NoRow, NEW v \in Values
  PROVE  /\ SavedIntact(Recorded(v).l, savedPrefix)
         /\ WriteIntact(Recorded(v).l, write)
<1> DEFINE before == IF row.index = 0 THEN row.before ELSE doc[Value(row.field)]
           entry  == Entry("field", Value(row.field), before, v, FALSE)
<1>1. row \in [field : TextFields, index : Nat, before : Values]
  BY DEF TypeOK, RowType
<1>2. Value(row.field) \in Slots /\ before \in Values
  BY <1>1, SlotsOfFields, EditAssumption DEF TypeOK, Content
<1>3. entry \in EntryType
  BY <1>2, EntryTyped
<1>4. SavedIntact(h, savedPrefix) /\ WriteIntact(h, write)
  BY IntactByParts
<1>5. SavedIntact(PushHistory(h, entry), savedPrefix) /\ WriteIntact(PushHistory(h, entry), write)
  BY <1>3, <1>4, PushIntact DEF TypeOK
<1>6. Recorded(v).l = IF before = v THEN h ELSE PushHistory(h, entry)
  BY DEF Recorded
<1> HIDE DEF before, entry
<1> QED BY <1>4, <1>5, <1>6

LEMMA TypeTextIntact ==
  ASSUME TypeOK, Intact, Separate, NEW v \in Values, TypeText(v)
  PROVE  Intact'
<1> DEFINE typed == IF CanCoalesce THEN Coalesced(v) ELSE Recorded(v)
           d == [doc EXCEPT ![Value(row.field)] = v]
           w == [row EXCEPT !.index = typed.index]
<1>1. row # NoRow /\ row \in [field : TextFields, index : Nat, before : Values]
  BY DEF TypeText, TypeOK, RowType
<1>2. Refused = {}
  BY <1>1 DEF Separate
<1>3. typed.l \in HistoryType /\ typed.index \in Nat
  BY <1>1, CoalescedTyped, RecordedTyped
<1>4. SavedIntact(typed.l, savedPrefix) /\ WriteIntact(typed.l, write)
  BY <1>1, CoalescedIntact, RecordedIntact
<1>5. d \in Content /\ w \in RowType /\ refresh \in RefreshType /\ write \in WriteType
  BY <1>1, <1>3 DEF RowType, TypeOK, Content
<1>6. h' = typed.l \/ h' = Flush(typed.l, d, refresh, w).l
  BY DEF TypeText, RequestRefresh
<1> HIDE DEF typed, d, w
<1>7. SavedIntact(h', savedPrefix) /\ WriteIntact(h', write)
  BY <1>2, <1>3, <1>4, <1>5, <1>6, FlushIntact
<1> QED BY <1>2, <1>7, IntactByParts DEF TypeText

LEMMA ChangeIntact ==
  ASSUME TypeOK, Intact, NEW f \in Fields, NEW v \in Values, NEW now, Change(f, v, now)
  PROVE  Intact' /\ Unsaved(h', write')
<1> DEFINE entry == Entry("field", Value(f), doc[Value(f)], v, FALSE)
           d == [doc EXCEPT ![Value(f)] = v]
           l == PushHistory(h, entry)
<1>1. doc[Value(f)] \in Values /\ Value(f) \in Slots
  BY SlotsOfFields DEF TypeOK, Content
<1>2. entry \in EntryType /\ entry.slot = Value(f)
  BY <1>1, EntryTyped DEF Entry
<1>3. /\ d \in Content /\ row \in RowType /\ refresh \in RefreshType
      /\ write \in WriteType /\ h \in HistoryType
  BY DEF TypeOK, Content
<1>4. h' = l \/ (refresh # NoRefresh /\ refresh.field # f /\ h' = Flush(l, d, refresh, row).l)
  BY DEF Change, RequestRefresh
<1> HIDE DEF entry, d
<1>5. l \in HistoryType /\ l.entries[l.position] = entry
  BY <1>2, <1>3, PushTyped
<1>6. SavedIntact(h, savedPrefix) /\ WriteIntact(h, write)
  BY IntactByParts
<1>7. SavedIntact(l, savedPrefix) /\ WriteIntact(l, write) /\ Unsaved(l, write)
  BY <1>2, <1>3, <1>6, PushIntact
<1>8. (refresh # NoRefresh /\ refresh.field # f) => ~JoinsLast(l, refresh)
  BY <1>2, <1>3, <1>5, SlotsOfFields DEF JoinsLast, RefreshType
<1> HIDE DEF l
<1>9. SavedIntact(h', savedPrefix) /\ WriteIntact(h', write) /\ Unsaved(h', write)
  BY <1>3, <1>4, <1>5, <1>7, <1>8, FlushIntact
<1> QED BY <1>9, IntactByParts DEF Change

LEMMA ChangeGroupsIntact ==
  ASSUME TypeOK, Intact, NEW g \in Values, ChangeGroups(g)
  PROVE  Intact'
<1> DEFINE entry == Entry("structure", Groups, Flushed.d[Groups], g, FALSE)
<1>1. entry \in EntryType
  BY FlushedTyped, SlotsOfFields, EntryTyped DEF Content
<1> HIDE DEF entry
<1>2. /\ SavedIntact(PushHistory(Flushed.l, entry), savedPrefix)
      /\ WriteIntact(PushHistory(Flushed.l, entry), write)
  BY <1>1, FlushedIntact, PushIntact DEF TypeOK
<1> QED BY <1>2, IntactByParts DEF ChangeGroups, entry

LEMMA SwapDataIntact ==
  ASSUME TypeOK, Intact, NEW f \in Fields, NEW g \in Fields, SwapData(f, g)
  PROVE  Intact'
<1> DEFINE first  == Entry("data", Value(f), Flushed.d[Value(f)], Flushed.d[Value(g)], FALSE)
           second == Entry("data", Value(g), Flushed.d[Value(g)], Flushed.d[Value(f)], TRUE)
<1>1. Flushed.d[Value(f)] \in Values /\ Flushed.d[Value(g)] \in Values
  BY FlushedTyped, SlotsOfFields DEF Content
<1>2. first \in EntryType /\ second \in EntryType
  BY <1>1, SlotsOfFields, EntryTyped
<1>3. h' = PushHistory(PushHistory(Flushed.l, first), second)
  BY DEF SwapData
<1> HIDE DEF first, second
<1>4. write \in WriteType
  BY DEF TypeOK
<1>5. /\ PushHistory(Flushed.l, first) \in HistoryType
      /\ SavedIntact(PushHistory(Flushed.l, first), savedPrefix)
      /\ WriteIntact(PushHistory(Flushed.l, first), write)
  BY <1>2, <1>4, FlushedIntact, PushIntact, PushTyped
<1>6. SavedIntact(h', savedPrefix) /\ WriteIntact(h', write)
  BY <1>2, <1>3, <1>4, <1>5, PushIntact
<1> QED BY <1>6, IntactByParts DEF SwapData

\* Undo and redo only move the position.
LEMMA MoveIntact ==
  ASSUME TypeOK, Intact, Undo \/ Redo
  PROVE  Intact'
<1>1. \/ h' = Flushed.l
      \/ \E to : h' = [Flushed.l EXCEPT !.position = to]
  BY DEF Undo, Redo
<1>2. Flushed.l \in [entries : Seq(EntryType), position : Nat,
                    saved : Nat \cup {-1}, matches : BOOLEAN]
  BY FlushedIntact DEF HistoryType
<1>3. /\ h'.entries = Flushed.l.entries /\ h'.saved = Flushed.l.saved
      /\ h'.matches = Flushed.l.matches
  BY <1>1, <1>2
<1>4. SavedIntact(h', savedPrefix) /\ WriteIntact(h', write)
  BY <1>3, FlushedIntact DEF SavedIntact, WriteIntact
<1> QED BY <1>4, IntactByParts DEF Undo, Redo

LEMMA StartSaveIntact ==
  ASSUME TypeOK, Intact, StartSave
  PROVE  Intact'
<1>1. Flushed.l \in [entries : Seq(EntryType), position : Nat,
                    saved : Nat \cup {-1}, matches : BOOLEAN]
      /\ Flushed.l.position <= Len(Flushed.l.entries)
  BY FlushedIntact DEF HistoryType
<1>2. h' = [Flushed.l EXCEPT !.matches = TRUE]
  BY DEF StartSave
<1>3. h'.entries = Flushed.l.entries /\ h'.saved = Flushed.l.saved
  BY <1>1, <1>2
<1>4. SavedIntact(h', savedPrefix)
  BY <1>3, FlushedIntact DEF SavedIntact
<1>5. /\ write'.position = Flushed.l.position
      /\ write'.prefix = SubSeq(Flushed.l.entries, 1, Flushed.l.position)
  BY DEF StartSave
<1>6. WriteIntact(h', write')
  BY <1>1, <1>3, <1>5 DEF WriteIntact
<1> QED BY <1>4, <1>6, IntactByParts DEF StartSave

LEMMA WrittenIntact ==
  ASSUME TypeOK, Intact, Written \/ WriteFailed
  PROVE  Intact'
<1>1. /\ h \in [entries : Seq(EntryType), position : Nat,
                saved : Nat \cup {-1}, matches : BOOLEAN]
      /\ write \in [position : Nat, content : Content, current : BOOLEAN,
                    prefix : Seq(EntryType)]
      /\ write # NoWrite /\ write' = NoWrite
  BY DEF Written, WriteFailed, SavePending, TypeOK, WriteType, HistoryType
<1>2. WriteIntact(h', write')
  BY <1>1 DEF WriteIntact
<1>3. /\ SavedIntact(h, savedPrefix) /\ WriteIntact(h, write)
      /\ Refused # {} => (refresh # NoRefresh => Unsaved(h, write))
  BY IntactByParts
<1>4. CASE Written /\ write.current
  <2>1. /\ h' = [h EXCEPT !.saved = IF h.matches THEN write.position ELSE -1]
        /\ savedPrefix' = write.prefix /\ refresh' = refresh
    BY <1>4 DEF Written
  <2>2. /\ h'.entries = h.entries /\ h'.position = h.position
        /\ h'.saved = IF h.matches THEN write.position ELSE -1
    BY <1>1, <2>1
  <2>3. SavedIntact(h', savedPrefix')
    BY <1>1, <1>3, <1>4, <2>1, <2>2 DEF SavedIntact, WriteIntact
  <2>4. Refused # {} => (refresh' # NoRefresh => Unsaved(h', write'))
    BY <1>1, <1>3, <1>4, <2>1, <2>2 DEF Unsaved
  <2> QED BY <1>2, <2>3, <2>4, IntactByParts
<1>5. CASE ~(Written /\ write.current)
  <2>1. h' = h /\ savedPrefix' = savedPrefix /\ refresh' = refresh
    BY <1>5 DEF Written, WriteFailed
  <2>2. Refused # {} => (refresh' # NoRefresh => Unsaved(h', write'))
    BY <1>1, <1>3, <2>1 DEF Unsaved
  <2> QED BY <1>2, <1>3, <2>1, <2>2, IntactByParts
<1> QED BY <1>4, <1>5

LEMMA LoadIntact ==
  ASSUME TypeOK, Intact, NEW v \in Start, NEW adjusted \in BOOLEAN, Load(v, adjusted)
  PROVE  Intact'
<1>1. /\ h'.entries = <<>> /\ h'.saved \in {-1, 0} /\ savedPrefix' = <<>>
      /\ refresh' = NoRefresh
  BY DEF Load
<1>2. SubSeq(<<>>, 1, 0) = <<>> /\ Len(<<>>) = 0
  BY SubSeqEmpty
<1>3. SavedIntact(h', savedPrefix')
  BY <1>1, <1>2 DEF SavedIntact
<1>4. write' # NoWrite => ~write'.current
  <2>1. CASE SavePending
    <3>1. write \in [position : Nat, content : Content, current : BOOLEAN,
                    prefix : Seq(EntryType)]
      BY <2>1 DEF SavePending, TypeOK, WriteType
    <3>2. write' = [write EXCEPT !.current = FALSE]
      BY <2>1 DEF Load
    <3> QED BY <3>1, <3>2
  <2>2. CASE ~SavePending
    BY <2>2 DEF Load, SavePending
  <2> QED BY <2>1, <2>2
<1>5. WriteIntact(h', write')
  BY <1>4 DEF WriteIntact
<1> QED BY <1>1, <1>3, <1>5, IntactByParts

LEMMA NextIntact == Separate /\ TypeOK /\ Intact /\ [Next]_vars => Intact'
<1> SUFFICES ASSUME Separate, TypeOK, Intact, [Next]_vars PROVE Intact'
  OBVIOUS
<1> USE EditAssumption
<1>1. CASE LeaveRow \/ ActivateRow \/ (\E f \in TextFields : FocusRow(f)) \/ UNCHANGED vars
  <2>1. UNCHANGED <<h, refresh, write, savedPrefix>>
    BY <1>1 DEF LeaveRow, ActivateRow, FocusRow, vars
  <2> QED BY <2>1, IntactByParts
<1>2. CASE \E v \in Values : TypeText(v)
  BY <1>2, TypeTextIntact
<1>3. CASE \E f \in Fields, v \in Values : Choose(f, v) \/ ChangeUnfocused(f, v)
  BY <1>3, ChangeIntact DEF Choose, ChangeUnfocused
<1>4. CASE \E g \in Values : ChangeGroups(g)
  BY <1>4, ChangeGroupsIntact
<1>5. CASE \E f, g \in Fields \ (LayoutFields \cup TypeFields) : SwapData(f, g)
  BY <1>5, SwapDataIntact
<1>6. CASE Refresh \/ PrepareOutput
  <2>1. /\ h' = Flushed.l /\ refresh' = NoRefresh
        /\ UNCHANGED <<write, savedPrefix>>
    BY <1>6 DEF Refresh, PrepareOutput
  <2> QED BY <2>1, FlushedIntact, IntactByParts
<1>7. CASE Undo \/ Redo
  BY <1>7, MoveIntact
<1>8. CASE StartSave
  BY <1>8, StartSaveIntact
<1>9. CASE Written \/ WriteFailed
  BY <1>9, WrittenIntact
<1>10. CASE \E v \in Start, adjusted \in BOOLEAN : Load(v, adjusted)
  BY <1>10, LoadIntact
<1> QED BY <1>1, <1>2, <1>3, <1>4, <1>5, <1>6, <1>7, <1>8, <1>9, <1>10 DEF Next, Edit

LEMMA PositionsIntact ==
  ASSUME Separate
  PROVE  Spec => [](SavedPositionIntact /\ WritePositionIntact)
<1>1. Init => Intact
  <2> SUFFICES ASSUME Init PROVE Intact
    OBVIOUS
  <2>1. /\ h = [entries |-> <<>>, position |-> 0, saved |-> 0, matches |-> FALSE]
        /\ refresh = NoRefresh /\ write = NoWrite /\ savedPrefix = <<>>
    BY DEF Init
  <2>2. SubSeq(<<>>, 1, 0) = <<>> /\ Len(<<>>) = 0
    BY SubSeqEmpty
  <2> QED BY <2>1, <2>2, IntactByParts DEF SavedIntact, WriteIntact
<1>2. TypeOK /\ Intact /\ [Next]_vars => Intact'
  BY NextIntact
<1>3. Intact => SavedPositionIntact /\ WritePositionIntact
  BY DEF Intact
<1>4. Init /\ [][Next]_vars => [](SavedPositionIntact /\ WritePositionIntact)
  BY <1>1, <1>2, <1>3, InitTyped, NextTyped, PTL
<1> QED BY <1>4, PTL DEF Spec

\* The saved history position always names the entries the file was written
\* from, whatever is edited, rebuilt, undone, redone and saved in between.
THEOREM SavedPositionCorrect ==
  ASSUME Separate
  PROVE  Spec => []SavedPositionIntact
BY PositionsIntact, PTL

\* A write that still matches when it ends was taken from entries nobody has
\* replaced since: its position can become the saved one (wnd_on_written).
THEOREM WritePositionCorrect ==
  ASSUME Separate
  PROVE  Spec => []WritePositionIntact
BY PositionsIntact, PTL
=============================================================================
